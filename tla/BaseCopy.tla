------------------------------- MODULE BaseCopy -------------------------------
(***************************************************************************)
(* The baseline without PIR: server_base sends the whole of ads.csv, a     *)
(* block of SIZE bytes for each line (send_file), and client_base writes   *)
(* what it receives to ads_copy.csv (write_file).                          *)
(*                                                                         *)
(* A byte of the stream is its position: the line it belongs to and        *)
(* whether it is text or the zeros that fill up the block follow from it.  *)
(***************************************************************************)
EXTENDS Integers, Sequences

CONSTANTS
    Lines,      \* lines of ads.csv
    Text,       \* bytes of a line, its newline included
    Block,      \* SIZE
    Garbage     \* what an uninitialised byte prints

ASSUME CopyAssumption ==
    /\ Lines \in Nat
    /\ Block \in Nat \ {0}
    /\ Text \in 1 .. Block - 1
    /\ Garbage \notin Nat

VARIABLES
    sent,       \* bytes sent
    sending,    \* whether the sender still has its end of the connection
    received,   \* bytes received
    clear,      \* whether the client's buffer was cleared
    copy,       \* ads_copy.csv: positions of the bytes written to it
    done,       \* write_file has returned
    cut,        \* history: whether a recv returned less than a block
    failed      \* history: whether a send or a recv failed, or the sender died

vars == <<sent, sending, received, clear, copy, done, cut, failed>>

-----------------------------------------------------------------------------
Total == Lines * Block

IsText(p) == p % Block < Text

\* Positions first .. last, in order.
Span(first, last) == [i \in 1 .. last - first + 1 |-> first + i - 1]

TypeOK ==
    /\ sent \in 0 .. Total
    /\ sending \in BOOLEAN
    /\ sending => sent % Block = 0
    /\ received \in 0 .. sent
    /\ clear \in BOOLEAN
    /\ copy \in Seq((0 .. Total - 1) \cup {Garbage})
    /\ done \in BOOLEAN
    /\ cut \in BOOLEAN
    /\ failed \in BOOLEAN

Init ==
    /\ sent = 0
    /\ sending = TRUE
    /\ received = 0
    /\ clear = FALSE
    /\ copy = <<>>
    /\ done = FALSE
    /\ cut = FALSE
    /\ failed = FALSE

\* Faulty variant: the end of the file is not seen.
SendLineAgain ==
    /\ sending
    /\ sent' = sent + Block
    /\ UNCHANGED <<sending, received, clear, copy, done, cut, failed>>

\* fgets and send.
SendLine ==
    /\ sending
    /\ sent < Total
    /\ sent' = sent + Block
    /\ UNCHANGED <<sending, received, clear, copy, done, cut, failed>>

\* Faulty variant: the last line is taken for the end of the file.
SendEndEarly ==
    /\ sending
    /\ sent >= Total - Block
    /\ sending' = FALSE
    /\ UNCHANGED <<sent, received, clear, copy, done, cut, failed>>

\* fgets finds no further line, and the connection is closed.
SendEnd ==
    /\ sending
    /\ sent = Total
    /\ sending' = FALSE
    /\ UNCHANGED <<sent, received, clear, copy, done, cut, failed>>

\* A send fails and the sender exits, or something ends it, with a part of a block
\* on its way.
SendFails ==
    /\ sending
    /\ \E part \in 0 .. Block - 1 :
           /\ sent + part <= Total
           /\ sent' = sent + part
    /\ sending' = FALSE
    /\ failed' = TRUE
    /\ UNCHANGED <<received, clear, copy, done, cut>>

\* Faulty variant: the zeros are written as well.
PrintsAll(n) == copy' = copy \o Span(received, received + n - 1)

\* Faulty variant: the last byte received is taken for the end of the string.
PrintsButLast(n) == copy' = copy \o Span(received, received + n - 2)

\* fprintf("%s") of a buffer whose first n bytes were received: it stops at the
\* first zero among them; if there is none, at those the buffer was cleared to,
\* and before it was cleared for the first time anything may follow.
Prints(n) ==
    IF \E p \in received .. received + n - 1 : ~ IsText(p)
    THEN \E stop \in received .. received + n - 1 :
             /\ ~ IsText(stop)
             /\ \A p \in received .. stop - 1 : IsText(p)
             /\ copy' = copy \o Span(received, stop - 1)
    ELSE \E rest \in {<<>>} \cup (IF clear THEN {} ELSE {<<Garbage>>}) :
             copy' = copy \o Span(received, received + n - 1) \o rest

\* One recv of up to a block, of what was sent.
Receive ==
    /\ ~ done
    /\ \E n \in 1 .. Block :
           /\ received + n <= sent
           /\ Prints(n)
           /\ received' = received + n
           /\ cut' = (cut \/ n < Block)
    /\ clear' = TRUE
    /\ UNCHANGED <<sent, sending, done, failed>>

\* recv returns 0 when the connection is closed and all of it is received.
ReceiveEnd ==
    /\ ~ done
    /\ ~ sending
    /\ received = sent
    /\ done' = TRUE
    /\ UNCHANGED <<sent, sending, received, clear, copy, cut, failed>>

\* recv returns -1, which ends the loop as well.
ReceiveFails ==
    /\ ~ done
    /\ done' = TRUE
    /\ failed' = TRUE
    /\ UNCHANGED <<sent, sending, received, clear, copy, cut>>

Next == SendLine \/ SendEnd \/ SendFails \/ Receive \/ ReceiveEnd \/ ReceiveFails

Spec == Init /\ [][Next]_vars

-----------------------------------------------------------------------------
Copied(p) == \E i \in 1 .. Len(copy) : copy[i] = p

\* A line is only ever damaged at its front, however the stream is cut: when a
\* byte of a line was copied, so were those of the line received after it.
LostAtFrontOnly ==
    \A p, q \in 0 .. received - 1 :
        /\ p < q /\ p \div Block = q \div Block /\ IsText(q)
        /\ Copied(p)
        => Copied(q)

\* The copy is the text of the first n bytes of the stream, in their order, and
\* nothing else.
IsTextOf(n) ==
    /\ \A p \in 0 .. n - 1 : IsText(p) => Copied(p)
    /\ \A i \in 1 .. Len(copy) : copy[i] \in 0 .. n - 1 /\ IsText(copy[i])
    /\ \A i, j \in 1 .. Len(copy) : i < j => copy[i] < copy[j]

\* As long as every recv returned the block of a line, the copy is the first lines
\* of the file, each whole, wherever the sender, the connection or the receiver
\* came to an end (client_base.cpp:21-26).
FirstLinesWhole ==
    ~ cut => received % Block = 0 /\ IsTextOf(received)

\* It is the whole file when moreover nothing failed on either side: the sender
\* closes only after the last line, and the receiver stops only then.
WholeUnlessCut ==
    done /\ ~ cut /\ ~ failed => IsTextOf(Total)

=============================================================================
