------------------------------ MODULE WsStream ------------------------------
(***************************************************************************)
(* What a WebSocket connection promises to the program that receives from  *)
(* it (curl_core.h, pl_curl_ws_recv): the server's messages, whole and in  *)
(* order, then the news that the server closed with the status it gave, or *)
(* a failure, and nothing after that.                                      *)
(***************************************************************************)
EXTENDS Naturals, Sequences

VARIABLES
  sent,    \* the messages the server has completed
  got,     \* the messages the program was given
  code,    \* the server's close: "open" (none yet), "none" or "given" (status)
  told,    \* what the program was told of it
  status   \* "new", "up" or "over"

vars == <<sent, got, code, told, status>>

Init == sent = <<>> /\ got = <<>> /\ code = "open" /\ told = "open" /\ status = "new"

Connect == status = "new" /\ status' \in {"up", "over"} /\ UNCHANGED <<sent, got, code, told>>

\* The server may go on sending to a program that has stopped listening.
ServerSends ==
  /\ status # "new" /\ code = "open"
  /\ Len(sent') = Len(sent) + 1 /\ SubSeq(sent', 1, Len(sent)) = sent
  /\ UNCHANGED <<got, code, told, status>>

ServerCloses ==
  /\ status # "new" /\ code = "open"
  /\ code' \in {"none", "given"}
  /\ UNCHANGED <<sent, got, told, status>>

Deliver ==
  /\ status = "up" /\ Len(got) < Len(sent)
  /\ got' = Append(got, sent[Len(got) + 1])
  /\ UNCHANGED <<sent, code, told, status>>

\* The close is reported behind the last message.
ReportClose ==
  /\ status = "up" /\ code # "open" /\ got = sent
  /\ told' = code /\ status' = "over"
  /\ UNCHANGED <<sent, got, code>>

\* The program closes, or the connection fails.
End == status = "up" /\ status' = "over" /\ UNCHANGED <<sent, got, code, told>>

Next == Connect \/ ServerSends \/ ServerCloses \/ Deliver \/ ReportClose \/ End

Spec == Init /\ [][Next]_vars

=============================================================================
