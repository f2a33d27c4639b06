---------------------------- MODULE ContentCoding ----------------------------
(***************************************************************************)
(* What a content-coding body filter promises to the two sides it connects: *)
(* the caller hands it a body piece by piece and says which piece is last,  *)
(* the client receives the coded form.                                      *)
(*                                                                         *)
(*   received   body bytes handed over so far                              *)
(*   complete   the last piece has been handed over                        *)
(*   coded      body bytes whose code has been produced                    *)
(*   ended      the client has been told that the body ends here           *)
(*   status     "open", "done", or "failed"; a failed response is reset,    *)
(*              nothing is promised about it                               *)
(***************************************************************************)
EXTENDS Naturals

VARIABLES received, complete, coded, ended, status

vars == <<received, complete, coded, ended, status>>

Init ==
  /\ received = 0
  /\ complete = FALSE
  /\ coded = 0
  /\ ended = FALSE
  /\ status = "open"

(* The caller hands over n more bytes, the last ones if final.             *)
Receive ==
  /\ status = "open"
  /\ ~complete
  /\ received' \in {n \in Nat : n >= received}
  /\ complete' \in BOOLEAN
  /\ UNCHANGED <<coded, ended, status>>

(* Code is produced, never ahead of the body.                              *)
Code ==
  /\ status = "open"
  /\ ~ended
  /\ coded' \in coded..received
  /\ UNCHANGED <<received, complete, ended, status>>

(* The end is announced only when the whole body has been coded.           *)
End ==
  /\ status = "open"
  /\ complete
  /\ coded = received
  /\ ~ended
  /\ ended' = TRUE
  /\ UNCHANGED <<received, complete, coded, status>>

Finish ==
  /\ status = "open"
  /\ ended
  /\ status' = "done"
  /\ UNCHANGED <<received, complete, coded, ended>>

Fail ==
  /\ status = "open"
  /\ status' = "failed"
  /\ coded' = 0
  /\ ended' = FALSE
  /\ UNCHANGED <<received, complete>>

Next == Receive \/ Code \/ End \/ Finish \/ Fail

Spec == Init /\ [][Next]_vars
==============================================================================
