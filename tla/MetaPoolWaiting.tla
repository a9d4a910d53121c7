-------------------------- MODULE MetaPoolWaiting ---------------------------
(***************************************************************************)
(* The waiting periods of the staking pools, under no schedule at all: the  *)
(* methods of the heartbeat are called by anyone in any order, calls fail,  *)
(* and epochs end while a call is open. One variable is added to the        *)
(* meta-pool, which no guard reads: the epoch of the latest call.           *)
(***************************************************************************)
EXTENDS MetaPool

VARIABLE called_in      (* history: epoch in which the latest call was sent *)

waiting_vars == <<vars, called_in>>

call_sent == \E p \in promises' \ promises : p.status = "sent"

note_call == called_in' = IF call_sent THEN epoch_height ELSE called_in

WaitingSpec ==
  Init /\ called_in = epoch_height /\ [][Next /\ note_call]_waiting_vars

-----------------------------------------------------------------------------
still_waiting(sp) == sp.unstaked > 0 /\ ~wait_period_ended(sp)

(***************************************************************************)
(* "If has not unstaked balance waiting for withdrawal, or wait started in  *)
(* this same epoch (no harm in unstaking more)" (internal.rs:529). A pool   *)
(* is chosen when the call is sent, and its callback starts the wait anew   *)
(* for all it holds unstaked, also in a later epoch, which the TODO there   *)
(* is about. NEAR that still waits is only made to wait longer by as many   *)
(* epochs as the call was open: not at all when it is called back in the    *)
(* epoch it was sent in.                                                    *)
(***************************************************************************)
WaitNotProlonged ==
  [][\A i \in DOMAIN staking_pools :
       still_waiting(staking_pools[i]) =>
         staking_pools'[i].unstk_req_epoch_height
           <= staking_pools[i].unstk_req_epoch_height
              + (epoch_height - called_in)]_waiting_vars
=============================================================================
