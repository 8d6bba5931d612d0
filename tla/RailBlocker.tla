---------------------------- MODULE RailBlocker ----------------------------
(***************************************************************************)
(* One direction of the send and receive programs of ldms_rail_test        *)
(* (python/ldms_rail_send_recv_server.py, ldms_rail_send_recv_client.py).  *)
(* The callback of a message keeps it and blocks in class Blocker, so that *)
(* the sender's quota stays spent until the script types                   *)
(* blocker.unblock().  The quota is the library's, external: a message     *)
(* spends it, and gets it back when its callback returns.                  *)
(***************************************************************************)
EXTENDS Naturals

CONSTANTS
  Limit,        \* rail_recv_limit
  Cost,         \* what a message spends
  MaxSent,      \* bound on the messages
  MaxUnblocks   \* bound on the calls of unblock()

ASSUME RailAssumption ==
  /\ Limit \in Nat /\ Cost \in Nat \ {0}
  /\ MaxSent \in Nat /\ MaxUnblocks \in Nat

VARIABLES
  send_quota,   \* of the sender
  wire,         \* messages under way
  recv_data,    \* the number of messages kept
  is_blocking,
  call,         \* where the callback is
  returned,     \* history: callbacks that returned
  unblocks,     \* history: calls of unblock()
  opened        \* history: those that found a callback blocking

railVars == <<send_quota, wire, recv_data, is_blocking, call, returned,
              unblocks, opened>>

RailTypeOK ==
  /\ send_quota \in 0 .. Limit
  /\ wire \in 0 .. MaxSent /\ recv_data \in 0 .. MaxSent
  /\ is_blocking \in BOOLEAN /\ call \in {"idle", "block", "wait", "wake"}
  /\ returned \in 0 .. MaxSent
  /\ unblocks \in 0 .. MaxUnblocks /\ opened \in 0 .. MaxUnblocks
-----------------------------------------------------------------------------
(* stream_publish; without quota it raises.                                *)
Publish ==
  /\ recv_data + wire < MaxSent
  /\ Cost <= send_quota
  /\ send_quota' = send_quota - Cost
  /\ wire' = wire + 1
  /\ UNCHANGED <<recv_data, is_blocking, call, returned, unblocks, opened>>

(* stream_cb: one message after the other.                                 *)
Receive ==
  /\ call = "idle" /\ wire > 0
  /\ wire' = wire - 1
  /\ recv_data' = recv_data + 1
  /\ call' = "block"
  /\ UNCHANGED <<send_quota, is_blocking, returned, unblocks, opened>>

(* Blocker.block.                                                          *)
Block ==
  /\ call = "block"
  /\ is_blocking' = TRUE
  /\ call' = "wait"
  /\ UNCHANGED <<send_quota, wire, recv_data, returned, unblocks, opened>>

(* Mutant: unblock notifies and leaves the flag alone.                     *)
UnblockKeepsFlag ==
  /\ unblocks < MaxUnblocks
  /\ unblocks' = unblocks + 1
  /\ opened' = IF call = "wait" THEN opened + 1 ELSE opened
  /\ call' = IF call = "wait" THEN "wake" ELSE call
  /\ UNCHANGED <<send_quota, wire, recv_data, is_blocking, returned>>

(* Blocker.unblock.                                                        *)
Unblock ==
  /\ unblocks < MaxUnblocks
  /\ unblocks' = unblocks + 1
  /\ is_blocking' = FALSE
  /\ opened' = IF call = "wait" THEN opened + 1 ELSE opened
  /\ call' = IF call = "wait" THEN "wake" ELSE call
  /\ UNCHANGED <<send_quota, wire, recv_data, returned>>

(* block: the loop around the wait.                                        *)
Wake ==
  /\ call = "wake"
  /\ IF is_blocking THEN call' = "wait" /\ UNCHANGED <<returned, send_quota>>
     ELSE /\ call' = "idle"
          /\ returned' = returned + 1
          /\ send_quota' = send_quota + Cost
  /\ UNCHANGED <<wire, recv_data, is_blocking, unblocks, opened>>

RailInit ==
  /\ send_quota = Limit /\ wire = 0 /\ recv_data = 0
  /\ is_blocking = FALSE /\ call = "idle"
  /\ returned = 0 /\ unblocks = 0 /\ opened = 0

RailNext == Publish \/ Receive \/ Block \/ Unblock \/ Wake

RailFairness == WF_railVars(Receive) /\ WF_railVars(Block) /\ WF_railVars(Wake)
-----------------------------------------------------------------------------
(* Each unblock() lets one message through at most, so that the quota the  *)
(* script sees is that of the messages it did not let through              *)
(* (ldms_rail_send_recv_server.py:44-60).                                  *)
OnePassage ==
  /\ returned <= opened
  /\ send_quota + Cost * (wire + recv_data - opened) <= Limit

(* An unblock() that finds a callback blocking lets it return.  One that   *)
(* comes before block() is lost.                                           *)
UnblockWorks == (returned < opened) ~> (returned = opened)
-----------------------------------------------------------------------------
(* Why OnePassage holds: an unblock() that finds a callback blocking is    *)
(* followed by the return of that callback, and what is spent is what is   *)
(* under way, kept or in the callback.                                     *)
RailInv ==
  /\ RailTypeOK
  /\ call = "wake" => ~is_blocking
  /\ opened <= unblocks
  /\ opened = returned + (IF call = "wake" THEN 1 ELSE 0)
  /\ recv_data = returned + (IF call = "idle" THEN 0 ELSE 1)
  /\ recv_data + wire <= MaxSent
  /\ send_quota + Cost * (wire + recv_data - returned) = Limit
=============================================================================
