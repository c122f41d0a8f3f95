---------------------------- MODULE TokenService ----------------------------
(***************************************************************************)
(* What a host may rely on, with no blocks, cache, batch or step in sight: *)
(* a request is accepted under a fresh ticket, its tokens arrive once and  *)
(* in order, and exactly one terminal event, with a reason that tells the  *)
(* truth, follows the last of them.                                        *)
(***************************************************************************)
EXTENDS Integers, Sequences

CONSTANTS
  Ticket,       (* tickets a host may obtain                               *)
  Stop          (* the stop token                                          *)

VARIABLES
  asked,        (* per ticket: -1, or the output limit of its request      *)
  aborted,      (* tickets whose request the host has aborted              *)
  stream,       (* per ticket: tokens delivered                            *)
  ending,       (* per ticket: terminal events delivered                   *)
  broken        (* the service has failed for good                         *)

serviceVars == <<asked, aborted, stream, ending, broken>>

ServiceInit ==
  /\ asked = [t \in Ticket |-> -1]
  /\ aborted = {}
  /\ stream = [t \in Ticket |-> <<>>]
  /\ ending = [t \in Ticket |-> <<>>]
  /\ broken = FALSE

Open(t) == asked[t] >= 0 /\ ending[t] = <<>>

Accept(t, maximum) ==
  /\ ~broken /\ asked[t] = -1 /\ maximum >= 0
  /\ \A u \in Ticket : u < t => asked[u] # -1
  /\ asked' = [asked EXCEPT ![t] = maximum]
  /\ UNCHANGED <<aborted, stream, ending, broken>>

Abort(t) ==
  /\ Open(t)
  /\ aborted' = aborted \cup {t}
  /\ UNCHANGED <<asked, stream, ending, broken>>

(* A token, with the terminal event in the same breath if it is the stop   *)
(* token or the last one asked for.  Nothing follows an abort.             *)
Deliver(t, token) ==
  /\ ~broken /\ Open(t) /\ t \notin aborted
  /\ Len(stream[t]) < asked[t]
  /\ stream' = [stream EXCEPT ![t] = Append(@, token)]
  /\ ending' = [ending EXCEPT ![t] =
       IF token = Stop THEN <<"stop">>
       ELSE IF Len(stream[t]) + 1 = asked[t] THEN <<"length">>
       ELSE <<>>]
  /\ UNCHANGED <<asked, aborted, broken>>

Close(t, reason) ==
  /\ Open(t)
  /\ \/ reason = "abort" /\ t \in aborted
     \/ reason = "length" /\ asked[t] = 0 /\ t \notin aborted
     \/ reason = "error" /\ broken
  /\ ending' = [ending EXCEPT ![t] = <<reason>>]
  /\ UNCHANGED <<asked, aborted, stream, broken>>

(* After a failure open requests end with an error and nothing else comes. *)
Break ==
  /\ ~broken /\ broken' = TRUE
  /\ UNCHANGED <<asked, aborted, stream, ending>>

ServiceNext ==
  \/ \E t \in Ticket :
       \/ Accept(t, asked'[t])
       \/ Abort(t)
       \/ \E k \in DOMAIN stream'[t] : Deliver(t, stream'[t][k])
       \/ \E reason \in {"abort", "length", "error"} : Close(t, reason)
  \/ Break

TokenServiceSpec == ServiceInit /\ [][ServiceNext]_serviceVars
=============================================================================
