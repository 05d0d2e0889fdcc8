------------------------------- MODULE LocalRpc -------------------------------
(***************************************************************************)
(* Local automation: the server that pairs keys and admits signed requests *)
(* (src/main/local-rpc-server.ts, with its clients in database.ts), and    *)
(* the command line that pairs (packages/agent-launcher/lib/automation.mjs *)
(* with automation-key-helper.ts).                                         *)
(*                                                                         *)
(* The handling of a request is one step up to its effect: the server does *)
(* not wait between the checks and the call.  A signed request may arrive  *)
(* any number of times.  Time is a count of minutes that does not go back. *)
(***************************************************************************)
EXTENDS Naturals, Sequences, FiniteSets

CONSTANTS Keys, Pairings, Nonces, None,
          Skew, NonceLife, RateWindow, MaxRate, MaxLive,
          PairingLife, Retention, MaxPending,
          MaxTime        \* bound: minutes

ASSUME TimesAssumption ==
  /\ MaxTime \in Nat /\ Skew \in Nat /\ NonceLife \in Nat
  /\ NonceLife > 2 * Skew

Minutes == 0 .. MaxTime

\* A signed request: a paired key is its client.
Requests == [key : Keys, nonce : Nonces, at : Minutes]

VARIABLES
  clock,
  client,    \* automation_clients, by key: "none", "active" or "revoked"
  pairing,   \* pendingPairings of this process
  live,      \* nonces: the live ones, with the key they are of
  times,     \* clientRequestTimes, by key
  runs,      \* how often this process has run each request
  key,       \* the key file of the command line: "none", "unbound" or "bound"
  cli        \* what the command line is at, and the pairing it polls

vars == <<clock, client, pairing, live, times, runs, key, cli>>
requests == <<live, times, runs>>

Init ==
  /\ clock = 0 /\ client = [k \in Keys |-> "none"] /\ pairing = [p \in Pairings |-> None]
  /\ live = {} /\ times = [k \in Keys |-> <<>>] /\ runs = [r \in Requests |-> 0]
  /\ key = [k \in Keys |-> "none"] /\ cli = [k \in Keys |-> [at |-> "idle", of |-> None]]

-----------------------------------------------------------------------------
(* Signed requests: verifySignedRequest, then the call.                      *)
WithinSkew(r) == r.at <= clock + Skew /\ clock <= r.at + Skew

Recent(k) == SelectSeq(times[k], LAMBDA t : t + RateWindow > clock)
Unexpired(k) == {n \in live : n.key = k => n.until > clock}

Admitted(r) ==
  /\ WithinSkew(r)
  /\ client[r.key] = "active"
  /\ Len(Recent(r.key)) < MaxRate

\* Mutant: a nonce lives as long as its request could arrive early.
AdmitShortLived(r) ==
  LET others == Unexpired(r.key)
  IN  /\ Admitted(r)
      /\ times' = [times EXCEPT ![r.key] = Append(Recent(r.key), clock)]
      /\ IF \/ \E n \in others : n.key = r.key /\ n.nonce = r.nonce
            \/ Cardinality({n \in others : n.key = r.key}) >= MaxLive
         THEN live' = others /\ UNCHANGED runs
         ELSE /\ live' = others \cup {[key |-> r.key, nonce |-> r.nonce, until |-> clock + Skew]}
              /\ runs' = [runs EXCEPT ![r] = @ + 1]
      /\ UNCHANGED <<clock, client, pairing, key, cli>>

\* A refusal for the nonce has already counted for the rate.
Admit(r) ==
  LET others == Unexpired(r.key)
  IN  /\ Admitted(r)
      /\ times' = [times EXCEPT ![r.key] = Append(Recent(r.key), clock)]
      /\ IF \/ \E n \in others : n.key = r.key /\ n.nonce = r.nonce
            \/ Cardinality({n \in others : n.key = r.key}) >= MaxLive
         THEN live' = others /\ UNCHANGED runs
         ELSE /\ live' = others \cup {[key |-> r.key, nonce |-> r.nonce, until |-> clock + NonceLife]}
              /\ runs' = [runs EXCEPT ![r] = @ + 1]
      /\ UNCHANGED <<clock, client, pairing, key, cli>>

-----------------------------------------------------------------------------
(* Pairing.  Each of its calls begins with prunePairings.                    *)
Pruned ==
  [p \in Pairings |->
     LET e == pairing[p]
     IN  IF e = None \/ e.expires + Retention <= clock THEN None
         ELSE IF e.status = "pending" /\ e.expires <= clock THEN [e EXCEPT !.status = "expired"]
         ELSE e]
Pending(pairings) == {p \in Pairings : pairings[p] # None /\ pairings[p].status = "pending"}

\* requestPairing, for the command line: the answer comes, or the connection breaks
\* and the same request is sent again.
Ask(k, p, lost) ==
  /\ cli[k].at = "request" /\ client[k] = "none"
  /\ Pruned[p] = None /\ Cardinality(Pending(Pruned)) < MaxPending
  /\ pairing' = [Pruned EXCEPT ![p] =
                   [key |-> k, status |-> "pending", expires |-> clock + PairingLife]]
  /\ cli' = IF lost THEN cli ELSE [cli EXCEPT ![k] = [at |-> "poll", of |-> p]]
  /\ UNCHANGED <<clock, client, requests, key>>

\* approvePairing.
Approve(p) ==
  /\ Pruned[p] # None /\ Pruned[p].status = "pending"
  /\ client[Pruned[p].key] = "none"
  /\ client' = [client EXCEPT ![Pruned[p].key] = "active"]
  /\ pairing' = [Pruned EXCEPT ![p].status = "approved"]
  /\ UNCHANGED <<clock, requests, key, cli>>

Deny(p) ==
  /\ Pruned[p] # None /\ Pruned[p].status = "pending"
  /\ pairing' = [Pruned EXCEPT ![p].status = "denied"]
  /\ UNCHANGED <<clock, client, requests, key, cli>>

Revoke(k) ==
  /\ client[k] = "active" /\ client' = [client EXCEPT ![k] = "revoked"]
  /\ UNCHANGED <<clock, pairing, requests, key, cli>>

-----------------------------------------------------------------------------
(* pairAutomation, in the command line. *)
Generate(k) ==
  /\ cli[k].at = "idle" /\ key[k] = "none"
  /\ key' = [key EXCEPT ![k] = "unbound"]
  /\ cli' = [cli EXCEPT ![k].at = "request"]
  /\ UNCHANGED <<clock, client, pairing, requests>>

\* A poll: what it finds is bound, is given up, or is looked at again.
Poll(k) ==
  /\ cli[k].at = "poll" /\ pairing' = Pruned
  /\ LET e == Pruned[cli[k].of]
     IN  cli' = IF e = None \/ e.status = "pending" THEN cli
                ELSE [cli EXCEPT ![k].at = IF e.status = "approved" THEN "bind" ELSE "fail"]
  /\ UNCHANGED <<clock, client, requests, key>>

\* key.bind: the record goes to a temporary file, then takes the place of the old one.
Bind(k) ==
  /\ cli[k].at = "bind"
  /\ key' = [key EXCEPT ![k] = "bound"]
  /\ cli' = [cli EXCEPT ![k].at = "paired"]
  /\ UNCHANGED <<clock, client, pairing, requests>>

\* The request or a poll is refused or breaks, the pairing runs out, or binding fails.
GiveUp(k) ==
  /\ cli[k].at \in {"request", "poll", "bind"}
  /\ cli' = [cli EXCEPT ![k].at = "fail"]
  /\ UNCHANGED <<clock, client, pairing, requests, key>>

\* key.delete, of a key that is not bound.
Discard(k) ==
  /\ cli[k].at = "fail" /\ key[k] = "unbound"
  /\ key' = [key EXCEPT ![k] = "none"]
  /\ cli' = [cli EXCEPT ![k] = [at |-> "gone", of |-> None]]
  /\ UNCHANGED <<clock, client, pairing, requests>>

-----------------------------------------------------------------------------
Tick ==
  /\ clock < MaxTime /\ clock' = clock + 1
  /\ UNCHANGED <<client, pairing, requests, key, cli>>

\* The application starts again: the clients are in the database, the rest is not.
Restart ==
  /\ pairing' = [p \in Pairings |-> None]
  /\ live' = {} /\ times' = [k \in Keys |-> <<>>] /\ runs' = [r \in Requests |-> 0]
  /\ UNCHANGED <<clock, client, key, cli>>

Next ==
  \/ Tick \/ Restart
  \/ \E r \in Requests : Admit(r)
  \/ \E p \in Pairings : Approve(p) \/ Deny(p)
  \/ \E k \in Keys :
       \/ Revoke(k) \/ Generate(k) \/ Poll(k) \/ Bind(k) \/ GiveUp(k) \/ Discard(k)
       \/ \E p \in Pairings, lost \in BOOLEAN : Ask(k, p, lost)

Spec == Init /\ [][Next]_vars

-----------------------------------------------------------------------------
\* However often a signed request arrives, early or late, a process of the application
\* runs it once: a nonce is forgotten only when its request is too old.
RunsOnce == \A r \in Requests : runs[r] <= 1
=============================================================================
