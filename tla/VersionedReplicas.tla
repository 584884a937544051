------------------------- MODULE VersionedReplicas -------------------------
(***************************************************************************)
(* What device sync promises, without batches, cursors, clocks or          *)
(* sessions: every device holds one version of every key; it may put new   *)
(* versions of its own into the world, and it only ever moves on to a      *)
(* newer version that some device issued.                                  *)
(***************************************************************************)
EXTENDS Naturals

CONSTANTS Device, Key, Recovery, NoValue, Nothing(_)

VARIABLES held, issued

\* Newest stamp first, the device id breaks a tie, and nothing replaces a used
\* recovery code but a later use of it.
Newer(v, w) ==
  LET later == v.hlc > w.hlc \/ (v.hlc = w.hlc /\ v.dev > w.dev)
  IN  \/ w = Nothing(w.key)
      \/ v.key \in Recovery /\ v.val = NoValue /\ w.val # NoValue
      \/ later /\ (v.key \in Recovery /\ w.val = NoValue => v.val = NoValue)

ReplicasInit ==
  /\ \A v, w \in issued : v.hlc = w.hlc /\ v.dev = w.dev => v = w
  /\ \A d \in Device, k \in Key : held[d][k] \in issued \cup {Nothing(k)}

\* Device d issues versions under stamps that were never used, each of which it
\* then holds or has already moved on from, and adopts issued ones.
Advance(d) ==
  /\ issued \subseteq issued'
  /\ \A v \in issued' \ issued :
       /\ v.dev = d
       /\ \A w \in issued' : v.hlc = w.hlc /\ v.dev = w.dev => v = w
       /\ held'[d][v.key] = v \/ Newer(held'[d][v.key], v)
  /\ \A k \in Key : \/ held'[d][k] = held[d][k]
                    \/ held'[d][k] \in issued' /\ Newer(held'[d][k], held[d][k])
  /\ \A e \in Device \ {d} : held'[e] = held[e]

ReplicasSpec == ReplicasInit /\ [][\E d \in Device : Advance(d)]_<<held, issued>>
=============================================================================
