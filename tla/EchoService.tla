----------------------------- MODULE EchoService -----------------------------
(***************************************************************************)
(* What the echo server promises to one client: each answer belongs to a   *)
(* request the client has completed, no request is answered twice, and,    *)
(* when Ordered, requests are answered in the order in which they came.    *)
(* Requests are numbered from 1.  Connection.tla implements it.            *)
(***************************************************************************)
EXTENDS Naturals, Sequences

CONSTANT Ordered    \* are answers given in the order of the requests

VARIABLES asked,    \* the number of requests completed by the client
          answered  \* the requests whose answers the client got, in order

esvars == <<asked, answered>>

ESInit == asked = 0 /\ answered = << >>

Ask == asked' = asked + 1 /\ UNCHANGED answered

Answer(m) ==
  /\ \A i \in 1 .. Len(answered) : answered[i] # m
  /\ Ordered => m = Len(answered) + 1
  /\ answered' = Append(answered, m)
  /\ UNCHANGED asked

ESNext == Ask \/ \E m \in 1 .. asked : Answer(m)

ESSpec == ESInit /\ [][ESNext]_esvars
=============================================================================
