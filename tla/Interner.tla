------------------------------- MODULE Interner -------------------------------
(***************************************************************************)
(* What an interner promises its users, the LockingTreap of the Rust VM as *)
(* well as the SymbolTable of the Zig VM: a table of distinct keys, there  *)
(* from the start, that only grows at its end, where each call is answered *)
(* in one atomic step.  Only loading a set of keys takes a step per key.   *)
(***************************************************************************)
EXTENDS Integers, Sequences

CONSTANTS Threads, Keys, InitKeys, Loads, NoAnswer, NotThere

VARIABLES
  names,     (* names[i + 1] is the key with index i                        *)
  request,   (* the call each thread last made                              *)
  answer     (* what it was answered, NoAnswer as long as it waits          *)

vars == <<names, request, answer>>

Interns(k) == [op |-> "intern", arg |-> k]
Looks(k) == [op |-> "lookup", arg |-> k]
Asks(i) == [op |-> "at", arg |-> i]
LoadsAll(keys) == [op |-> "load", arg |-> keys]

Waits(t, op) == answer[t] = NoAnswer /\ request[t].op = op
Answer(t, a) == answer' = [answer EXCEPT ![t] = a] /\ UNCHANGED request

Init ==
  /\ names = InitKeys
  /\ request \in [Threads -> {Asks(0)}]
  /\ answer \in [Threads -> {0}]

Request(t) ==
  /\ answer[t] # NoAnswer
  /\ \E r \in {Interns(k) : k \in Keys} \cup {Looks(k) : k \in Keys}
              \cup {Asks(i) : i \in 0 .. Len(names) - 1} \cup {LoadsAll(keys) : keys \in Loads} :
       request' = [request EXCEPT ![t] = r]
  /\ answer' = [answer EXCEPT ![t] = NoAnswer]
  /\ UNCHANGED names

Name(t) ==
  /\ Waits(t, "at")
  /\ Answer(t, names[request[t].arg + 1])
  /\ UNCHANGED names

OldIndex(t) ==
  /\ Waits(t, "intern") \/ Waits(t, "lookup")
  /\ \E i \in DOMAIN names : names[i] = request[t].arg /\ Answer(t, i - 1)
  /\ UNCHANGED names

NewIndex(t) ==
  /\ Waits(t, "intern")
  /\ \A i \in DOMAIN names : names[i] # request[t].arg
  /\ names' = Append(names, request[t].arg)
  /\ Answer(t, Len(names))

NoIndex(t) ==
  /\ Waits(t, "lookup")
  /\ \A i \in DOMAIN names : names[i] # request[t].arg
  /\ Answer(t, NotThere)
  /\ UNCHANGED names

LoadNext(t) ==
  /\ Waits(t, "load")
  /\ \E k \in request[t].arg :
       /\ \A i \in DOMAIN names : names[i] # k
       /\ names' = Append(names, k)
  /\ UNCHANGED <<request, answer>>

LoadDone(t) ==
  /\ Waits(t, "load")
  /\ \A k \in request[t].arg : \E i \in DOMAIN names : names[i] = k
  /\ Answer(t, 0)
  /\ UNCHANGED names

Next ==
  \E t \in Threads :
    \/ Request(t)
    \/ Name(t) \/ OldIndex(t) \/ NewIndex(t) \/ NoIndex(t)
    \/ LoadNext(t) \/ LoadDone(t)

Spec == Init /\ [][Next]_vars
=============================================================================
