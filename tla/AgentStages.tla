----------------------------- MODULE AgentStages -----------------------------
(***************************************************************************)
(* How the executors of the agent are written down.  A stage reads the     *)
(* host, then throws, or updates its stash and issues its calls in order:  *)
(*   pass   it got past its checks                                         *)
(*   stash  what it remembers for its rollback: marker, the flag written   *)
(*          before a change is tried, and before, the pre-state            *)
(*   calls  the calls it goes on to make                                   *)
(* A rollback is a stage of the same form.                                 *)
(***************************************************************************)
CONSTANT None

\* One call: a verb, what it is applied to and its argument, and what an error
\* of it does: throw, go on with the next call (Soft), or leave out the calls
\* that follow (Rest).
Call(verb, on, arg) == [verb |-> verb, on |-> on, arg |-> arg, onError |-> "throw"]
Soft(call)          == [call EXCEPT !.onError = "next"]
Rest(calls)         == [i \in DOMAIN calls |-> [calls[i] EXCEPT !.onError = "end"]]

\* What a call returns: whether it reports success, and the host it leaves.
Refused(h) == [ok |-> FALSE, host |-> h]
Done(h)    == [ok |-> TRUE, host |-> h]

Check(ok, stash)    == [pass |-> ok, stash |-> stash, calls |-> <<>>]
Issue(stash, calls) == [pass |-> TRUE, stash |-> stash, calls |-> calls]
Nothing(stash)      == Issue(stash, <<>>)

EmptyStash  == [marker |-> FALSE, before |-> None]
Marked(s)   == [s EXCEPT !.marker = TRUE]
Saw(s, pre) == [s EXCEPT !.before = pre]

If(cond, calls) == IF cond THEN calls ELSE <<>>
=============================================================================
