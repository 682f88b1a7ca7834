-------------------------------- MODULE Chains --------------------------------
(***************************************************************************)
(* The chains of pkg/pipeline/scalable_chain.go.  A caller composes them,  *)
(* executes one of them, and goes on using the list of steps it made them  *)
(* from.  A Go slice is a length over an array that others may share.      *)
(*                                                                         *)
(* "chain" is an ArrayChain, an ImmutableChain or a DynamicChain, which is *)
(* a new one with each step and so behaves like a copy; "func" is what     *)
(* ToFunc and Build return.  A ChainVariadic is made as an ArrayChain is,  *)
(* and never extended.                                                     *)
(***************************************************************************)
EXTENDS Naturals, Sequences

CONSTANTS
  Steps,       \* the functions to compose
  NoStep,      \* the content of an array past the length of its slice
  FirstList,   \* the steps in the list of the caller, whose array has room for one more
  MaxChains,   \* the bound on what is composed
  MaxAdded     \* the bound on the steps of a builder

VARIABLES
  arrays,  \* the arrays under the slices; the first is that of the caller's list
  chains,  \* everything that was composed
  run      \* the execution of one of the chains

vars == <<arrays, chains, run>>

List == SubSeq(arrays[1], 1, Len(FirstList))

\* What a loop over the slice of a chain reads.
Content(c) == SubSeq(arrays[c.array], 1, c.len)

Kinds == {"chain", "builder", "func"}

\* Every variable keeps its type.
TypeOK ==
  /\ arrays \in Seq(Seq(Steps \union {NoStep}))
  /\ \A i \in DOMAIN chains : chains[i] \in
       [kind : Kinds, array : DOMAIN arrays, len : Nat, own : BOOLEAN, made : Seq(Steps)]
  /\ run \in [chain : 0..Len(chains), applied : Seq(Steps), answer : {"none", "value", "error"}]

Init ==
  /\ arrays = <<Append(FirstList, NoStep)>>
  /\ chains = <<>>
  /\ run = [chain |-> 0, applied |-> <<>>, answer |-> "value"]
-----------------------------------------------------------------------------
(* Composition.  made is what the caller asked for; own says that the      *)
(* chain was not laid over the list of the caller.                         *)

Compose(kind, array, len, own, made) ==
  /\ Len(chains) < MaxChains
  /\ chains' = Append(chains, [kind |-> kind, array |-> array, len |-> len,
                               own |-> own, made |-> made])
  /\ UNCHANGED run

\* A chain with an array of its own, of which nothing is unused.
Fresh(kind, steps) ==
  /\ Compose(kind, Len(arrays) + 1, Len(steps), TRUE, steps)
  /\ arrays' = Append(arrays, steps)

\* NewDynamicChain starts with the identity, NewChainBuilder with nothing.
NewEmpty == \E kind \in {"chain", "builder"} : Fresh(kind, <<>>)

\* NewImmutableChain copies the list it is given.
NewImmutableChain == Fresh("chain", List)

\* NewArrayChain(list...) and ChainVariadic(list...) keep the slice they are
\* given.
NewOverList ==
  /\ Compose("chain", 1, Len(List), FALSE, List)
  /\ UNCHANGED arrays

\* Mutant: Then and Append are the append of Go, which writes into the unused
\* part of the array if there is one.
ThenAppends(i, s) ==
  LET c == chains[i] IN
  /\ c.kind = "chain"
  /\ IF c.len < Len(arrays[c.array])
     THEN /\ Compose("chain", c.array, c.len + 1, TRUE, Append(Content(c), s))
          /\ arrays' = [arrays EXCEPT ![c.array][c.len + 1] = s]
     ELSE /\ Compose("chain", Len(arrays) + 1, c.len + 1, TRUE, Append(Content(c), s))
          /\ arrays' = Append(arrays, Content(c) \o <<s, NoStep>>)

\* DynamicChain.Then, ArrayChain.Append and ImmutableChain.Then: another chain,
\* longer by one step.
Then(i, s) ==
  /\ chains[i].kind = "chain"
  /\ Fresh("chain", Append(Content(chains[i]), s))

\* The append of Go: into the unused part of the array, or into a larger array
\* with as much unused as the runtime chooses.
Add(i, s) ==
  LET c == chains[i]
      grown == [c EXCEPT !.len = @ + 1, !.made = Append(@, s)]
  IN
  /\ c.kind = "builder"
  /\ c.len < MaxAdded
  /\ \/ /\ c.len < Len(arrays[c.array])
        /\ arrays' = [arrays EXCEPT ![c.array][c.len + 1] = s]
        /\ chains' = [chains EXCEPT ![i] = grown]
     \/ /\ c.len = Len(arrays[c.array])
        /\ \E unused \in {<<>>, <<NoStep>>} :
             arrays' = Append(arrays, Content(c) \o <<s>> \o unused)
        /\ chains' = [chains EXCEPT ![i] = [grown EXCEPT !.array = Len(arrays) + 1]]
  /\ UNCHANGED run

\* Mutant: the function is made over the slice of the chain.
ToFuncShares(i) ==
  LET c == chains[i] IN
  /\ c.kind # "func"
  /\ Compose("func", c.array, c.len, TRUE, Content(c))
  /\ UNCHANGED arrays

\* ToFunc, and Build of a builder: a function over a copy of the steps.
ToFunc(i) ==
  /\ chains[i].kind # "func"
  /\ Fresh("func", Content(chains[i]))

\* The caller changes an element of its list.
Overwrite ==
  /\ \E k \in DOMAIN List, s \in Steps : arrays' = [arrays EXCEPT ![1][k] = s]
  /\ UNCHANGED <<chains, run>>
-----------------------------------------------------------------------------
(* Execution.  A value is the sequence of the steps applied to the input.  *)

Execute(i) ==
  /\ run.answer # "none"
  /\ chains[i].kind # "builder"
  /\ run' = [chain |-> i, applied |-> <<>>, answer |-> "none"]
  /\ UNCHANGED <<arrays, chains>>

\* The loop reads the next step from the array each time.  At an error the
\* chains return with it what they have so far, or the zero value, or nil.
Step ==
  /\ run.answer = "none"
  /\ LET c == chains[run.chain]
         at == Len(run.applied) + 1
     IN IF at > c.len
        THEN run' = [run EXCEPT !.answer = "value"]
        ELSE \/ run' = [run EXCEPT !.applied = Append(@, arrays[c.array][at])]
             \/ run' = [run EXCEPT !.answer = "error"]
  /\ UNCHANGED <<arrays, chains>>

Next ==
  \/ NewEmpty \/ NewImmutableChain \/ NewOverList
  \/ \E i \in DOMAIN chains, s \in Steps : Then(i, s) \/ Add(i, s)
  \/ \E i \in DOMAIN chains : ToFunc(i) \/ Execute(i)
  \/ Overwrite \/ Step

Spec == Init /\ [][Next]_vars
-----------------------------------------------------------------------------
\* A chain that was not laid over the caller's list runs what was composed,
\* in that order, up to its first error, whatever is composed, built or
\* overwritten meanwhile (the copies in Then, Append, ToFunc and Build).
RunsWhatWasComposed ==
  run.chain # 0 =>
    LET c == chains[run.chain] IN
    c.own =>
      /\ Len(run.applied) <= Len(c.made)
      /\ run.applied = SubSeq(c.made, 1, Len(run.applied))
      /\ run.answer = "value" => run.applied = c.made
=============================================================================
