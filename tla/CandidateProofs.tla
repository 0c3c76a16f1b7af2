---------------------------- MODULE CandidateProofs ----------------------------
(***************************************************************************)
(* What the stages of phase 1 compute from a tree, for every tree: what a  *)
(* merged compose file keeps, where a fact comes from, whom a candidate is *)
(* about, and what a command resolves to.                                  *)
(***************************************************************************)
EXTENDS ApplicationTopology, OrderedSelectionProofs

------------------------------------------------------------------------------
\* Sequences

LEMMA SequenceIs ==
    ASSUME NEW V, NEW s \in Seq(V)
    PROVE  IsSequence(s) /\ ToSet(s) \subseteq V
<1>1. DOMAIN s = 1..Len(s) /\ Len(s) \in Nat /\ \A k \in 1..Len(s) : s[k] \in V OBVIOUS
<1>2. \A k \in 1..Len(s) : s[k] \in ToSet(s) BY <1>1 DEF ToSet
<1>3. s \in Seq(ToSet(s)) BY <1>1, <1>2
<1>4. QED BY <1>1, <1>3 DEF IsSequence, ToSet

LEMMA CountedSequence ==
    ASSUME NEW n \in Nat, NEW V, NEW f \in [1..n -> V]
    PROVE  f \in Seq(V)
  OBVIOUS

LEMMA SequencePlaces ==
    ASSUME NEW s, IsSequence(s)
    PROVE  /\ Len(s) \in Nat /\ DOMAIN s = 1..Len(s)
           /\ DOMAIN s \in SUBSET Nat /\ IsFiniteSet(DOMAIN s)
           /\ \A S \in SUBSET DOMAIN s : S \in SUBSET Nat /\ IsFiniteSet(S)
           /\ \A k \in DOMAIN s : s[k] \in ToSet(s)
           /\ \A e \in ToSet(s) : \E k \in DOMAIN s : e = s[k]
<1>1. s \in Seq(ToSet(s)) BY DEF IsSequence
<1>2. Len(s) \in Nat /\ DOMAIN s = 1..Len(s) BY <1>1
<1>3. QED BY <1>1, <1>2, PlacesOfSequence DEF ToSet

LEMMA SequenceAlong ==
    ASSUME NEW s, IsSequence(s), NEW W, NEW f \in [DOMAIN s -> W]
    PROVE  f \in Seq(W) /\ IsSequence(f) /\ DOMAIN f = DOMAIN s
<1>1. Len(s) \in Nat /\ DOMAIN s = 1..Len(s) BY SequencePlaces
<1>2. f \in Seq(W) BY <1>1
<1>3. QED BY <1>2, SequenceIs

LEMMA SequenceJoined ==
    ASSUME NEW s, NEW t, IsSequence(s), IsSequence(t)
    PROVE  /\ IsSequence(s \o t) /\ ToSet(s \o t) = ToSet(s) \cup ToSet(t)
           /\ Len(s \o t) = Len(s) + Len(t)
           /\ \A k \in DOMAIN s : k \in DOMAIN (s \o t) /\ (s \o t)[k] = s[k]
           /\ \A k \in DOMAIN t : Len(s) + k \in DOMAIN (s \o t) /\ (s \o t)[Len(s) + k] = t[k]
           /\ \A k \in DOMAIN (s \o t) : k \notin DOMAIN s => k - Len(s) \in DOMAIN t
<1> DEFINE V == ToSet(s) \cup ToSet(t)
<1>1. s \in Seq(ToSet(s)) /\ t \in Seq(ToSet(t)) BY DEF IsSequence
<1>2. s \in Seq(V) /\ t \in Seq(V) BY <1>1
<1> HIDE DEF V
<1>3. /\ s \o t \in Seq(V) /\ Len(s \o t) = Len(s) + Len(t) /\ Len(s) \in Nat /\ Len(t) \in Nat
      /\ DOMAIN (s \o t) = 1..(Len(s) + Len(t)) /\ DOMAIN s = 1..Len(s) /\ DOMAIN t = 1..Len(t)
      /\ \A k \in 1..(Len(s) + Len(t)) : (s \o t)[k] = IF k <= Len(s) THEN s[k] ELSE t[k - Len(s)]
  BY <1>2
<1>4. IsSequence(s \o t) /\ ToSet(s \o t) \subseteq V BY <1>3, SequenceIs
<1>5. \A k \in DOMAIN s : k \in DOMAIN (s \o t) /\ (s \o t)[k] = s[k] BY <1>3
<1>6. \A k \in DOMAIN t : Len(s) + k \in DOMAIN (s \o t) /\ (s \o t)[Len(s) + k] = t[k]
  <2> TAKE k \in DOMAIN t
  <2>1. Len(s) + k \in 1..(Len(s) + Len(t)) /\ ~(Len(s) + k <= Len(s)) /\ (Len(s) + k) - Len(s) = k BY <1>3
  <2>2. QED BY <1>3, <2>1
<1>7. \A k \in DOMAIN (s \o t) : k \notin DOMAIN s => k - Len(s) \in DOMAIN t BY <1>3
<1>8. V \subseteq ToSet(s \o t)
  <2>1. ToSet(s) \subseteq ToSet(s \o t) BY <1>5 DEF ToSet
  <2>2. ToSet(t) \subseteq ToSet(s \o t) BY <1>6 DEF ToSet
  <2>3. QED BY <2>1, <2>2 DEF V
<1>9. QED BY <1>3, <1>4, <1>5, <1>6, <1>7, <1>8 DEF V

LEMMA SequenceFlattened ==
    ASSUME NEW seqs, IsSequence(seqs), \A k \in DOMAIN seqs : IsSequence(seqs[k])
    PROVE  /\ IsSequence(FlattenSeq(seqs))
           /\ ToSet(FlattenSeq(seqs)) = UNION {ToSet(seqs[k]) : k \in DOMAIN seqs}
           /\ \E part, place : IsUnflattening(FlattenSeq(seqs), seqs, Len(seqs), part, place)
<1> DEFINE V == UNION {ToSet(seqs[k]) : k \in DOMAIN seqs}
<1>1. \A k \in DOMAIN seqs : seqs[k] \in Seq(V)
  <2> TAKE k \in DOMAIN seqs
  <2>1. seqs[k] \in Seq(ToSet(seqs[k])) /\ ToSet(seqs[k]) \subseteq V BY DEF IsSequence
  <2>2. QED BY <2>1
<1>2. seqs \in Seq(Seq(V))
  <2>1. seqs \in Seq(ToSet(seqs)) BY DEF IsSequence
  <2>2. ToSet(seqs) \subseteq Seq(V) BY <1>1 DEF ToSet
  <2>3. QED BY <2>1, <2>2
<1> HIDE DEF V
<1>3. FlattenSeq(seqs) \in Seq(V) BY <1>2, FlattenPlaces
<1>4. QED BY <1>2, <1>3, FlattenPlaces, FlattenElements, SequenceIs

\* The empty sequence and one element.
LEMMA SequenceShort ==
    /\ IsSequence(<<>>) /\ ToSet(<<>>) = {}
    /\ \A e : IsSequence(<<e>>) /\ ToSet(<<e>>) = {e}
<1>1. IsSequence(<<>>) /\ ToSet(<<>>) = {} BY DEF IsSequence, ToSet
<1>2. ASSUME NEW e PROVE IsSequence(<<e>>) /\ ToSet(<<e>>) = {e}
  <2>1. <<e>> \in Seq({e}) OBVIOUS
  <2>2. ToSet(<<e>>) = {e} BY DEF ToSet
  <2>3. QED BY <2>1, <2>2 DEF IsSequence
<1>3. QED BY <1>1, <1>2

\* A selection from a sequence.
LEMMA SequenceAt ==
    ASSUME NEW s, IsSequence(s), NEW S \in SUBSET DOMAIN s
    PROVE  /\ IsSequence(At(s, S)) /\ ToSet(At(s, S)) = {s[k] : k \in S}
           /\ At(s, S) = <<>> <=> S = {}
<1>1. S \in SUBSET Nat /\ IsFiniteSet(S) BY SequencePlaces
<1>2. \A k \in S : s[k] \in {s[j] : j \in S} OBVIOUS
<1>3. At(s, S) \in Seq({s[j] : j \in S}) BY <1>1, <1>2, AtSequence
<1>4. QED BY <1>1, <1>3, AtMembers, AtEmpty, SequenceIs

LEMMA SequenceInOrder ==
    ASSUME NEW S \in SUBSET Nat, IsFiniteSet(S)
    PROVE  IsSequence(InOrder(S)) /\ ToSet(InOrder(S)) = S
  BY InOrderSequence, InOrderMembers, SequenceIs

------------------------------------------------------------------------------
\* Package scripts

\* Beyond a path, only the results of longer paths matter.
LEMMA ResolveNameAgrees ==
    ASSUME NEW ev, NEW scripts \in SUBSET Nat, IsFiniteSet(scripts), NEW call, NEW path \in Seq(scripts),
           NEW f, NEW g,
           \A i \in scripts : Len(path) < MaxScriptChainDepth => f[Append(path, i)] = g[Append(path, i)]
    PROVE  ResolveName(f, ev, scripts, call, path) = ResolveName(g, ev, scripts, call, path)
<1> DEFINE matches == InOrder({i \in scripts : ScriptName(ev, i) = NextName(ev, call, path)})
           Results(r) == [k \in DOMAIN matches |-> ResolveScript(r, ev, call, path, matches[k])]
<1>1. \A k \in DOMAIN matches : matches[k] \in scripts
  <2> DEFINE S == {i \in scripts : ScriptName(ev, i) = NextName(ev, call, path)}
  <2>1. S \in SUBSET Nat /\ IsFiniteSet(S) /\ S \subseteq scripts BY FS_Subset
  <2> HIDE DEF S
  <2>2. InOrder(S) \in [1..Cardinality(S) -> S] BY <2>1, InOrderMembers
  <2>3. QED BY <2>1, <2>2 DEF S
<1> HIDE DEF matches
<1>2. CASE Len(path) < MaxScriptChainDepth
  <2>1. \A i \in scripts : ResolveScript(f, ev, call, path, i) = ResolveScript(g, ev, call, path, i)
    BY <1>2, Zenon DEF ResolveScript
  <2>2. Results(f) = Results(g) BY <1>1, <2>1
  <2>3. QED BY <2>2, Zenon DEF ResolveName, matches
<1>3. CASE ~(Len(path) < MaxScriptChainDepth)
  <2>1. Len(path) >= MaxScriptChainDepth BY <1>3 DEF MaxScriptChainDepth
  <2>2. QED BY <2>1, Zenon DEF ResolveName
<1>4. QED BY <1>2, <1>3

IsResolution(resolve, ev, scripts, call) ==
    \A path \in Seq(scripts) : resolve[path] = ResolveName(resolve, ev, scripts, call, path)

\* The recursion over paths is well founded, as it ends at the depth limit.
LEMMA ResolutionExists ==
    ASSUME NEW ev, NEW scripts \in SUBSET Nat, IsFiniteSet(scripts), NEW call
    PROVE  \E resolve : /\ IsResolution(resolve, ev, scripts, call)
                        /\ PackageScript(ev, scripts, call) = resolve[<<>>]
<1> DEFINE Deep(n) == {path \in Seq(scripts) : Len(path) + n >= MaxScriptChainDepth}
           Solved(r, n) == \A path \in Deep(n) : r[path] = ResolveName(r, ev, scripts, call, path)
           S == {n \in Nat : \E r : Solved(r, n)}
           Next1(r, n) == [path \in Seq(scripts) |->
                              IF path \in Deep(n) THEN r[path] ELSE ResolveName(r, ev, scripts, call, path)]
<1>1. ASSUME NEW path \in Seq(scripts), NEW i \in scripts
      PROVE  Append(path, i) \in Seq(scripts) /\ Len(Append(path, i)) = Len(path) + 1 /\ Len(path) \in Nat
  OBVIOUS
<1>2. 0 \in S
  <2> DEFINE r == [path \in Seq(scripts) |-> ResolveName(<<>>, ev, scripts, call, path)]
  <2>1. ASSUME NEW path \in Deep(0) PROVE r[path] = ResolveName(r, ev, scripts, call, path)
    <3>1. path \in Seq(scripts) /\ ~(Len(path) < MaxScriptChainDepth) BY DEF MaxScriptChainDepth
    <3>2. r[path] = ResolveName(<<>>, ev, scripts, call, path) BY <3>1
    <3> HIDE DEF r
    <3>3. QED BY <3>1, <3>2, ResolveNameAgrees
  <2> HIDE DEF r
  <2>2. Solved(r, 0) BY <2>1
  <2>3. QED BY <2>2
<1>3. ASSUME NEW n \in Nat, n \in S PROVE n + 1 \in S
  <2>1. PICK r : Solved(r, n) BY <1>3
  <2> DEFINE t == Next1(r, n)
  <2>2. \A path \in Deep(n) : t[path] = r[path] BY Zenon
  <2>3. \A path \in Seq(scripts) : t[path] = ResolveName(r, ev, scripts, call, path)
    BY <2>1, Zenon
  <2> HIDE DEF t
  <2>4. ASSUME NEW path \in Deep(n + 1) PROVE t[path] = ResolveName(t, ev, scripts, call, path)
    <3>1. path \in Seq(scripts) OBVIOUS
    <3>2. \A i \in scripts : Append(path, i) \in Deep(n) BY <1>1, <3>1 DEF MaxScriptChainDepth
    <3>3. \A i \in scripts : r[Append(path, i)] = t[Append(path, i)] BY <2>2, <3>2
    <3>4. ResolveName(r, ev, scripts, call, path) = ResolveName(t, ev, scripts, call, path)
      BY <3>1, <3>3, ResolveNameAgrees
    <3>5. QED BY <2>3, <3>1, <3>4
  <2>5. Solved(t, n + 1) BY <2>4
  <2>6. QED BY <2>5
<1> HIDE DEF S
<1>4. MaxScriptChainDepth \in S BY <1>2, <1>3, SetInduction DEF MaxScriptChainDepth
<1>5. PICK r : Solved(r, MaxScriptChainDepth) BY <1>4 DEF S
<1>6. \A path \in Seq(scripts) : path \in Deep(MaxScriptChainDepth) BY DEF MaxScriptChainDepth
<1> DEFINE Step(h) == [path \in Seq(scripts) |-> ResolveName(h, ev, scripts, call, path)]
           q == Step(r)
           chosen == CHOOSE h : h = Step(h)
<1>7. \A path \in Seq(scripts) : q[path] = r[path] BY <1>5, <1>6, Zenon
<1>8. \A path \in Seq(scripts) : q[path] = ResolveName(q, ev, scripts, call, path)
  <2> TAKE path \in Seq(scripts)
  <2>1. \A i \in scripts : r[Append(path, i)] = q[Append(path, i)] BY <1>1, <1>7
  <2>2. q[path] = ResolveName(r, ev, scripts, call, path) BY Zenon
  <2> HIDE DEF q
  <2>3. QED BY <2>1, <2>2, ResolveNameAgrees
<1>9. q = Step(q)
  <2>1. Step(q) = [path \in Seq(scripts) |-> q[path]] BY <1>8, Zenon
  <2>2. q = [path \in Seq(scripts) |-> q[path]] BY Zenon
  <2>3. QED BY <2>1, <2>2, Zenon
<1> HIDE DEF q
<1>10. chosen = Step(chosen) BY <1>9, Zenon
<1>11. PackageScript(ev, scripts, call) = chosen[<<>>] BY Zenon DEF PackageScript
<1> HIDE DEF chosen
<1>12. IsResolution(chosen, ev, scripts, call)
  <2> SUFFICES ASSUME NEW path \in Seq(scripts)
               PROVE  chosen[path] = ResolveName(chosen, ev, scripts, call, path)
    BY DEF IsResolution
  <2>1. chosen[path] = Step(chosen)[path] BY <1>10, Zenon
  <2>2. QED BY <2>1, Zenon
<1>13. QED BY <1>11, <1>12

------------------------------------------------------------------------------
\* What a command is made of

TokensOf(ev, i) ==
    IF ev[i].type = "package_script" THEN ev[i].value.command.tokens ELSE ev[i].value.tokens

\* The words are those of one fact, or of an ENTRYPOINT and its CMD.
StatedIn(ev, tokens, refs) ==
    \/ \E i \in refs : tokens = TokensOf(ev, i)
    \/ \E i \in refs \cap FactsOf(ev, "dockerfile_entrypoint"), j \in refs \cap FactsOf(ev, "dockerfile_cmd") :
          SameFile(ev[i], ev[j]) /\ tokens = TokensOf(ev, i) \o TokensOf(ev, j)

\* Scripts that call each other without end are among the facts.
HasCycle(ev, refs) ==
    \E cycle \in SUBSET (refs \cap FactsOf(ev, "package_script")) :
        /\ cycle # {}
        /\ \A i \in cycle : \E j \in cycle : Invoked(TokensOf(ev, i)) = ScriptName(ev, j)

\* A command of the repository, or a gap, which names a cycle only over one.
IsResult(ev, r) ==
    /\ "kind" \in DOMAIN r
    /\ IsCommand(r) => StatedIn(ev, r.tokens, r.refs)
    /\ ~IsCommand(r) => /\ {"reason", "refs"} \subseteq DOMAIN r
                        /\ r.reason = "package_script_cycle" => HasCycle(ev, r.refs)

LEMMA GapIsResult ==
    ASSUME NEW ev, NEW status, NEW reason, NEW refs, NEW alternatives,
           reason = "package_script_cycle" => HasCycle(ev, refs)
    PROVE  /\ IsResult(ev, Gap(status, reason, refs, alternatives))
           /\ ~IsCommand(Gap(status, reason, refs, alternatives))
<1> DEFINE r == Gap(status, reason, refs, alternatives)
<1>1. /\ {"kind", "reason", "refs"} \subseteq DOMAIN r
      /\ r.kind = "gap" /\ r.reason = reason /\ r.refs = refs
  BY DEF Gap
<1> HIDE DEF r
<1>2. IsResult(ev, r) /\ ~IsCommand(r) BY <1>1 DEF IsResult, IsCommand
<1>3. QED BY <1>2 DEF r

LEMMA GapsAreResults ==
    ASSUME NEW ev, NEW refs
    PROVE  /\ IsResult(ev, Unsupported(refs)) /\ IsResult(ev, Compound(refs)) /\ IsResult(ev, ShellScript(refs))
           /\ ~IsCommand(Unsupported(refs)) /\ ~IsCommand(Compound(refs)) /\ ~IsCommand(ShellScript(refs))
  BY GapIsResult DEF Unsupported, Compound, ShellScript

LEMMA ConflictIsResult ==
    ASSUME NEW ev, NEW commands
    PROVE  IsResult(ev, Conflict(commands)) /\ ~IsCommand(Conflict(commands))
  BY GapIsResult DEF Conflict

LEMMA StatedIsResult ==
    ASSUME NEW ev, NEW tokens, NEW source, NEW confidence, NEW refs,
           StatedIn(ev, tokens, refs)
    PROVE  IsResult(ev, Stated(tokens, source, confidence, refs))
<1> DEFINE r == Stated(tokens, source, confidence, refs)
<1>1. "kind" \in DOMAIN r /\ r.kind = "command" /\ r.tokens = tokens /\ r.refs = refs BY DEF Stated
<1> HIDE DEF r
<1>2. IsResult(ev, r) BY <1>1 DEF IsResult, IsCommand
<1>3. QED BY <1>2 DEF r

\* A merged command is one of the commands, and cites what they all cite.
LEMMA MergedIsResult ==
    ASSUME NEW ev, NEW commands, commands # {}, \A c \in commands : IsCommand(c) /\ IsResult(ev, c)
    PROVE  /\ IsResult(ev, MergedCommand(commands)) /\ IsCommand(MergedCommand(commands))
           /\ \E c \in commands : MergedCommand(commands).tokens = c.tokens
           /\ MergedCommand(commands).refs # {}
<1> DEFINE chosen == CHOOSE c \in commands : TRUE
           r == MergedCommand(commands)
<1>1. chosen \in commands OBVIOUS
<1>2. /\ r.kind = "command" /\ "kind" \in DOMAIN r /\ r.tokens = chosen.tokens
      /\ r.refs = UNION {c.refs : c \in commands}
  BY DEF MergedCommand, Stated
<1> HIDE DEF chosen, r
<1>3. chosen.refs \subseteq r.refs BY <1>1, <1>2
<1>4. StatedIn(ev, chosen.tokens, chosen.refs) BY <1>1 DEF IsResult
<1>5. StatedIn(ev, r.tokens, r.refs) BY <1>2, <1>3, <1>4 DEF StatedIn
<1>6. r.refs # {} BY <1>5 DEF StatedIn
<1>7. IsResult(ev, r) /\ IsCommand(r) BY <1>2, <1>4, <1>5 DEF IsResult, IsCommand
<1>8. QED BY <1>1, <1>2, <1>6, <1>7 DEF r

\* A path goes from a script to one it calls.
IsChain(ev, path) ==
    \A k \in 1..Len(path) : k < Len(path) =>
        Invoked(ScriptCommand(ev, path[k]).tokens) = ScriptName(ev, path[k + 1])

LEMMA ChainGrows ==
    ASSUME NEW ev, NEW scripts, NEW path \in Seq(scripts), IsChain(ev, path), NEW call, NEW i \in scripts,
           ScriptName(ev, i) = NextName(ev, call, path)
    PROVE  IsChain(ev, Append(path, i))
<1> DEFINE longer == Append(path, i)
<1>1. /\ Len(longer) = Len(path) + 1 /\ Len(path) \in Nat
      /\ \A k \in 1..Len(path) : longer[k] = path[k]
      /\ longer[Len(path) + 1] = i
  OBVIOUS
<1>2. path # <<>> => ScriptName(ev, i) = Invoked(ScriptCommand(ev, path[Len(path)]).tokens)
  BY DEF NextName, Last
<1> HIDE DEF longer
<1>3. ASSUME NEW k \in 1..Len(longer), k < Len(longer)
      PROVE  Invoked(ScriptCommand(ev, longer[k]).tokens) = ScriptName(ev, longer[k + 1])
  <2>1. CASE k < Len(path)
    <3>1. k \in 1..Len(path) /\ k + 1 \in 1..Len(path) BY <1>1, <2>1
    <3>2. QED BY <1>1, <2>1, <3>1 DEF IsChain
  <2>2. CASE k = Len(path)
    <3>1. path # <<>> /\ k \in 1..Len(path) BY <2>2
    <3>2. QED BY <1>1, <1>2, <2>2, <3>1
  <2>3. QED BY <1>1, <1>3, <2>1, <2>2
<1>4. QED BY <1>3 DEF IsChain, longer

\* A path whose last script calls one of the path has a cycle.
LEMMA ChainCloses ==
    ASSUME NEW ev, NEW scripts \in SUBSET FactsOf(ev, "package_script"), NEW path \in Seq(scripts),
           IsChain(ev, path), NEW call,
           NextName(ev, call, path) \in {ScriptName(ev, i) : i \in ToSet(path)}
    PROVE  HasCycle(ev, ToSet(path))
<1>1. /\ Len(path) \in Nat /\ \A k \in 1..Len(path) : path[k] \in scripts
      /\ ToSet(path) = {path[k] : k \in 1..Len(path)}
  BY DEF ToSet
<1>2. PICK m \in 1..Len(path) : NextName(ev, call, path) = ScriptName(ev, path[m]) BY <1>1
<1>3. path # <<>> /\ Len(path) >= 1 BY <1>1, <1>2
<1>4. Invoked(ScriptCommand(ev, path[Len(path)]).tokens) = ScriptName(ev, path[m])
  BY <1>2, <1>3 DEF NextName, Last
<1> DEFINE cycle == {path[k] : k \in m..Len(path)}
<1>5. cycle \in SUBSET (ToSet(path) \cap FactsOf(ev, "package_script")) BY <1>1, <1>2
<1>6. path[m] \in cycle BY <1>1, <1>2
<1>7. ASSUME NEW i \in cycle PROVE \E j \in cycle : Invoked(TokensOf(ev, i)) = ScriptName(ev, j)
  <2>1. PICK k \in m..Len(path) : i = path[k] OBVIOUS
  <2>2. k \in 1..Len(path) BY <1>1, <1>2
  <2>3. TokensOf(ev, i) = ScriptCommand(ev, i).tokens
    BY <1>1, <2>1, <2>2 DEF TokensOf, ScriptCommand, FactsOf
  <2>4. CASE k = Len(path) BY <1>4, <1>6, <2>1, <2>3, <2>4
  <2>5. CASE k < Len(path)
    <3>1. path[k + 1] \in cycle BY <1>1, <2>2, <2>5
    <3>2. Invoked(ScriptCommand(ev, path[k]).tokens) = ScriptName(ev, path[k + 1])
      BY <2>2, <2>5 DEF IsChain
    <3>3. QED BY <2>1, <2>3, <3>1, <3>2
  <2>6. QED BY <1>1, <2>2, <2>4, <2>5
<1> HIDE DEF cycle
<1>8. QED BY <1>5, <1>6, <1>7 DEF HasCycle

\* One name: when all its scripts give results, it does.
LEMMA ResolveNameResult ==
    ASSUME NEW ev, NEW scripts \in SUBSET FactsOf(ev, "package_script"), scripts \in SUBSET Nat,
           IsFiniteSet(scripts), NEW call, NEW path \in Seq(scripts), IsChain(ev, path), NEW resolve,
           \A i \in scripts : (Len(path) < MaxScriptChainDepth /\ IsChain(ev, Append(path, i))) =>
                IsResult(ev, resolve[Append(path, i)])
    PROVE  IsResult(ev, ResolveName(resolve, ev, scripts, call, path))
<1> DEFINE name == NextName(ev, call, path)
           visited == {ScriptName(ev, i) : i \in ToSet(path)}
           refs == call.leading \cup ToSet(path)
           again == {i \in scripts : ScriptName(ev, i) \in visited}
           named == {i \in scripts : ScriptName(ev, i) = name}
           matches == InOrder(named)
           results == [k \in DOMAIN matches |-> ResolveScript(resolve, ev, call, path, matches[k])]
           commands == {r \in ToSet(results) : IsCommand(r)}
           whole == ResolveName(resolve, ev, scripts, call, path)
<1>1. whole =
        IF name \in visited THEN Gap("cycle_detected", "package_script_cycle", refs \cup again, {})
        ELSE IF Len(path) >= MaxScriptChainDepth
        THEN Gap("requires_source_analysis", "unresolved_package_script", refs \cup again, {})
        ELSE IF matches = <<>> THEN Gap("invalid_reference", "unresolved_package_script", refs, {})
        ELSE IF Cardinality(Tokens(commands)) > 1 THEN Conflict(commands)
        ELSE IF commands # {} THEN MergedCommand(commands)
        ELSE MergedGap(results)
  BY Zenon DEF ResolveName
<1>2. ASSUME NEW i \in scripts, Len(path) < MaxScriptChainDepth, ScriptName(ev, i) = name
      PROVE  IsResult(ev, ResolveScript(resolve, ev, call, path, i))
  <2> DEFINE command == ScriptCommand(ev, i)
             cited == call.leading \cup ToSet(path) \cup {i}
  <2>1. ResolveScript(resolve, ev, call, path, i) =
          IF command.form = "invalid" THEN Unsupported(cited)
          ELSE IF HasCompound(command) THEN Compound(cited)
          ELSE IF IsShellScript(command.tokens) THEN ShellScript(cited)
          ELSE IF Invoked(command.tokens) # None THEN resolve[Append(path, i)]
          ELSE Stated(command.tokens, call.source, call.confidence, cited)
    BY Zenon DEF ResolveScript
  <2>2. i \in cited /\ command.tokens = TokensOf(ev, i)
    BY DEF TokensOf, FactsOf, ScriptCommand
  <2> HIDE DEF command, cited
  <2>3. StatedIn(ev, command.tokens, cited) BY <2>2 DEF StatedIn
  <2>4. IsChain(ev, Append(path, i)) BY <1>2, ChainGrows
  <2>5. QED BY <1>2, <2>1, <2>3, <2>4, GapsAreResults, StatedIsResult
<1>8. name \in visited => HasCycle(ev, refs \cup again)
  <2>1. name \in visited => HasCycle(ev, ToSet(path)) BY ChainCloses
  <2>2. ToSet(path) \subseteq refs \cup again OBVIOUS
  <2> HIDE DEF refs, again
  <2>3. QED BY <2>1, <2>2 DEF HasCycle
<1>3. /\ named \in SUBSET Nat /\ IsFiniteSet(named)
      /\ \A i \in named : i \in scripts /\ ScriptName(ev, i) = name
  BY FS_Subset
<1> HIDE DEF named
<1>4. IsSequence(matches) /\ \A k \in DOMAIN matches : matches[k] \in named
  BY <1>3, SequenceInOrder, SequencePlaces
<1> HIDE DEF matches, whole, name, visited, refs, again
<1>5. CASE ~(name \in visited) /\ ~(Len(path) >= MaxScriptChainDepth) /\ matches # <<>>
  <2>1. Len(path) < MaxScriptChainDepth BY <1>5 DEF MaxScriptChainDepth
  <2>2. \A k \in DOMAIN matches : IsResult(ev, results[k]) BY <1>2, <1>3, <1>4, <2>1
  <2>3. 1 \in DOMAIN matches
    <3>1. Len(matches) \in Nat /\ DOMAIN matches = 1..Len(matches) BY <1>4, SequencePlaces
    <3>2. matches \in Seq(ToSet(matches)) BY <1>4 DEF IsSequence
    <3>3. Len(matches) # 0 BY <1>5, <3>2
    <3>4. QED BY <3>1, <3>3
  <2>4. DOMAIN results = DOMAIN matches OBVIOUS
  <2> HIDE DEF results
  <2>5. \A r \in ToSet(results) : IsResult(ev, r) BY <2>2, <2>4 DEF ToSet
  <2>6. CASE commands # {}
    <3>1. IsResult(ev, MergedCommand(commands)) BY <2>5, <2>6, MergedIsResult
    <3>2. QED BY <1>1, <1>5, <2>6, <3>1, ConflictIsResult DEF whole
  <2>7. CASE commands = {}
    <3>1. results[1] \in ToSet(results) BY <2>3, <2>4 DEF ToSet
    <3> DEFINE gap == results[1]
               merge == MergedGap(results)
    <3>2. ~IsCommand(gap) /\ IsResult(ev, gap) BY <2>5, <2>7, <3>1
    <3>3. {"kind", "reason", "refs"} \subseteq DOMAIN gap /\ gap.kind # "command"
      BY <3>2 DEF IsResult, IsCommand
    <3>4. merge = [gap EXCEPT !.refs = UNION {g.refs : g \in ToSet(results)},
                              !.alternatives = UNION {g.alternatives : g \in ToSet(results)}]
      BY Zenon DEF MergedGap
    <3>5. gap.refs \subseteq UNION {g.refs : g \in ToSet(results)} BY <3>1
    <3> HIDE DEF gap, merge
    <3>6. /\ {"kind", "reason", "refs"} \subseteq DOMAIN merge
          /\ merge.kind = gap.kind /\ merge.reason = gap.reason
          /\ merge.refs = UNION {g.refs : g \in ToSet(results)}
      BY <3>3, <3>4
    <3>7. merge.reason = "package_script_cycle" => HasCycle(ev, merge.refs)
      <4>1. SUFFICES ASSUME gap.reason = "package_script_cycle" PROVE HasCycle(ev, merge.refs) BY <3>6
      <4>2. HasCycle(ev, gap.refs) BY <3>2, <4>1 DEF IsResult
      <4>3. gap.refs \subseteq merge.refs BY <3>5, <3>6
      <4>4. QED BY <4>2, <4>3 DEF HasCycle
    <3>8. IsResult(ev, merge) BY <3>3, <3>6, <3>7 DEF IsResult, IsCommand
    <3>9. QED BY <1>1, <1>5, <2>7, <3>8, ConflictIsResult DEF whole, merge
  <2>8. QED BY <2>6, <2>7
<1>6. CASE ~(~(name \in visited) /\ ~(Len(path) >= MaxScriptChainDepth) /\ matches # <<>>)
  BY <1>1, <1>6, <1>8, GapIsResult DEF whole
<1>7. QED BY <1>5, <1>6 DEF whole

\* Whatever the scripts call, what comes out is a command that some script
\* states, or a gap.
LEMMA PackageScriptResult ==
    ASSUME NEW ev, NEW scripts \in SUBSET FactsOf(ev, "package_script"), scripts \in SUBSET Nat,
           IsFiniteSet(scripts), NEW call
    PROVE  IsResult(ev, PackageScript(ev, scripts, call))
<1>1. PICK resolve : /\ IsResolution(resolve, ev, scripts, call)
                     /\ PackageScript(ev, scripts, call) = resolve[<<>>]
  BY ResolutionExists
<1> DEFINE S == {n \in Nat : \A path \in Seq(scripts) :
                    (IsChain(ev, path) /\ Len(path) + n >= MaxScriptChainDepth) => IsResult(ev, resolve[path])}
<1>2. \A path \in Seq(scripts) : resolve[path] = ResolveName(resolve, ev, scripts, call, path)
  BY <1>1 DEF IsResolution
<1>3. 0 \in S
  <2>1. ASSUME NEW path \in Seq(scripts), IsChain(ev, path), Len(path) + 0 >= MaxScriptChainDepth
        PROVE  IsResult(ev, resolve[path])
    <3>1. ~(Len(path) < MaxScriptChainDepth) BY <2>1 DEF MaxScriptChainDepth
    <3>2. QED BY <1>2, <2>1, <3>1, ResolveNameResult
  <2>2. QED BY <2>1
<1>4. ASSUME NEW n \in Nat, n \in S PROVE n + 1 \in S
  <2>1. ASSUME NEW path \in Seq(scripts), IsChain(ev, path), Len(path) + (n + 1) >= MaxScriptChainDepth
        PROVE  IsResult(ev, resolve[path])
    <3>1. ASSUME NEW i \in scripts, IsChain(ev, Append(path, i))
          PROVE  IsResult(ev, resolve[Append(path, i)])
      <4>1. Append(path, i) \in Seq(scripts) /\ Len(Append(path, i)) + n >= MaxScriptChainDepth
        BY <2>1 DEF MaxScriptChainDepth
      <4>2. QED BY <1>4, <3>1, <4>1
    <3>2. QED BY <1>2, <2>1, <3>1, ResolveNameResult
  <2>2. QED BY <2>1
<1> HIDE DEF S
<1>5. MaxScriptChainDepth \in S BY <1>3, <1>4, SetInduction DEF MaxScriptChainDepth
<1>6. <<>> \in Seq(scripts) /\ IsChain(ev, <<>>) /\ Len(<<>>) + MaxScriptChainDepth >= MaxScriptChainDepth
  BY DEF MaxScriptChainDepth, IsChain
<1>7. IsResult(ev, resolve[<<>>]) BY <1>5, <1>6, Zenon DEF S
<1>8. QED BY <1>1, <1>7

------------------------------------------------------------------------------
\* Sorting by id

IsSelection(sorted, candidates, from) ==
    /\ from \in [DOMAIN sorted -> DOMAIN candidates]
    /\ \A n \in DOMAIN sorted : /\ sorted[n] = candidates[from[n]]
                                /\ candidates[from[n]].id \in ToSet(Ids)
    /\ \A m, n \in DOMAIN sorted : from[m] = from[n] => m = n
    /\ \A k \in DOMAIN candidates : candidates[k].id \in ToSet(Ids) => \E n \in DOMAIN sorted : from[n] = k

LEMMA SortedPlaces ==
    ASSUME NEW candidates, IsSequence(candidates)
    PROVE  /\ IsSequence(SortedById(candidates))
           /\ \E from : IsSelection(SortedById(candidates), candidates, from)
<1> DEFINE Place(k) == CHOOSE n \in DOMAIN Ids : Ids[n] = candidates[k].id
           known == {k \in DOMAIN candidates : candidates[k].id \in ToSet(Ids)}
           before == [k \in known |-> {j \in known : \/ Place(j) < Place(k)
                                                     \/ (Place(j) = Place(k) /\ j < k)}]
           from == Ordered(known, before)
           sorted == SortedById(candidates)
<1>1. sorted = Along(candidates, from) BY Zenon DEF SortedById
<1>2. known \in SUBSET Nat /\ IsFiniteSet(known) /\ known \subseteq DOMAIN candidates
  BY SequencePlaces
<1>3. \A k \in known : Place(k) \in Nat
  <2> TAKE k \in known
  <2>1. \E n \in DOMAIN Ids : Ids[n] = candidates[k].id BY DEF ToSet
  <2>2. Place(k) \in DOMAIN Ids BY <2>1
  <2>3. QED BY <2>2, IdsAssumption
<1> HIDE DEF Place
<1>4. \A j, k \in known : j \in before[k] <=> (Place(j) < Place(k) \/ (Place(j) = Place(k) /\ j < k))
  OBVIOUS
<1>5. before \in [known -> SUBSET known] OBVIOUS
<1> HIDE DEF before, sorted
<1>6. IsOrder(known, before)
  <2>1. \A x, y \in known : x \in before[y] => before[x] \subseteq before[y]
    <3> SUFFICES ASSUME NEW x \in known, NEW y \in known, x \in before[y], NEW z \in before[x]
                 PROVE  z \in before[y]
      OBVIOUS
    <3>1. z \in known BY <1>5
    <3>2. /\ Place(z) < Place(x) \/ (Place(z) = Place(x) /\ z < x)
          /\ Place(x) < Place(y) \/ (Place(x) = Place(y) /\ x < y)
      BY <1>4, <3>1
    <3>3. /\ Place(x) \in Nat /\ Place(y) \in Nat /\ Place(z) \in Nat
          /\ x \in Nat /\ y \in Nat /\ z \in Nat
      BY <1>2, <1>3, <3>1
    <3>4. Place(z) < Place(y) \/ (Place(z) = Place(y) /\ z < y) BY <3>2, <3>3
    <3>5. QED BY <1>4, <3>1, <3>4
  <2>2. \A x, y \in known : x = y \/ x \in before[y] \/ y \in before[x]
    <3> TAKE x, y \in known
    <3>1. Place(x) \in Nat /\ Place(y) \in Nat /\ x \in Nat /\ y \in Nat BY <1>2, <1>3
    <3>2. QED BY <1>4, <3>1
  <2>3. \A x \in known : x \notin before[x]
    <3> TAKE x \in known
    <3>1. Place(x) \in Nat /\ x \in Nat BY <1>2, <1>3
    <3>2. QED BY <1>4, <3>1
  <2>4. QED BY <1>5, <2>1, <2>2, <2>3 DEF IsOrder
<1> HIDE DEF from
<1>7. /\ Cardinality(known) \in Nat
      /\ from \in [1..Cardinality(known) -> known]
      /\ \A x \in known : \E n \in 1..Cardinality(known) : from[n] = x
      /\ \A m, n \in 1..Cardinality(known) : m < n <=> from[m] \in before[from[n]]
  BY <1>2, <1>6, OrderedMembers DEF from
<1>8. sorted = [n \in 1..Cardinality(known) |-> candidates[from[n]]] BY <1>1, <1>7 DEF Along
<1>9. \A m, n \in 1..Cardinality(known) : from[m] = from[n] => m = n
  <2> TAKE m, n \in 1..Cardinality(known)
  <2>1. from[m] \notin before[from[m]] BY <1>6, <1>7 DEF IsOrder
  <2>2. from[m] = from[n] => ~(m < n) /\ ~(n < m) BY <1>7, <2>1
  <2>3. QED BY <1>7, <2>2
<1>10. IsSelection(sorted, candidates, from)
  <2>1. DOMAIN sorted = 1..Cardinality(known) BY <1>8
  <2>2. from \in [DOMAIN sorted -> DOMAIN candidates] BY <1>2, <1>7, <2>1
  <2>3. \A n \in DOMAIN sorted : sorted[n] = candidates[from[n]] /\ candidates[from[n]].id \in ToSet(Ids)
    BY <1>7, <1>8, <2>1
  <2>4. \A k \in DOMAIN candidates :
          candidates[k].id \in ToSet(Ids) => \E n \in DOMAIN sorted : from[n] = k
    BY <1>7, <2>1
  <2>5. QED BY <1>9, <2>1, <2>2, <2>3, <2>4 DEF IsSelection
<1>11. IsSequence(sorted)
  <2>1. \A k \in DOMAIN candidates : candidates[k] \in ToSet(candidates) BY SequencePlaces
  <2>2. sorted \in [1..Cardinality(known) -> ToSet(candidates)] BY <1>2, <1>7, <1>8, <2>1
  <2>3. sorted \in Seq(ToSet(candidates)) BY <1>7, <2>2, CountedSequence, Zenon
  <2>4. QED BY <2>3, SequenceIs
<1>12. QED BY <1>10, <1>11 DEF sorted

LEMMA SortedMembers ==
    ASSUME NEW candidates, IsSequence(candidates)
    PROVE  /\ IsSequence(SortedById(candidates))
           /\ ToSet(SortedById(candidates)) = {c \in ToSet(candidates) : c.id \in ToSet(Ids)}
<1> DEFINE sorted == SortedById(candidates)
<1>1. IsSequence(sorted) BY SortedPlaces
<1>2. PICK from : IsSelection(sorted, candidates, from) BY SortedPlaces
<1>3. \A c \in ToSet(sorted) : c \in ToSet(candidates) /\ c.id \in ToSet(Ids)
  BY <1>1, <1>2, SequencePlaces DEF IsSelection
<1>4. ASSUME NEW c \in ToSet(candidates), c.id \in ToSet(Ids) PROVE c \in ToSet(sorted)
  <2>1. PICK k \in DOMAIN candidates : c = candidates[k] BY SequencePlaces
  <2>2. PICK n \in DOMAIN sorted : from[n] = k BY <1>2, <1>4, <2>1 DEF IsSelection
  <2>3. sorted[n] = c BY <1>2, <2>1, <2>2 DEF IsSelection
  <2>4. QED BY <1>1, <2>2, <2>3, SequencePlaces
<1>5. QED BY <1>1, <1>3, <1>4

------------------------------------------------------------------------------
\* The commands of Dockerfiles

FactPlaces(ev) == \A type : FactsOf(ev, type) \in SUBSET Nat /\ IsFiniteSet(FactsOf(ev, type))
                            /\ FactsOf(ev, type) \subseteq DOMAIN ev

LEMMA FactPlacesOf ==
    ASSUME NEW ev, IsSequence(ev)
    PROVE  FactPlaces(ev)
<1> SUFFICES ASSUME NEW type
             PROVE  /\ FactsOf(ev, type) \in SUBSET Nat /\ IsFiniteSet(FactsOf(ev, type))
                    /\ FactsOf(ev, type) \subseteq DOMAIN ev
  BY DEF FactPlaces
<1>1. FactsOf(ev, type) \in SUBSET DOMAIN ev BY DEF FactsOf
<1>2. QED BY <1>1, SequencePlaces

\* Who has the CMD of a directory's Dockerfile.
CommandOwner(components, dir) == IF components = <<>> THEN <<"root">> ELSE Owner(dir, components)

IsCommandCandidate(ev, components, c) ==
    /\ c.fact \in FactsOf(ev, "dockerfile_cmd") /\ c.refs = {c.fact} /\ c.command = ev[c.fact].value
    /\ c.id = CommandOwner(components, ev[c.fact].dir) /\ c.id # None /\ c.id \in ToSet(Ids)

LEMMA CommandCandidatesOf ==
    ASSUME NEW ev, IsSequence(ev), NEW components
    PROVE  /\ IsSequence(CommandCandidates(ev, components))
           /\ \A c \in ToSet(CommandCandidates(ev, components)) : IsCommandCandidate(ev, components, c)
           /\ \A i \in FactsOf(ev, "dockerfile_cmd") :
                 CommandOwner(components, ev[i].dir) \in ToSet(Ids) \ {None} =>
                    \E c \in ToSet(CommandCandidates(ev, components)) : c.fact = i
<1> DEFINE Of1(i) == CommandOwner(components, ev[i].dir)
           owned_facts == {i \in FactsOf(ev, "dockerfile_cmd") : Of1(i) # None}
           owned == InOrder(owned_facts)
           Candidate(i) == [id |-> Of1(i), command |-> ev[i].value, confidence |-> "high", refs |-> {i}, fact |-> i]
           candidates == [k \in DOMAIN owned |-> Candidate(owned[k])]
<1>1. CommandCandidates(ev, components) = SortedById(candidates)
  BY Zenon DEF CommandCandidates, CommandOwner
<1>2. owned_facts \in SUBSET Nat /\ IsFiniteSet(owned_facts)
  BY FactPlacesOf, FS_Subset DEF FactPlaces
<1> HIDE DEF Of1, owned_facts
<1>3. IsSequence(owned) /\ ToSet(owned) = owned_facts BY <1>2, SequenceInOrder
<1> HIDE DEF owned
<1>4. \A i : /\ Candidate(i).id = Of1(i) /\ Candidate(i).command = ev[i].value
             /\ Candidate(i).refs = {i} /\ Candidate(i).fact = i
  OBVIOUS
<1> HIDE DEF Candidate
<1>5. IsSequence(candidates) /\ DOMAIN candidates = DOMAIN owned
  <2>1. candidates \in [DOMAIN owned -> {Candidate(i) : i \in owned_facts}]
    BY <1>3, SequencePlaces
  <2>2. QED BY <1>3, <2>1, SequenceAlong
<1>6. ToSet(candidates) = {Candidate(i) : i \in owned_facts}
  <2>1. ASSUME NEW c \in ToSet(candidates) PROVE \E i \in owned_facts : c = Candidate(i)
    BY <1>3, <1>5, SequencePlaces
  <2>2. ASSUME NEW i \in owned_facts PROVE Candidate(i) \in ToSet(candidates)
    <3>1. PICK k \in DOMAIN owned : i = owned[k] BY <1>3, SequencePlaces
    <3>2. k \in DOMAIN candidates /\ candidates[k] = Candidate(i) BY <1>5, <3>1
    <3>3. QED BY <1>5, <3>2, SequencePlaces
  <2>3. QED BY <2>1, <2>2
<1> HIDE DEF candidates
<1>7. ToSet(SortedById(candidates)) = {c \in ToSet(candidates) : c.id \in ToSet(Ids)}
      /\ IsSequence(SortedById(candidates))
  BY <1>5, SortedMembers
<1>8. ASSUME NEW c \in ToSet(SortedById(candidates)) PROVE IsCommandCandidate(ev, components, c)
  <2>1. PICK i \in owned_facts : c = Candidate(i) BY <1>6, <1>7
  <2>2. c.id \in ToSet(Ids) BY <1>7
  <2>3. i \in FactsOf(ev, "dockerfile_cmd") /\ Of1(i) # None BY DEF owned_facts
  <2>4. QED BY <1>4, <2>1, <2>2, <2>3 DEF IsCommandCandidate, Of1
<1>9. ASSUME NEW i \in FactsOf(ev, "dockerfile_cmd"), Of1(i) \in ToSet(Ids) \ {None}
      PROVE  \E c \in ToSet(SortedById(candidates)) : c.fact = i
  <2>1. i \in owned_facts BY <1>9 DEF owned_facts
  <2>2. Candidate(i) \in ToSet(candidates) /\ Candidate(i).id \in ToSet(Ids) BY <1>4, <1>6, <1>9, <2>1
  <2>3. QED BY <1>4, <1>7, <2>2
<1>10. QED BY <1>1, <1>7, <1>8, <1>9 DEF Of1

------------------------------------------------------------------------------
\* The results of a component

LEMMA StandaloneResult ==
    ASSUME NEW ev, NEW scripts \in SUBSET FactsOf(ev, "package_script"), scripts \in SUBSET Nat,
           IsFiniteSet(scripts), NEW command, NEW source, NEW refs, StatedIn(ev, command.tokens, refs)
    PROVE  IsResult(ev, Standalone(ev, scripts, command, source, refs))
<1> DEFINE call == ScriptCall(Invoked(command.tokens), refs, source \cup {"package_script"}, "high")
           whole == Standalone(ev, scripts, command, source, refs)
<1>1. whole =
        IF command.form = "invalid" THEN Unsupported(refs)
        ELSE IF HasCompound(command) THEN Compound(refs)
        ELSE IF IsShellScript(command.tokens) THEN ShellScript(refs)
        ELSE IF NeedsExpansion(command.tokens) THEN Unsupported(refs)
        ELSE IF Invoked(command.tokens) # None THEN PackageScript(ev, scripts, call)
        ELSE Stated(command.tokens, source, "high", refs)
  BY Zenon DEF Standalone
<1> HIDE DEF whole, call
<1>2. IsResult(ev, PackageScript(ev, scripts, call)) BY PackageScriptResult
<1>3. IsResult(ev, whole) BY <1>1, <1>2, GapsAreResults, StatedIsResult
<1>4. QED BY <1>3 DEF whole

LEMMA DockerCommandResult ==
    ASSUME NEW ev, NEW scripts \in SUBSET FactsOf(ev, "package_script"), scripts \in SUBSET Nat,
           IsFiniteSet(scripts), NEW components, NEW candidate, IsCommandCandidate(ev, components, candidate),
           NEW entrypoint,
           entrypoint # None =>
              entrypoint \in FactsOf(ev, "dockerfile_entrypoint") /\ SameFile(ev[entrypoint], ev[candidate.fact])
    PROVE  IsResult(ev, DockerCommand(ev, scripts, candidate, entrypoint))
<1> DEFINE cmd == candidate.command
           first == ev[entrypoint].value
           refs == candidate.refs \cup {entrypoint}
           source == {"dockerfile_entrypoint", "dockerfile_cmd"}
           whole == DockerCommand(ev, scripts, candidate, entrypoint)
<1>1. whole =
        IF entrypoint = None THEN Standalone(ev, scripts, cmd, {"dockerfile_cmd"}, candidate.refs)
        ELSE IF "invalid" \in {first.form, cmd.form} THEN Unsupported(refs)
        ELSE IF {first.form, cmd.form} = {"exec"} THEN
                Standalone(ev, scripts, Combined(first, cmd), source, refs)
        ELSE IF HasCompound(first) \/ HasCompound(cmd) THEN Compound(refs)
        ELSE Unsupported(refs)
  BY Zenon DEF DockerCommand
<1> HIDE DEF whole
<1>2. /\ candidate.fact \in FactsOf(ev, "dockerfile_cmd") /\ candidate.refs = {candidate.fact}
      /\ cmd.tokens = TokensOf(ev, candidate.fact)
  BY DEF IsCommandCandidate, TokensOf, FactsOf
<1>3. IsResult(ev, Standalone(ev, scripts, cmd, {"dockerfile_cmd"}, candidate.refs))
  <2>1. StatedIn(ev, cmd.tokens, candidate.refs) BY <1>2 DEF StatedIn
  <2>2. QED BY <2>1, StandaloneResult
<1>4. ASSUME entrypoint # None
      PROVE  IsResult(ev, Standalone(ev, scripts, Combined(first, cmd), source, refs))
  <2>1. /\ entrypoint \in FactsOf(ev, "dockerfile_entrypoint") /\ SameFile(ev[entrypoint], ev[candidate.fact])
        /\ first.tokens = TokensOf(ev, entrypoint)
    BY <1>4 DEF TokensOf, FactsOf
  <2>2. Combined(first, cmd).tokens = TokensOf(ev, entrypoint) \o TokensOf(ev, candidate.fact)
    BY <1>2, <2>1 DEF Combined
  <2>3. entrypoint \in refs /\ candidate.fact \in refs BY <1>2
  <2> HIDE DEF refs
  <2>4. StatedIn(ev, Combined(first, cmd).tokens, refs) BY <1>2, <2>1, <2>2, <2>3 DEF StatedIn
  <2>5. QED BY <2>4, StandaloneResult
<1> HIDE DEF cmd, first, refs, source
<1>5. IsResult(ev, whole) BY <1>1, <1>3, <1>4, GapsAreResults
<1>6. QED BY <1>5 DEF whole

LEMMA StartScriptResult ==
    ASSUME NEW ev, NEW scripts \in SUBSET FactsOf(ev, "package_script"), scripts \in SUBSET Nat,
           IsFiniteSet(scripts)
    PROVE  IsSequence(StartScript(ev, scripts)) /\ \A r \in ToSet(StartScript(ev, scripts)) : IsResult(ev, r)
<1> DEFINE starts == {i \in scripts : ev[i].value.name = "start"}
           stated == {Stated(ev[i].value.command.tokens, {"package_script"}, "medium", {i}) : i \in starts}
           followed == PackageScript(ev, scripts, ScriptCall("start", {}, {"package_script"}, "medium"))
           whole == StartScript(ev, scripts)
<1>1. whole \in {<<>>, <<Conflict(stated)>>, <<followed>>} BY Zenon DEF StartScript
<1> HIDE DEF whole, stated
<1>2. IsResult(ev, followed) BY PackageScriptResult
<1> HIDE DEF followed
<1>3. IsSequence(whole) /\ \A r \in ToSet(whole) : IsResult(ev, r)
  <2>1. CASE whole = <<>> BY <2>1, SequenceShort
  <2>2. CASE whole = <<Conflict(stated)>> BY <2>2, SequenceShort, ConflictIsResult
  <2>3. CASE whole = <<followed>> BY <1>2, <2>3, SequenceShort
  <2>4. QED BY <1>1, <2>1, <2>2, <2>3
<1>4. QED BY <1>3 DEF whole

\* The ENTRYPOINT a CMD of the file is read with.
EntrypointWith(ev, components, candidate) ==
    LET same == {i \in Entrypoints(ev, components) : SameFile(ev[i], ev[candidate.fact])}
    IN  IF same = {} THEN None ELSE CHOOSE i \in same : TRUE

\* Every result of a component is a command the repository states, or a gap;
\* each of its candidates has one.
LEMMA ResultsOfComponent ==
    ASSUME NEW ev, IsSequence(ev), NEW rules, NEW id, IsSequence(rules.commands),
           NEW components, \A c \in ToSet(rules.commands) : IsCommandCandidate(ev, components, c)
    PROVE  /\ IsSequence(ResultsOf(ev, rules, id))
           /\ \A r \in ToSet(ResultsOf(ev, rules, id)) : IsResult(ev, r)
           /\ \A c \in ToSet(rules.commands) : c.id = id =>
                LET holders == Analyzed(rules.components)
                IN  DockerCommand(ev, ScriptsOf(ev, holders, id), c, EntrypointWith(ev, holders, c))
                        \in ToSet(ResultsOf(ev, rules, id))
<1> DEFINE holders == Analyzed(rules.components)
           scripts == ScriptsOf(ev, holders, id)
           entrypoints == Entrypoints(ev, holders)
           same(candidate) == {i \in entrypoints : SameFile(ev[i], ev[candidate.fact])}
           EntrypointOf(candidate) == IF same(candidate) = {} THEN None ELSE CHOOSE i \in same(candidate) : TRUE
           own == {k \in DOMAIN rules.commands : rules.commands[k].id = id}
           candidates == At(rules.commands, own)
           WithCmd(i) ==
               \/ \E c \in ToSet(rules.commands) : SameFile(ev[i], ev[c.fact])
               \/ \E j \in FactsOf(ev, "dockerfile_cmd") :
                     SameFile(ev[i], ev[j]) /\ Holder(ev[j].dir, holders) # None
           alone_facts == {i \in entrypoints : ~WithCmd(i) /\ Holder(ev[i].dir, holders) = id}
           alone == InOrder(alone_facts)
           first == [k \in DOMAIN candidates |->
                        DockerCommand(ev, scripts, candidates[k], EntrypointOf(candidates[k]))]
           second == [k \in DOMAIN alone |->
                        Standalone(ev, scripts, ev[alone[k]].value, {"dockerfile_entrypoint"}, {alone[k]})]
           third == IF rules.commands = <<>> /\ entrypoints = {} THEN StartScript(ev, scripts) ELSE <<>>
<1>1. ResultsOf(ev, rules, id) = first \o second \o third BY Zenon DEF ResultsOf
<1>13. \A c : EntrypointOf(c) = EntrypointWith(ev, holders, c) BY Zenon DEF EntrypointWith
<1>2. /\ scripts \in SUBSET FactsOf(ev, "package_script") /\ scripts \in SUBSET Nat /\ IsFiniteSet(scripts)
      /\ entrypoints \in SUBSET FactsOf(ev, "dockerfile_entrypoint")
  <2>1. scripts \in SUBSET FactsOf(ev, "package_script") BY DEF ScriptsOf
  <2>2. entrypoints \in SUBSET FactsOf(ev, "dockerfile_entrypoint") BY DEF Entrypoints
  <2>3. FactPlaces(ev) BY FactPlacesOf
  <2> HIDE DEF scripts, entrypoints
  <2>4. scripts \in SUBSET Nat /\ IsFiniteSet(scripts) BY <2>1, <2>3, FS_Subset DEF FactPlaces
  <2>5. QED BY <2>1, <2>2, <2>4
<1>3. alone_facts \in SUBSET Nat /\ IsFiniteSet(alone_facts) /\ alone_facts \subseteq entrypoints
  BY <1>2, FactPlacesOf, FS_Subset DEF FactPlaces
<1>4. \A c : EntrypointOf(c) # None =>
                EntrypointOf(c) \in entrypoints /\ SameFile(ev[EntrypointOf(c)], ev[c.fact])
  <2> TAKE c
  <2> SUFFICES ASSUME EntrypointOf(c) # None
               PROVE  EntrypointOf(c) \in same(c)
    OBVIOUS
  <2> HIDE DEF same
  <2>1. QED OBVIOUS
<1> HIDE DEF scripts, entrypoints, alone_facts, EntrypointOf
<1>5. /\ IsSequence(candidates) /\ ToSet(candidates) \subseteq ToSet(rules.commands)
      /\ \A c \in ToSet(rules.commands) : c.id = id => c \in ToSet(candidates)
  <2>1. own \in SUBSET DOMAIN rules.commands OBVIOUS
  <2>2. \A c \in ToSet(rules.commands) : c.id = id => \E k \in own : c = rules.commands[k]
    BY SequencePlaces
  <2> HIDE DEF own
  <2>3. QED BY <2>1, <2>2, SequenceAt, SequencePlaces
<1>6. IsSequence(alone) /\ ToSet(alone) = alone_facts BY <1>3, SequenceInOrder
<1> HIDE DEF candidates, alone
<1>7. IsSequence(first) /\ \A r \in ToSet(first) : IsResult(ev, r)
  <2>1. \A k \in DOMAIN candidates :
           IsResult(ev, DockerCommand(ev, scripts, candidates[k], EntrypointOf(candidates[k])))
    <3> TAKE k \in DOMAIN candidates
    <3>1. IsCommandCandidate(ev, components, candidates[k]) BY <1>5, SequencePlaces
    <3>2. QED BY <1>2, <1>4, <3>1, DockerCommandResult
  <2>2. first \in [DOMAIN candidates -> {r \in ToSet(first) : IsResult(ev, r)}] BY <2>1 DEF ToSet
  <2> HIDE DEF first
  <2>3. first \in Seq({r \in ToSet(first) : IsResult(ev, r)}) /\ IsSequence(first) BY <1>5, <2>2, SequenceAlong
  <2>4. QED BY <2>3, SequenceIs
<1>8. IsSequence(second) /\ \A r \in ToSet(second) : IsResult(ev, r)
  <2>1. \A k \in DOMAIN alone :
           IsResult(ev, Standalone(ev, scripts, ev[alone[k]].value, {"dockerfile_entrypoint"}, {alone[k]}))
    <3> TAKE k \in DOMAIN alone
    <3>1. alone[k] \in FactsOf(ev, "dockerfile_entrypoint") BY <1>2, <1>3, <1>6, SequencePlaces
    <3>2. ev[alone[k]].value.tokens = TokensOf(ev, alone[k]) BY <3>1 DEF TokensOf, FactsOf
    <3>3. StatedIn(ev, ev[alone[k]].value.tokens, {alone[k]}) BY <3>2 DEF StatedIn
    <3>4. QED BY <1>2, <3>3, StandaloneResult
  <2>2. second \in [DOMAIN alone -> {r \in ToSet(second) : IsResult(ev, r)}] BY <2>1 DEF ToSet
  <2> HIDE DEF second
  <2>3. second \in Seq({r \in ToSet(second) : IsResult(ev, r)}) /\ IsSequence(second) BY <1>6, <2>2, SequenceAlong
  <2>4. QED BY <2>3, SequenceIs
<1>9. IsSequence(third) /\ \A r \in ToSet(third) : IsResult(ev, r)
  BY <1>2, StartScriptResult, SequenceShort
<1>14. \A c \in ToSet(candidates) : DockerCommand(ev, scripts, c, EntrypointOf(c)) \in ToSet(first)
  <2> TAKE c \in ToSet(candidates)
  <2>1. PICK k \in DOMAIN candidates : c = candidates[k] BY <1>5, SequencePlaces
  <2>2. k \in DOMAIN first /\ first[k] = DockerCommand(ev, scripts, c, EntrypointOf(c)) BY <2>1
  <2> HIDE DEF first
  <2>3. QED BY <1>7, <2>2, SequencePlaces
<1> HIDE DEF first, second, third
<1>10. IsSequence(first \o second) /\ ToSet(first \o second) = ToSet(first) \cup ToSet(second)
  BY <1>7, <1>8, SequenceJoined
<1>11. IsSequence((first \o second) \o third)
       /\ ToSet((first \o second) \o third) = ToSet(first \o second) \cup ToSet(third)
  BY <1>9, <1>10, SequenceJoined
<1>15. \A c \in ToSet(rules.commands) : c.id = id =>
          DockerCommand(ev, scripts, c, EntrypointWith(ev, holders, c)) \in ToSet(ResultsOf(ev, rules, id))
  BY <1>1, <1>5, <1>10, <1>11, <1>13, <1>14
<1>12. /\ IsSequence(ResultsOf(ev, rules, id))
       /\ \A r \in ToSet(ResultsOf(ev, rules, id)) : IsResult(ev, r)
  BY <1>1, <1>7, <1>8, <1>9, <1>10, <1>11
<1>16. QED BY <1>12, <1>15 DEF scripts

\* A command that runs as it is written is its own result.
LEMMA StandaloneAsWritten ==
    ASSUME NEW ev, NEW scripts, NEW command, NEW source, NEW refs,
           command.form # "invalid", ~HasCompound(command), ~IsShellScript(command.tokens),
           ~NeedsExpansion(command.tokens), Invoked(command.tokens) = None
    PROVE  Standalone(ev, scripts, command, source, refs) = Stated(command.tokens, source, "high", refs)
  BY Zenon DEF Standalone

\* The different commands among results are finitely many.
LEMMA FiniteCommands ==
    ASSUME NEW results, IsSequence(results)
    PROVE  IsFiniteSet(Tokens({r \in ToSet(results) : IsCommand(r)}))
<1> DEFINE places == {k \in DOMAIN results : IsCommand(results[k])}
           tokens == Tokens({r \in ToSet(results) : IsCommand(r)})
           f == [k \in places |-> results[k].tokens]
<1>1. IsFiniteSet(places) BY SequencePlaces
<1>2. \A t \in tokens : \E k \in places : t = results[k].tokens
  <2> TAKE t \in tokens
  <2>1. PICK r \in ToSet(results) : IsCommand(r) /\ t = r.tokens BY DEF Tokens
  <2>2. PICK k \in DOMAIN results : r = results[k] BY SequencePlaces
  <2>3. QED BY <2>1, <2>2
<1>3. \A k \in places : results[k].tokens \in tokens BY SequencePlaces DEF Tokens
<1> HIDE DEF places, tokens
<1>4. f \in Surjection(places, tokens) BY <1>2, <1>3 DEF Surjection
<1>5. IsFiniteSet(tokens) BY <1>1, <1>4, FS_Surjection, Zenon
<1>6. QED BY <1>5 DEF tokens

\* One command stays, or all of them stand as one conflict.
LEMMA SettledResults ==
    ASSUME NEW ev, NEW results, IsSequence(results), \A r \in ToSet(results) : IsResult(ev, r)
    PROVE  /\ \A r \in Settled(results) : IsResult(ev, r)
           /\ \A c \in ToSet(results) : IsCommand(c) =>
                 \/ \E r \in Settled(results) : IsCommand(r) /\ r.tokens = c.tokens
                 \/ \E r \in Settled(results) :
                       /\ ~IsCommand(r) /\ r.reason = "conflicting_explicit_commands"
                       /\ \E a \in r.alternatives : a.tokens = c.tokens /\ a.refs # {}
<1> DEFINE commands == {r \in ToSet(results) : IsCommand(r)}
           Same(tokens) == {c \in commands : c.tokens = tokens}
           merged == {MergedCommand(Same(t)) : t \in Tokens(commands)}
           settled == Settled(results)
<1>1. settled = IF commands = {} THEN ToSet(results)
                ELSE IF Cardinality(Tokens(commands)) = 1 THEN {MergedCommand(commands)}
                ELSE {Conflict(merged)}
  BY Zenon DEF Settled
<1>2. IsFiniteSet(Tokens(commands)) BY FiniteCommands
<1>3. \A c \in commands : IsCommand(c) /\ IsResult(ev, c) OBVIOUS
<1>4. CASE commands = {}
  BY <1>1, <1>4
<1>5. CASE commands # {} /\ Cardinality(Tokens(commands)) = 1
  <2>1. settled = {MergedCommand(commands)} BY <1>1, <1>5
  <2>2. /\ IsResult(ev, MergedCommand(commands)) /\ IsCommand(MergedCommand(commands))
        /\ \E c \in commands : MergedCommand(commands).tokens = c.tokens
    BY <1>3, <1>5, MergedIsResult
  <2>3. \A c, d \in commands : c.tokens = d.tokens
    <3>1. PICK t : Tokens(commands) = {t} BY <1>2, <1>5, FS_Singleton
    <3>2. \A c \in commands : c.tokens \in Tokens(commands) BY DEF Tokens
    <3>3. QED BY <3>1, <3>2
  <2>4. QED BY <2>1, <2>2, <2>3
<1>6. CASE commands # {} /\ Cardinality(Tokens(commands)) # 1
  <2>1. settled = {Conflict(merged)} BY <1>1, <1>6
  <2>2. ASSUME NEW c \in commands PROVE \E a \in merged : a.tokens = c.tokens /\ a.refs # {}
    <3>1. c.tokens \in Tokens(commands) BY DEF Tokens
    <3>2. MergedCommand(Same(c.tokens)) \in merged BY <3>1
    <3>3. c \in Same(c.tokens) /\ \A d \in Same(c.tokens) : d \in commands /\ d.tokens = c.tokens OBVIOUS
    <3> HIDE DEF Same
    <3>4. /\ \E d \in Same(c.tokens) : MergedCommand(Same(c.tokens)).tokens = d.tokens
          /\ MergedCommand(Same(c.tokens)).refs # {}
      BY <1>3, <3>3, MergedIsResult
    <3>5. QED BY <3>2, <3>3, <3>4
  <2> HIDE DEF merged
  <2>3. IsResult(ev, Conflict(merged)) /\ ~IsCommand(Conflict(merged)) BY ConflictIsResult
  <2>4. Conflict(merged).reason = "conflicting_explicit_commands" /\ Conflict(merged).alternatives = merged
    BY DEF Conflict, Gap
  <2>5. QED BY <2>1, <2>2, <2>3, <2>4
<1>7. QED BY <1>4, <1>5, <1>6 DEF settled

------------------------------------------------------------------------------
\* Merged ports

IsMerging(f, base, over, n) ==
    f[0] = base /\ \A m \in 1..n : f[m] = MergePort(f[m - 1], over[m])

LEMMA MergingExists ==
    ASSUME NEW base, NEW over, IsSequence(over)
    PROVE  \E f : IsMerging(f, base, over, Len(over)) /\ MergedPorts(base, over) = f[Len(over)]
<1> DEFINE S == {n \in Nat : \E f : IsMerging(f, base, over, n)}
           N == Len(over)
           Step(g) == [n \in 0..N |-> IF n = 0 THEN base ELSE MergePort(g[n - 1], over[n])]
           chosen == CHOOSE g : g = Step(g)
<1>1. N \in Nat BY SequencePlaces
<1>2. 0 \in S
  <2>1. IsMerging([i \in {0} |-> base], base, over, 0) BY DEF IsMerging
  <2>2. QED BY <2>1
<1>3. ASSUME NEW n \in Nat, n \in S PROVE n + 1 \in S
  <2>1. PICK f : IsMerging(f, base, over, n) BY <1>3
  <2> DEFINE g == [i \in 0..(n + 1) |-> IF i = n + 1 THEN MergePort(f[n], over[n + 1]) ELSE f[i]]
  <2>2. g[n + 1] = MergePort(f[n], over[n + 1]) OBVIOUS
  <2>3. \A i \in 0..n : g[i] = f[i] OBVIOUS
  <2> HIDE DEF g
  <2>4. ASSUME NEW m \in 1..(n + 1) PROVE g[m] = MergePort(g[m - 1], over[m])
    <3>1. CASE m = n + 1
      <4>1. m - 1 = n /\ n \in 0..n BY <3>1
      <4>2. QED BY <2>2, <2>3, <3>1, <4>1
    <3>2. CASE m # n + 1
      <4>1. m \in 1..n /\ m \in 0..n /\ m - 1 \in 0..n BY <3>2
      <4>2. QED BY <2>1, <2>3, <4>1 DEF IsMerging
    <3>3. QED BY <3>1, <3>2
  <2>5. g[0] = base BY <2>1, <2>3 DEF IsMerging
  <2>6. IsMerging(g, base, over, n + 1) BY <2>4, <2>5 DEF IsMerging
  <2>7. QED BY <2>6
<1> HIDE DEF S
<1>4. N \in S BY <1>1, <1>2, <1>3, SetInduction
<1>5. PICK f : IsMerging(f, base, over, N) BY <1>4 DEF S
<1> DEFINE g == [n \in 0..N |-> f[n]]
<1>6. g = Step(g)
  <2>1. \A n \in 0..N : g[n] = f[n] BY Zenon
  <2>2. \A n \in 0..N : n # 0 => n - 1 \in 0..N /\ n \in 1..N BY <1>1
  <2>3. \A n \in 0..N : f[n] = IF n = 0 THEN base ELSE MergePort(f[n - 1], over[n])
    BY <1>5, <2>2 DEF IsMerging
  <2> HIDE DEF g
  <2>4. \A n \in 0..N : f[n] = IF n = 0 THEN base ELSE MergePort(g[n - 1], over[n])
    BY <2>1, <2>2, <2>3
  <2>5. Step(g) = [n \in 0..N |-> f[n]] BY <2>4, Zenon
  <2>6. QED BY <2>5, Zenon DEF g
<1> HIDE DEF g
<1>7. chosen = Step(chosen) BY <1>6, Zenon
<1>8. MergedPorts(base, over) = chosen[N] BY Zenon DEF MergedPorts
<1> HIDE DEF chosen
<1>9. \A n \in 0..N : chosen[n] = IF n = 0 THEN base ELSE MergePort(chosen[n - 1], over[n])
  <2> TAKE n \in 0..N
  <2>1. chosen[n] = Step(chosen)[n] BY <1>7, Zenon
  <2>2. QED BY <2>1, Zenon
<1>10. IsMerging(chosen, base, over, N) BY <1>1, <1>9 DEF IsMerging
<1>11. QED BY <1>8, <1>10

\* Entries with one key map one container port.
LEMMA PortKeyContainer ==
    ASSUME NEW p, NEW q, PortKey(p) = PortKey(q)
    PROVE  Number(p.container) = Number(q.container)
<1>1. CASE p.form = "long" /\ q.form = "long"
  <2>1. p.container = q.container BY <1>1 DEF PortKey
  <2>2. QED BY <2>1
<1>2. CASE p.form # "long" /\ q.form # "long"
  BY <1>2 DEF PortKey
<1>3. CASE (p.form = "long") # (q.form = "long")
  <2>1. PortKey(p)[1] # PortKey(q)[1] BY <1>3 DEF PortKey
  <2>2. QED BY <2>1
<1>4. QED BY <1>1, <1>2, <1>3

ContainersOf(ports) == {Number(p.container) : p \in ToSet(ports)}

LEMMA MergePortKeeps ==
    ASSUME NEW ports, IsSequence(ports), NEW e
    PROVE  /\ IsSequence(MergePort(ports, e))
           /\ ContainersOf(ports) \cup {Number(e.container)} \subseteq ContainersOf(MergePort(ports, e))
<1> DEFINE same == {i \in DOMAIN ports : PortKey(ports[i]) = PortKey(e)}
           N == Len(ports)
           V == ToSet(ports) \cup {e}
<1>1. N \in Nat /\ DOMAIN ports = 1..N /\ ports \in Seq(ToSet(ports))
      /\ \A i \in 1..N : ports[i] \in ToSet(ports)
  BY SequencePlaces DEF IsSequence
<1>2. ports \in Seq(V) BY <1>1
<1>3. CASE same = {}
  <2>1. MergePort(ports, e) = Append(ports, e) BY <1>3 DEF MergePort
  <2> HIDE DEF V
  <2>2. e \in V BY DEF V
  <2>3. /\ Append(ports, e) \in Seq(V) /\ DOMAIN Append(ports, e) = 1..(N + 1)
        /\ \A i \in 1..N : Append(ports, e)[i] = ports[i]
        /\ Append(ports, e)[N + 1] = e
    BY <1>1, <1>2, <2>2
  <2>4. ToSet(ports) \cup {e} \subseteq ToSet(Append(ports, e))
    <3>1. \A i \in 1..(N + 1) : Append(ports, e)[i] \in ToSet(Append(ports, e)) BY <2>3 DEF ToSet
    <3>2. N + 1 \in 1..(N + 1) /\ \A i \in 1..N : i \in 1..(N + 1) BY <1>1
    <3>3. \A p \in ToSet(ports) : \E i \in 1..N : p = ports[i] BY <1>1 DEF ToSet
    <3>4. QED BY <2>3, <3>1, <3>2, <3>3
  <2>5. IsSequence(Append(ports, e)) BY <2>3, SequenceIs
  <2>6. QED BY <2>1, <2>4, <2>5 DEF ContainersOf
<1>4. CASE same # {}
  <2> DEFINE m == Max(same)
             merged == [ports EXCEPT ![m] = e]
  <2>1. MergePort(ports, e) = merged BY <1>4, Zenon DEF MergePort
  <2>2. same \in SUBSET (0..N) BY <1>1
  <2>3. m \in same BY <1>1, <1>4, <2>2, GreatestPosition
  <2>4. m \in 1..N /\ PortKey(ports[m]) = PortKey(e) BY <1>1, <2>3
  <2> HIDE DEF m
  <2>5. /\ merged \in Seq(V) /\ DOMAIN merged = 1..N /\ merged[m] = e
        /\ \A i \in 1..N : i # m => merged[i] = ports[i]
    BY <1>1, <1>2, <2>4
  <2> HIDE DEF merged, V
  <2>6. IsSequence(merged) BY <2>5, SequenceIs
  <2>7. \A i \in 1..N : merged[i] \in ToSet(merged) BY <2>5 DEF ToSet
  <2>8. Number(e.container) \in ContainersOf(merged) BY <2>4, <2>5, <2>7 DEF ContainersOf
  <2>9. ASSUME NEW i \in 1..N PROVE Number(ports[i].container) \in ContainersOf(merged)
    <3>1. CASE i = m
      <4>1. Number(ports[i].container) = Number(e.container) BY <2>4, <3>1, PortKeyContainer
      <4>2. QED BY <2>8, <4>1
    <3>2. CASE i # m BY <2>5, <2>7, <3>2 DEF ContainersOf
    <3>3. QED BY <3>1, <3>2
  <2>10. \A p \in ToSet(ports) : \E i \in 1..N : p = ports[i] BY <1>1 DEF ToSet
  <2>11. ContainersOf(ports) \subseteq ContainersOf(merged) BY <2>9, <2>10 DEF ContainersOf
  <2>12. QED BY <2>1, <2>6, <2>8, <2>11
<1>5. QED BY <1>3, <1>4

\* No container port of either file is lost.
LEMMA MergedPortsKeep ==
    ASSUME NEW base, NEW over, IsSequence(base), IsSequence(over)
    PROVE  /\ IsSequence(MergedPorts(base, over))
           /\ ContainersOf(base) \cup ContainersOf(over) \subseteq ContainersOf(MergedPorts(base, over))
<1>1. PICK f : IsMerging(f, base, over, Len(over)) /\ MergedPorts(base, over) = f[Len(over)]
  BY MergingExists
<1> DEFINE N == Len(over)
           S == {n \in Nat : n <= N =>
                    /\ IsSequence(f[n]) /\ ContainersOf(base) \subseteq ContainersOf(f[n])
                    /\ \A m \in 1..n : Number(over[m].container) \in ContainersOf(f[n])}
<1>2. N \in Nat /\ DOMAIN over = 1..N BY SequencePlaces
<1>3. f[0] = base /\ \A n \in Nat : n + 1 <= N => f[n + 1] = MergePort(f[n], over[n + 1])
  <2>1. \A n \in Nat : n + 1 <= N => n + 1 \in 1..N /\ (n + 1) - 1 = n BY <1>2
  <2>2. QED BY <1>1, <2>1 DEF IsMerging
<1>4. 0 \in S BY <1>3
<1>5. ASSUME NEW n \in Nat, n \in S PROVE n + 1 \in S
  <2> SUFFICES ASSUME n + 1 <= N
               PROVE  /\ IsSequence(f[n + 1]) /\ ContainersOf(base) \subseteq ContainersOf(f[n + 1])
                      /\ \A m \in 1..(n + 1) : Number(over[m].container) \in ContainersOf(f[n + 1])
    OBVIOUS
  <2>1. n <= N BY <1>2
  <2>2. /\ IsSequence(f[n]) /\ ContainersOf(base) \subseteq ContainersOf(f[n])
        /\ \A m \in 1..n : Number(over[m].container) \in ContainersOf(f[n])
    BY <1>5, <2>1
  <2>3. f[n + 1] = MergePort(f[n], over[n + 1]) BY <1>3
  <2>4. /\ IsSequence(f[n + 1])
        /\ ContainersOf(f[n]) \cup {Number(over[n + 1].container)} \subseteq ContainersOf(f[n + 1])
    BY <2>2, <2>3, MergePortKeeps
  <2>5. \A m \in 1..(n + 1) : m \in 1..n \/ m = n + 1 OBVIOUS
  <2>6. QED BY <2>2, <2>4, <2>5
<1> HIDE DEF S
<1>6. N \in S BY <1>2, <1>4, <1>5, SetInduction
<1>7. /\ IsSequence(f[N]) /\ ContainersOf(base) \subseteq ContainersOf(f[N])
      /\ \A m \in 1..N : Number(over[m].container) \in ContainersOf(f[N])
  BY <1>2, <1>6 DEF S
<1>8. ContainersOf(over) \subseteq ContainersOf(f[N])
  <2>1. \A p \in ToSet(over) : \E m \in 1..N : p = over[m] BY <1>2 DEF ToSet
  <2>2. QED BY <1>7, <2>1 DEF ContainersOf
<1>9. QED BY <1>1, <1>7, <1>8

------------------------------------------------------------------------------
\* What a compose file states, merged or alone

IsRaw(raw) == \A k \in DOMAIN raw : raw[k].tag # "reset" => IsValue(k, raw[k].value)

LEMMA MergedRaw ==
    ASSUME NEW base, NEW over, IsRaw(base), IsRaw(over)
    PROVE  IsRaw(MergeService(base, over))
<1> DEFINE keys == {k \in DOMAIN base \cup DOMAIN over : k \in DOMAIN over => over[k].tag # "reset"}
           r == MergeService(base, over)
<1>1. /\ DOMAIN r = keys
      /\ \A k \in keys :
            r[k] = IF k \notin DOMAIN over THEN base[k]
                   ELSE IF over[k].tag = "override" \/ k \notin DOMAIN base THEN Plain(over[k].value)
                   ELSE IF base[k].tag = "plain" THEN Plain(MergedValue(k, base[k].value, over[k].value))
                   ELSE IF k \in ListedKeys THEN base[k]
                   ELSE over[k]
  BY Zenon DEF MergeService
<1> HIDE DEF r
<1>2. ASSUME NEW k, NEW b, NEW o, IsValue(k, b), IsValue(k, o)
      PROVE  IsValue(k, MergedValue(k, b, o))
  <2>1. CASE k = "environment"
    <3>1. MergedValue(k, b, o) = MergedEnvironment(b, o) BY <2>1 DEF MergedValue
    <3>2. DOMAIN MergedEnvironment(b, o) = DOMAIN b \cup DOMAIN o BY DEF MergedEnvironment
    <3>3. IsFiniteSet(DOMAIN b) /\ IsFiniteSet(DOMAIN o) BY <1>2, <2>1 DEF IsValue
    <3>4. IsFiniteSet(DOMAIN b \cup DOMAIN o) BY <3>3, FS_Union
    <3>5. QED BY <2>1, <3>1, <3>2, <3>4 DEF IsValue
  <2>2. CASE k = "ports"
    <3>1. MergedValue(k, b, o) = MergedPorts(b, o) BY <2>2 DEF MergedValue
    <3>2. IsSequence(MergedPorts(b, o)) BY <1>2, <2>2, MergedPortsKeep DEF IsValue
    <3>3. QED BY <2>2, <3>1, <3>2 DEF IsValue
  <2>3. CASE k = "depends_on"
    <3>1. MergedValue(k, b, o) = b \o o BY <2>3 DEF MergedValue
    <3>2. IsSequence(b \o o) BY <1>2, <2>3, SequenceJoined DEF IsValue
    <3>3. QED BY <2>3, <3>1, <3>2 DEF IsValue
  <2>4. CASE k \notin {"environment", "ports", "depends_on"}
    <3>1. MergedValue(k, b, o) = o BY <2>4 DEF MergedValue
    <3>2. QED BY <1>2, <3>1
  <2>5. QED BY <2>1, <2>2, <2>3, <2>4
<1>3. ASSUME NEW k \in keys, r[k].tag # "reset" PROVE IsValue(k, r[k].value)
  <2>1. CASE k \notin DOMAIN over BY <1>1, <1>3, <2>1 DEF IsRaw
  <2>2. CASE k \in DOMAIN over
    <3>1. IsValue(k, over[k].value) BY <2>2 DEF IsRaw
    <3>2. CASE over[k].tag = "override" \/ k \notin DOMAIN base
      <4>1. r[k] = Plain(over[k].value) BY <1>1, <2>2, <3>2
      <4>2. r[k].value = over[k].value BY <4>1 DEF Plain, Tagged
      <4>3. QED BY <3>1, <4>2
    <3>3. CASE ~(over[k].tag = "override" \/ k \notin DOMAIN base)
      <4>1. CASE base[k].tag = "plain"
        <5>1. IsValue(k, base[k].value) BY <3>3, <4>1 DEF IsRaw
        <5>2. r[k] = Plain(MergedValue(k, base[k].value, over[k].value)) BY <1>1, <2>2, <3>3, <4>1
        <5>3. QED BY <1>2, <3>1, <5>1, <5>2 DEF Plain, Tagged
      <4>2. CASE base[k].tag # "plain" /\ k \in ListedKeys
        <5>1. r[k] = base[k] BY <1>1, <2>2, <3>3, <4>2
        <5>2. QED BY <1>3, <3>3, <5>1 DEF IsRaw
      <4>3. CASE base[k].tag # "plain" /\ k \notin ListedKeys
        BY <1>1, <2>2, <3>1, <3>3, <4>3
      <4>4. QED BY <4>1, <4>2, <4>3
    <3>4. QED BY <3>2, <3>3
  <2>3. QED BY <2>1, <2>2
<1>4. QED BY <1>1, <1>3 DEF IsRaw, r

LEMMA MergedDocument ==
    ASSUME NEW base, NEW over, IsDocument(base), IsDocument(over), \A s \in DOMAIN base : base[s] # None
    PROVE  IsDocument(MergeDocuments(base, over))
<1> DEFINE names == {s \in DOMAIN base \cup DOMAIN over : s \in DOMAIN over => over[s] # None}
           r == MergeDocuments(base, over)
<1>1. /\ DOMAIN r = names
      /\ \A s \in names :
            r[s] = IF s \notin DOMAIN over THEN base[s]
                   ELSE MergeService(IF s \in DOMAIN base THEN base[s] ELSE <<>>, over[s])
  BY Zenon DEF MergeDocuments
<1> HIDE DEF r
<1>2. \A s \in DOMAIN base : IsRaw(base[s]) BY DEF IsDocument, IsRaw
<1>3. \A s \in DOMAIN over : over[s] # None => IsRaw(over[s]) BY DEF IsDocument, IsRaw
<1>4. IsRaw(<<>>) BY DEF IsRaw
<1>5. \A s \in names : IsRaw(r[s]) BY <1>1, <1>2, <1>3, <1>4, MergedRaw
<1>6. names \subseteq ToSet(Services) BY DEF IsDocument
<1>7. QED BY <1>1, <1>5, <1>6 DEF IsDocument, IsRaw, r

\* The artifact a pair's document is merged from.
LEMMA OverrideOfPair ==
    ASSUME NEW tree, NEW i, Pairs(tree, tree[i].dir)
    PROVE  (CHOOSE j \in ComposeIn(tree, tree[i].dir, TRUE) : TRUE) \in ComposeIn(tree, tree[i].dir, TRUE)
<1> DEFINE overrides == ComposeIn(tree, tree[i].dir, TRUE)
<1>1. Cardinality(overrides) = 1 BY Zenon DEF Pairs
<1>2. overrides = {} => Cardinality(overrides) = 0 BY FS_EmptySet, Zenon
<1> HIDE DEF overrides
<1>3. overrides # {} BY <1>1, <1>2
<1>4. (CHOOSE j \in overrides : TRUE) \in overrides BY <1>3
<1>5. QED BY <1>4, Zenon DEF overrides

LEMMA TreeParts ==
    ASSUME NEW tree, IsTree(tree), NEW i \in DOMAIN tree
    PROVE  IsArtifact(tree[i])
  BY SequencePlaces DEF IsTree

LEMMA DocumentOfTree ==
    ASSUME NEW tree, IsTree(tree), NEW i \in DOMAIN tree, tree[i].type = "compose", Document(tree, i) # None
    PROVE  IsDocument(Document(tree, i))
<1> DEFINE j == CHOOSE j \in ComposeIn(tree, tree[i].dir, TRUE) : TRUE
           base == tree[i].document
           over == tree[j].document
<1>1. Document(tree, i) =
        IF ~Pairs(tree, tree[i].dir) THEN base
        ELSE IF tree[i].override THEN <<>>
        ELSE IF base = None \/ over = None THEN None
        ELSE IF \E s \in DOMAIN base : base[s] = None THEN None
        ELSE MergeDocuments(base, over)
  BY Zenon DEF Document
<1>2. base # None => IsDocument(base) BY TreeParts DEF IsArtifact
<1>3. CASE ~Pairs(tree, tree[i].dir) BY <1>1, <1>2, <1>3
<1>4. CASE Pairs(tree, tree[i].dir)
  <2>1. j \in ComposeIn(tree, tree[i].dir, TRUE) BY <1>4, OverrideOfPair
  <2>2. over # None => IsDocument(over) BY <2>1, TreeParts DEF ComposeIn, IsArtifact
  <2>3. IsDocument(<<>>) BY DEF IsDocument
  <2> HIDE DEF base, over
  <2>4. QED BY <1>1, <1>2, <1>4, <2>2, <2>3, MergedDocument
<1>5. QED BY <1>3, <1>4

IsService(service) ==
    /\ IsSequence(service.ports) /\ IsSequence(service.depends_on)
    /\ IsFiniteSet(DOMAIN service.environment)
    /\ service.context # None => IsSequence(service.context)

LEMMA ParsedServices ==
    ASSUME NEW document, IsDocument(document), ~Unparsable(document)
    PROVE  /\ IsSequence(ParseDocument(document))
           /\ \A k \in DOMAIN ParseDocument(document) :
                LET service == ParseDocument(document)[k]
                IN  /\ service.name \in DOMAIN document
                    /\ service = ParseService(service.name, document[service.name])
                    /\ IsService(service)
           /\ \A k, l \in DOMAIN ParseDocument(document) :
                ParseDocument(document)[k].name = ParseDocument(document)[l].name => k = l
           /\ \A s \in DOMAIN document : \E k \in DOMAIN ParseDocument(document) :
                ParseDocument(document)[k].name = s
<1> DEFINE places == {k \in DOMAIN Services : Services[k] \in DOMAIN document}
           named == At(Services, places)
           parsed == [i \in DOMAIN named |-> ParseService(named[i], document[named[i]])]
<1>1. ParseDocument(document) = parsed BY Zenon DEF ParseDocument
<1>2. IsSequence(Services) BY ServicesAssumption DEF IsSequence
<1>3. places \in SUBSET DOMAIN Services /\ places \in SUBSET Nat /\ IsFiniteSet(places)
  BY <1>2, SequencePlaces
<1>4. \A k \in places : k \in DOMAIN Services /\ Services[k] \in DOMAIN document OBVIOUS
<1>5. \A s \in DOMAIN document : \E k \in places : Services[k] = s
  BY <1>2, SequencePlaces DEF IsDocument
<1> HIDE DEF places
<1>6. IsSequence(named) /\ ToSet(named) = {Services[k] : k \in places} BY <1>2, <1>3, SequenceAt
<1>7. \A k, l \in DOMAIN named : named[k] = named[l] => k = l
  <2> TAKE k, l \in DOMAIN named
  <2>1. /\ Cardinality(places) \in Nat /\ DOMAIN named = 1..Cardinality(places)
        /\ \A n \in 1..Cardinality(places) : InOrder(places)[n] \in places /\ named[n] = Services[InOrder(places)[n]]
    BY <1>3, AtMembers
  <2>2. \A m, n \in 1..Cardinality(places) : m < n <=> InOrder(places)[m] < InOrder(places)[n]
    BY <1>3, InOrderMembers
  <2> HIDE DEF named
  <2>3. named[k] = named[l] => InOrder(places)[k] = InOrder(places)[l]
    BY <1>4, <2>1, ServicesAssumption
  <2>4. InOrder(places)[k] \in Nat BY <1>3, <2>1
  <2>5. ~(InOrder(places)[k] < InOrder(places)[k]) BY <2>4
  <2>6. InOrder(places)[k] = InOrder(places)[l] => ~(k < l) /\ ~(l < k) BY <2>1, <2>2, <2>5
  <2>7. QED BY <2>1, <2>3, <2>6
<1> HIDE DEF named
<1>8. ASSUME NEW s, NEW raw PROVE ParseService(s, raw).name = s BY DEF ParseService
<1>9. \A s \in DOMAIN document : IsService(ParseService(s, document[s]))
  <2> TAKE s \in DOMAIN document
  <2> DEFINE raw == document[s]
  <2>1. IsRaw(raw) /\ \A k \in ListedKeys : ~HasTag(raw, k)
    BY DEF Unparsable, IsDocument, IsRaw
  <2> HIDE DEF raw
  <2>2. \A k \in {"ports", "depends_on"} : IsSequence(Key(raw, k, <<>>))
    <3> TAKE k \in {"ports", "depends_on"}
    <3>1. CASE k \in DOMAIN raw
      BY <2>1, <3>1 DEF HasTag, ListedKeys, IsRaw, IsValue, Key
    <3>2. CASE k \notin DOMAIN raw BY <3>2, SequenceShort DEF Key
    <3>3. QED BY <3>1, <3>2
  <2>3. IsFiniteSet(DOMAIN Key(raw, "environment", <<>>))
    <3>1. CASE "environment" \in DOMAIN raw
      BY <2>1, <3>1 DEF HasTag, ListedKeys, IsRaw, IsValue, Key
    <3>2. CASE "environment" \notin DOMAIN raw
      <4>1. DOMAIN Key(raw, "environment", <<>>) = {} BY <3>2 DEF Key
      <4>2. QED BY <4>1, FS_EmptySet
    <3>3. QED BY <3>1, <3>2
  <2>4. ASSUME ~HasTag(raw, "build"), Key(raw, "build", None) # None
        PROVE  IsSequence(Key(raw, "build", None))
    <3>1. "build" \in DOMAIN raw /\ raw["build"].tag = "plain" /\ Key(raw, "build", None) = raw["build"].value
      BY <2>4 DEF Key, HasTag
    <3>2. IsValue("build", raw["build"].value) BY <2>1, <3>1 DEF IsRaw
    <3>3. QED BY <2>4, <3>1, <3>2 DEF IsValue
  <2>5. QED BY <2>2, <2>3, <2>4 DEF ParseService, IsService, raw
<1>10. \A k \in DOMAIN named : named[k] \in DOMAIN document BY <1>4, <1>6, SequencePlaces
<1>11. \A s \in DOMAIN document : \E k \in DOMAIN named : named[k] = s
  <2> TAKE s \in DOMAIN document
  <2>1. s \in ToSet(named) BY <1>5, <1>6
  <2>2. QED BY <1>6, <2>1, SequencePlaces
<1>12. /\ DOMAIN parsed = DOMAIN named
       /\ \A k \in DOMAIN named : parsed[k] = ParseService(named[k], document[named[k]]) /\ parsed[k].name = named[k]
  BY <1>8
<1>13. IsSequence(parsed)
  <2>1. parsed \in [DOMAIN named -> ToSet(parsed)] BY DEF ToSet
  <2>2. QED BY <1>6, <2>1, SequenceAlong
<1> HIDE DEF parsed
<1>14. QED BY <1>1, <1>7, <1>9, <1>10, <1>11, <1>12, <1>13

------------------------------------------------------------------------------
\* The facts of an artifact

IsFactOf(f, artifact) == f.dir = artifact.dir /\ f.file = artifact.name

LEMMA FactFields ==
    ASSUME NEW type, NEW artifact, NEW value
    PROVE  /\ Fact(type, artifact, value).type = type /\ Fact(type, artifact, value).value = value
           /\ IsFactOf(Fact(type, artifact, value), artifact)
  BY DEF Fact, IsFactOf

LEMMA EachFacts ==
    ASSUME NEW type, NEW artifact, NEW values, IsSequence(values)
    PROVE  /\ IsSequence(Each(type, artifact, values))
           /\ ToSet(Each(type, artifact, values)) = {Fact(type, artifact, v) : v \in ToSet(values)}
<1> DEFINE facts == Each(type, artifact, values)
<1>1. facts = [k \in DOMAIN values |-> Fact(type, artifact, values[k])] BY Zenon DEF Each
<1>2. DOMAIN facts = DOMAIN values /\ \A k \in DOMAIN values : facts[k] = Fact(type, artifact, values[k])
  BY <1>1
<1>3. facts \in [DOMAIN values -> ToSet(facts)] BY <1>1, <1>2 DEF ToSet
<1>4. IsSequence(facts) BY <1>3, SequenceAlong
<1> HIDE DEF facts
<1>5. ToSet(facts) \subseteq {Fact(type, artifact, v) : v \in ToSet(values)}
  BY <1>2, <1>4, SequencePlaces
<1>6. {Fact(type, artifact, v) : v \in ToSet(values)} \subseteq ToSet(facts)
  <2>1. ASSUME NEW v \in ToSet(values) PROVE Fact(type, artifact, v) \in ToSet(facts)
    <3>1. PICK k \in DOMAIN values : v = values[k] BY SequencePlaces
    <3>2. k \in DOMAIN facts /\ facts[k] = Fact(type, artifact, v) BY <1>2, <3>1
    <3>3. QED BY <1>4, <3>2, SequencePlaces
  <2>2. QED BY <2>1
<1>7. QED BY <1>4, <1>5, <1>6 DEF facts

LEMMA IfPresentFacts ==
    ASSUME NEW type, NEW artifact, NEW value
    PROVE  /\ IsSequence(IfPresent(type, artifact, value))
           /\ \A f \in ToSet(IfPresent(type, artifact, value)) : f = Fact(type, artifact, value) /\ value # None
<1>1. CASE value = None BY <1>1, SequenceShort DEF IfPresent
<1>2. CASE value # None
  <2>1. IfPresent(type, artifact, value) = <<Fact(type, artifact, value)>> BY <1>2 DEF IfPresent
  <2>2. QED BY <1>2, <2>1, SequenceShort
<1>3. QED BY <1>1, <1>2

\* The first element is the only one of its type.
BeginsWith(s, type, first) ==
    /\ IsSequence(s) /\ 1 \in DOMAIN s /\ s[1] = first
    /\ \A k \in DOMAIN s : s[k].type = type => k = 1

Lacks(s, type) == IsSequence(s) /\ \A f \in ToSet(s) : f.type # type

LEMMA OnlyFirst ==
    ASSUME NEW type, NEW first, NEW s, BeginsWith(s, type, first), NEW t, Lacks(t, type)
    PROVE  BeginsWith(s \o t, type, first) /\ ToSet(s \o t) = ToSet(s) \cup ToSet(t)
<1> DEFINE whole == s \o t
<1>1. /\ IsSequence(whole) /\ ToSet(whole) = ToSet(s) \cup ToSet(t)
      /\ \A k \in DOMAIN s : k \in DOMAIN whole /\ whole[k] = s[k]
      /\ \A k \in DOMAIN t : Len(s) + k \in DOMAIN whole /\ whole[Len(s) + k] = t[k]
      /\ \A k \in DOMAIN whole : k \notin DOMAIN s => k - Len(s) \in DOMAIN t
  BY SequenceJoined DEF BeginsWith, Lacks
<1> HIDE DEF whole
<1>2. ASSUME NEW k \in DOMAIN whole, k \notin DOMAIN s PROVE whole[k] \in ToSet(t)
  <2>1. k - Len(s) \in DOMAIN t BY <1>1, <1>2
  <2>2. k \in Nat /\ Len(s) \in Nat BY <1>1, SequencePlaces DEF BeginsWith
  <2>3. Len(s) + (k - Len(s)) = k BY <2>2
  <2>4. whole[k] = t[k - Len(s)] BY <1>1, <2>1, <2>3
  <2>5. QED BY <2>1, <2>4, SequencePlaces DEF Lacks
<1>3. \A k \in DOMAIN whole : whole[k].type = type => k = 1
  BY <1>1, <1>2 DEF BeginsWith, Lacks
<1>4. QED BY <1>1, <1>3 DEF whole, BeginsWith

LEMMA SequenceOn ==
    ASSUME NEW s, IsSequence(s), NEW f, f = [k \in DOMAIN s |-> f[k]]
    PROVE  IsSequence(f) /\ DOMAIN f = DOMAIN s
<1>1. DOMAIN f = DOMAIN s OBVIOUS
<1>2. \A k \in DOMAIN s : f[k] \in ToSet(f) BY <1>1 DEF ToSet
<1>3. f \in [DOMAIN s -> ToSet(f)] BY <1>2
<1>4. QED BY <1>1, <1>3, SequenceAlong

LEMMA NamesInSequence ==
    ASSUME NEW S, IsFiniteSet(S)
    PROVE  IsSequence(SetToSeq(S))
<1> DEFINE N == Cardinality(S)
<1>1. PICK g \in Bijection(1..N, S) : N \in Nat
  BY FS_CardinalityType, Zenon DEF ExistsBijection
<1>2. g \in [1..N -> S] /\ IsInjective(g)
  BY <1>1 DEF Bijection, Injection, Surjection, IsInjective
<1>3. SetToSeq(S) \in [1..N -> S] BY <1>2, Zenon DEF SetToSeq
<1>4. SetToSeq(S) \in Seq(S) BY <1>1, <1>3
<1>5. QED BY <1>4, SequenceIs

\* What the facts of one service state.
IsServiceFact(f, artifact, service) ==
    /\ IsFactOf(f, artifact)
    /\ f.type \in {"compose_service", "compose_image", "compose_build_context", "compose_depends_on",
                   "compose_port", "compose_environment"}
    /\ f.type = "compose_service" => f.value = service.name
    /\ f.type = "compose_image" =>
          f.value.service = service.name /\ f.value.value = service.image /\ service.image # None
    /\ f.type = "compose_build_context" => IsSequence(f.value.value)

LEMMA ServiceFactsOf ==
    ASSUME NEW artifact, NEW service, IsService(service)
    PROVE  /\ IsSequence(ServiceFacts(artifact, service))
           /\ 1 \in DOMAIN ServiceFacts(artifact, service)
           /\ ServiceFacts(artifact, service)[1].type = "compose_service"
           /\ \A k \in DOMAIN ServiceFacts(artifact, service) :
                 ServiceFacts(artifact, service)[k].type = "compose_service" => k = 1
           /\ \A f \in ToSet(ServiceFacts(artifact, service)) : IsServiceFact(f, artifact, service)
           /\ \A port \in ToSet(service.ports) :
                 \E f \in ToSet(ServiceFacts(artifact, service)) :
                    /\ f.type = "compose_port"
                    /\ f.value.service = service.name /\ f.value.value = Number(port.container)
<1> DEFINE variables == SetToSeq(DOMAIN service.environment)
           Valued(field, value) == [service |-> service.name, value |-> value]
           ports == [k \in DOMAIN service.ports |-> Valued("port", Number(service.ports[k].container))]
           depends == [k \in DOMAIN service.depends_on |-> Valued("depends_on", service.depends_on[k])]
           environment == [k \in DOMAIN variables |->
                              [service |-> service.name, name |-> variables[k],
                               value |-> service.environment[variables[k]]]]
           image == IF service.image = None THEN None ELSE Valued("image", service.image)
           context == IF service.context = None THEN None ELSE Valued("context", service.context)
           s1 == <<Fact("compose_service", artifact, service.name)>>
           t1 == IfPresent("compose_image", artifact, image)
           t2 == IfPresent("compose_build_context", artifact, context)
           t3 == Each("compose_depends_on", artifact, depends)
           t4 == Each("compose_port", artifact, ports)
           t5 == Each("compose_environment", artifact, environment)
           whole == ServiceFacts(artifact, service)
           Other(s) == Lacks(s, "compose_service")
           Mine(S) == \A f \in S : IsServiceFact(f, artifact, service)
<1>1. whole = s1 \o t1 \o t2 \o t3 \o t4 \o t5 BY Zenon DEF ServiceFacts
<1>2. IsSequence(variables) BY NamesInSequence DEF IsService
<1>3. IsSequence(environment)
  <2>1. environment = [k \in DOMAIN variables |-> environment[k]] BY Zenon
  <2> HIDE DEF environment
  <2>2. QED BY <1>2, <2>1, SequenceOn
<1>4. IsSequence(depends)
  <2>1. depends = [k \in DOMAIN service.depends_on |-> depends[k]] BY Zenon
  <2> HIDE DEF depends
  <2>2. QED BY <2>1, SequenceOn DEF IsService
<1>5. IsSequence(ports) /\ DOMAIN ports = DOMAIN service.ports
  <2>1. ports = [k \in DOMAIN service.ports |-> ports[k]] BY Zenon
  <2> HIDE DEF ports
  <2>2. QED BY <2>1, SequenceOn DEF IsService
<1>6. \A k \in DOMAIN service.ports :
        ports[k].service = service.name /\ ports[k].value = Number(service.ports[k].container)
  OBVIOUS
<1>7. image # None => image.service = service.name /\ image.value = service.image /\ service.image # None
  OBVIOUS
<1>8. context # None => context.value = service.context /\ service.context # None
  OBVIOUS
<1> HIDE DEF variables, ports, depends, environment, image, context
<1>9. Other(t1) /\ Mine(ToSet(t1))
  BY <1>7, IfPresentFacts, FactFields DEF IsServiceFact, Lacks
<1>10. Other(t2) /\ Mine(ToSet(t2))
  BY <1>8, IfPresentFacts, FactFields DEF IsServiceFact, IsService, Lacks
<1>11. Other(t3) /\ Mine(ToSet(t3))
  BY <1>4, EachFacts, FactFields DEF IsServiceFact, Lacks
<1>12. Other(t4) /\ Mine(ToSet(t4))
       /\ ToSet(t4) = {Fact("compose_port", artifact, v) : v \in ToSet(ports)}
  BY <1>5, EachFacts, FactFields DEF IsServiceFact, Lacks
<1>13. Other(t5) /\ Mine(ToSet(t5))
  BY <1>3, EachFacts, FactFields DEF IsServiceFact, Lacks
<1>14. /\ BeginsWith(s1, "compose_service", s1[1]) /\ s1[1].type = "compose_service" /\ Mine(ToSet(s1))
  <2>1. s1[1] = Fact("compose_service", artifact, service.name) /\ DOMAIN s1 = {1} OBVIOUS
  <2>2. s1[1].type = "compose_service" /\ IsServiceFact(s1[1], artifact, service)
    BY <2>1, FactFields DEF IsServiceFact, Lacks
  <2>3. IsSequence(s1) /\ ToSet(s1) = {s1[1]} BY <2>1, SequenceShort
  <2> HIDE DEF s1
  <2>4. QED BY <2>1, <2>2, <2>3 DEF BeginsWith
<1> HIDE DEF s1, t1, t2, t3, t4, t5, whole
<1> DEFINE first == s1[1]
           s2 == s1 \o t1
           s3 == s2 \o t2
           s4 == s3 \o t3
           s5 == s4 \o t4
           s6 == s5 \o t5
           Begins(s) == BeginsWith(s, "compose_service", first)
<1> HIDE DEF first
<1>24. Begins(s1) BY <1>14 DEF first
<1>15. Begins(s2) /\ ToSet(s2) = ToSet(s1) \cup ToSet(t1) BY <1>9, <1>24, OnlyFirst
<1> HIDE DEF s2
<1>16. Begins(s3) /\ ToSet(s3) = ToSet(s2) \cup ToSet(t2) BY <1>10, <1>15, OnlyFirst
<1> HIDE DEF s3
<1>17. Begins(s4) /\ ToSet(s4) = ToSet(s3) \cup ToSet(t3) BY <1>11, <1>16, OnlyFirst
<1> HIDE DEF s4
<1>18. Begins(s5) /\ ToSet(s5) = ToSet(s4) \cup ToSet(t4) BY <1>12, <1>17, OnlyFirst
<1> HIDE DEF s5
<1>19. Begins(s6) /\ ToSet(s6) = ToSet(s5) \cup ToSet(t5) BY <1>13, <1>18, OnlyFirst
<1>20. whole = s6 BY <1>1 DEF s2, s3, s4, s5
<1> HIDE DEF s6
<1>21. Mine(ToSet(whole))
  BY <1>9, <1>10, <1>11, <1>12, <1>13, <1>14, <1>15, <1>16, <1>17, <1>18, <1>19, <1>20
<1>22. ASSUME NEW port \in ToSet(service.ports)
       PROVE  \E f \in ToSet(whole) : /\ f.type = "compose_port" /\ f.value.service = service.name
                                      /\ f.value.value = Number(port.container)
  <2>1. IsSequence(service.ports) BY DEF IsService
  <2>2. PICK k \in DOMAIN service.ports : port = service.ports[k] BY <2>1, SequencePlaces
  <2>3. ports[k] \in ToSet(ports) BY <1>5, SequencePlaces
  <2>4. Fact("compose_port", artifact, ports[k]) \in ToSet(whole)
    BY <1>12, <1>18, <1>19, <1>20, <2>3
  <2>5. QED BY <1>6, <2>2, <2>4, FactFields
<1>23. QED BY <1>14, <1>19, <1>20, <1>21, <1>22 DEF whole, BeginsWith, first

LEMMA DockerfileFactsOf ==
    ASSUME NEW artifact, IsArtifact(artifact), artifact.type = "dockerfile"
    PROVE  /\ IsSequence(DockerfileFacts(artifact))
           /\ \A f \in ToSet(DockerfileFacts(artifact)) :
                 /\ IsFactOf(f, artifact)
                 /\ f.type \in {"dockerfile_expose", "dockerfile_cmd", "dockerfile_entrypoint"}
<1> DEFINE lines == artifact.lines
           places == OfLastStage(lines, "EXPOSE")
           exposes == At(lines, places)
           ports == [n \in DOMAIN exposes |-> exposes[n].ports]
           parsed == ParsedDockerfile(lines)
           t1 == Each("dockerfile_expose", artifact, parsed.expose)
           t2 == IfPresent("dockerfile_cmd", artifact, parsed.cmd)
           t3 == IfPresent("dockerfile_entrypoint", artifact, parsed.entrypoint)
           whole == DockerfileFacts(artifact)
<1>1. whole = t1 \o t2 \o t3 BY Zenon DEF DockerfileFacts
<1>2. parsed.expose = FlattenSeq(ports) BY DEF ParsedDockerfile
<1>3. IsSequence(lines) /\ \A line \in ToSet(lines) : line.keyword = "EXPOSE" => IsSequence(line.ports)
  BY DEF IsArtifact
<1>4. places \in SUBSET DOMAIN lines /\ \A k \in places : lines[k].keyword = "EXPOSE"
  BY DEF OfLastStage
<1> HIDE DEF places, lines, parsed, whole
<1>5. IsSequence(exposes) /\ ToSet(exposes) = {lines[k] : k \in places} BY <1>3, <1>4, SequenceAt
<1>6. \A e \in ToSet(exposes) : IsSequence(e.ports) BY <1>3, <1>4, <1>5, SequencePlaces
<1> HIDE DEF exposes
<1>7. IsSequence(ports) /\ \A n \in DOMAIN ports : IsSequence(ports[n])
  <2>1. ports = [n \in DOMAIN exposes |-> ports[n]] /\ \A n \in DOMAIN exposes : ports[n] = exposes[n].ports
    BY Zenon
  <2>2. \A n \in DOMAIN exposes : exposes[n] \in ToSet(exposes) BY <1>5, SequencePlaces
  <2> HIDE DEF ports
  <2>3. QED BY <1>5, <1>6, <2>1, <2>2, SequenceOn
<1> HIDE DEF ports
<1>8. IsSequence(parsed.expose) BY <1>2, <1>7, SequenceFlattened
<1>9. IsSequence(t1) /\ \A f \in ToSet(t1) : IsFactOf(f, artifact) /\ f.type = "dockerfile_expose"
  BY <1>8, EachFacts, FactFields
<1>10. IsSequence(t2) /\ \A f \in ToSet(t2) : IsFactOf(f, artifact) /\ f.type = "dockerfile_cmd"
  BY IfPresentFacts, FactFields
<1>11. IsSequence(t3) /\ \A f \in ToSet(t3) : IsFactOf(f, artifact) /\ f.type = "dockerfile_entrypoint"
  BY IfPresentFacts, FactFields
<1> HIDE DEF t1, t2, t3
<1>12. IsSequence(t1 \o t2) /\ ToSet(t1 \o t2) = ToSet(t1) \cup ToSet(t2) BY <1>9, <1>10, SequenceJoined
<1>13. IsSequence(whole) /\ ToSet(whole) = ToSet(t1 \o t2) \cup ToSet(t3) BY <1>1, <1>11, <1>12, SequenceJoined
<1>14. QED BY <1>9, <1>10, <1>11, <1>12, <1>13 DEF whole

LEMMA ServicesOfTree ==
    ASSUME NEW tree, IsTree(tree), NEW i \in DOMAIN tree, tree[i].type = "compose"
    PROVE  LET services == ServicesOf(tree, i)
               document == Document(tree, i)
           IN  /\ IsSequence(services)
               /\ \A k \in DOMAIN services :
                     /\ IsService(services[k]) /\ ~Unparsable(document) /\ IsDocument(document)
                     /\ services[k].name \in DOMAIN document
                     /\ services[k] = ParseService(services[k].name, document[services[k].name])
               /\ \A k, l \in DOMAIN services : services[k].name = services[l].name => k = l
               /\ ~Unparsable(document) =>
                     \A s \in DOMAIN document : \E k \in DOMAIN services : services[k].name = s
<1> DEFINE services == ServicesOf(tree, i)
           document == Document(tree, i)
<1>1. CASE Unparsable(document)
  <2>1. services = <<>> BY <1>1 DEF ServicesOf
  <2>2. QED BY <1>1, <2>1, SequenceShort
<1>2. CASE ~Unparsable(document)
  <2>1. services = ParseDocument(document) BY <1>2 DEF ServicesOf
  <2>2. document # None BY <1>2 DEF Unparsable
  <2>3. IsDocument(document) BY <2>2, DocumentOfTree
  <2> HIDE DEF document, services
  <2>4. QED BY <1>2, <2>1, <2>3, ParsedServices DEF document, services
<1>3. QED BY <1>1, <1>2

\* One fact states a service, and none of its ports is left out.
LEMMA ComposeFacts ==
    ASSUME NEW tree, IsTree(tree), NEW i \in DOMAIN tree, tree[i].type = "compose"
    PROVE  LET services == ServicesOf(tree, i)
               facts == ArtifactFacts(tree, i)
           IN  /\ IsSequence(facts)
               /\ \A f \in ToSet(facts) : \E k \in DOMAIN services : IsServiceFact(f, tree[i], services[k])
               /\ \A p, q \in DOMAIN facts :
                     /\ facts[p].type = "compose_service" /\ facts[q].type = "compose_service"
                     /\ facts[p].value = facts[q].value
                     => p = q
               /\ \A k \in DOMAIN services : \A port \in ToSet(services[k].ports) :
                     \E f \in ToSet(facts) :
                        /\ f.type = "compose_port"
                        /\ f.value.service = services[k].name /\ f.value.value = Number(port.container)
<1> DEFINE services == ServicesOf(tree, i)
           facts == ArtifactFacts(tree, i)
           parts == [k \in DOMAIN services |-> ServiceFacts(tree[i], services[k])]
           N == Len(parts)
<1>1. facts = FlattenSeq(parts) BY Zenon DEF ArtifactFacts
<1>2. /\ IsSequence(services) /\ \A k \in DOMAIN services : IsService(services[k])
      /\ \A k, l \in DOMAIN services : services[k].name = services[l].name => k = l
  BY ServicesOfTree
<1> HIDE DEF services, facts
<1>3. DOMAIN parts = DOMAIN services /\ \A k \in DOMAIN services : parts[k] = ServiceFacts(tree[i], services[k])
  BY Zenon
<1>4. IsSequence(parts)
  <2>1. parts = [k \in DOMAIN services |-> parts[k]] BY Zenon
  <2> HIDE DEF parts
  <2>2. QED BY <1>2, <2>1, SequenceOn
<1> HIDE DEF parts
<1>5. \A k \in DOMAIN services :
        /\ IsSequence(parts[k])
        /\ \A m \in DOMAIN parts[k] : parts[k][m].type = "compose_service" => m = 1
        /\ \A f \in ToSet(parts[k]) : IsServiceFact(f, tree[i], services[k])
        /\ \A port \in ToSet(services[k].ports) :
              \E f \in ToSet(parts[k]) :
                 /\ f.type = "compose_port"
                 /\ f.value.service = services[k].name /\ f.value.value = Number(port.container)
  BY <1>2, <1>3, ServiceFactsOf
<1>6. /\ IsSequence(facts)
      /\ ToSet(facts) = UNION {ToSet(parts[k]) : k \in DOMAIN services}
      /\ \E part, place : IsUnflattening(facts, parts, N, part, place)
  BY <1>1, <1>3, <1>4, <1>5, SequenceFlattened
<1>7. PICK part, place : IsUnflattening(facts, parts, N, part, place) BY <1>6
<1>8. 1..N = DOMAIN services BY <1>3, <1>4, SequencePlaces
<1>9. ASSUME NEW p \in DOMAIN facts, NEW q \in DOMAIN facts,
             facts[p].type = "compose_service", facts[q].type = "compose_service",
             facts[p].value = facts[q].value
      PROVE  p = q
  <2>1. \A r \in DOMAIN facts :
          /\ part[r] \in DOMAIN services /\ place[r] \in DOMAIN parts[part[r]]
          /\ facts[r] = parts[part[r]][place[r]]
    BY <1>7, <1>8 DEF IsUnflattening
  <2>2. \A r \in DOMAIN facts : facts[r] \in ToSet(parts[part[r]]) BY <1>5, <2>1, SequencePlaces
  <2>3. \A r \in DOMAIN facts : IsServiceFact(facts[r], tree[i], services[part[r]]) BY <1>5, <2>1, <2>2
  <2>4. facts[p].value = services[part[p]].name /\ facts[q].value = services[part[q]].name
    BY <1>9, <2>3 DEF IsServiceFact
  <2>5. part[p] = part[q] BY <1>2, <1>9, <2>1, <2>4
  <2>6. place[p] = 1 /\ place[q] = 1 BY <1>5, <1>9, <2>1
  <2>7. QED BY <1>7, <2>5, <2>6 DEF IsUnflattening
<1>10. QED BY <1>5, <1>6, <1>9 DEF services, facts

\* A fact of an artifact; only a compose file states services.
IsArtifactFact(f, artifact) ==
    /\ IsFactOf(f, artifact)
    /\ f.type # "artifact_presence"
    /\ f.type \in {"compose_service", "compose_image", "compose_build_context"} => artifact.type = "compose"
    /\ f.type = "compose_build_context" => IsSequence(f.value.value)

LEMMA ArtifactFactsOf ==
    ASSUME NEW tree, IsTree(tree), NEW i \in DOMAIN tree
    PROVE  /\ IsSequence(ArtifactFacts(tree, i))
           /\ \A f \in ToSet(ArtifactFacts(tree, i)) : IsArtifactFact(f, tree[i])
<1> DEFINE artifact == tree[i]
           facts == ArtifactFacts(tree, i)
           dependencies == Each("package_dependency", artifact, artifact.dependencies)
           scripts == Each("package_script", artifact, artifact.scripts)
<1>1. IsArtifact(artifact) BY TreeParts
<1>2. CASE artifact.type = "compose"
  BY <1>2, ComposeFacts DEF IsServiceFact, IsArtifactFact
<1>3. CASE artifact.type = "dockerfile"
  <2>1. facts = DockerfileFacts(artifact) BY <1>3 DEF ArtifactFacts
  <2> HIDE DEF facts, artifact
  <2>2. IsSequence(facts) /\ \A f \in ToSet(facts) : IsArtifactFact(f, artifact)
    BY <1>1, <1>3, <2>1, DockerfileFactsOf DEF IsArtifactFact
  <2>3. QED BY <2>2 DEF facts, artifact
<1>4. CASE artifact.type = "maven"
  <2>1. facts = <<Fact("maven_packaging", artifact, "jar")>> BY <1>4 DEF ArtifactFacts
  <2> HIDE DEF facts, artifact
  <2>2. IsSequence(facts) /\ \A f \in ToSet(facts) : IsArtifactFact(f, artifact)
    BY <2>1, SequenceShort, FactFields DEF IsArtifactFact
  <2>3. QED BY <2>2 DEF facts, artifact
<1>5. ASSUME artifact.type \in {"nodejs", "python"}
      PROVE  IsSequence(dependencies) /\ \A f \in ToSet(dependencies) : IsArtifactFact(f, artifact)
  <2>1. IsSequence(artifact.dependencies) BY <1>1, <1>5 DEF IsArtifact
  <2> HIDE DEF artifact
  <2>2. QED BY <2>1, EachFacts, FactFields DEF IsArtifactFact
<1>6. ASSUME artifact.type = "nodejs"
      PROVE  IsSequence(scripts) /\ \A f \in ToSet(scripts) : IsArtifactFact(f, artifact)
  <2>1. IsSequence(artifact.scripts) BY <1>1, <1>6 DEF IsArtifact
  <2> HIDE DEF artifact
  <2>2. QED BY <2>1, EachFacts, FactFields DEF IsArtifactFact
<1>7. CASE artifact.type = "nodejs"
  <2>1. facts = dependencies \o scripts BY <1>7 DEF ArtifactFacts
  <2> HIDE DEF facts, dependencies, scripts
  <2>2. IsSequence(facts) /\ ToSet(facts) = ToSet(dependencies) \cup ToSet(scripts)
    BY <1>5, <1>6, <1>7, <2>1, SequenceJoined
  <2>3. QED BY <1>5, <1>6, <1>7, <2>2 DEF facts
<1>8. CASE artifact.type = "python"
  <2>1. facts = dependencies BY <1>8 DEF ArtifactFacts
  <2>2. QED BY <1>5, <1>8, <2>1
<1>9. CASE artifact.type \notin {"compose", "dockerfile", "maven", "nodejs", "python"}
  <2>1. facts = <<>> BY <1>9 DEF ArtifactFacts
  <2>2. QED BY <2>1, SequenceShort
<1>10. QED BY <1>2, <1>3, <1>4, <1>7, <1>8, <1>9

------------------------------------------------------------------------------
\* The evidence of a tree

Presence(tree, i) == Fact("artifact_presence", tree[i], tree[i].type)

\* What a place after the presences holds: a fact of an artifact.
IsPlaced(tree, p, artifact, place) ==
    /\ artifact[p] \in DOMAIN tree /\ place[p] \in DOMAIN ArtifactFacts(tree, artifact[p])
    /\ Evidence(tree)[p] = ArtifactFacts(tree, artifact[p])[place[p]]

LEMMA EvidencePlaces ==
    ASSUME NEW tree, IsTree(tree)
    PROVE  /\ IsSequence(Evidence(tree))
           /\ \A i \in DOMAIN tree : i \in DOMAIN Evidence(tree) /\ Evidence(tree)[i] = Presence(tree, i)
           /\ \A i \in DOMAIN tree : \A f \in ToSet(ArtifactFacts(tree, i)) :
                 \E p \in DOMAIN Evidence(tree) : Evidence(tree)[p] = f
           /\ \E artifact, place :
                 /\ \A p \in DOMAIN Evidence(tree) : p \notin DOMAIN tree => IsPlaced(tree, p, artifact, place)
                 /\ \A p, q \in DOMAIN Evidence(tree) :
                       /\ p \notin DOMAIN tree /\ q \notin DOMAIN tree
                       /\ artifact[p] = artifact[q] /\ place[p] = place[q]
                       => p = q
<1> DEFINE presences == [i \in DOMAIN tree |-> Presence(tree, i)]
           parts == [i \in DOMAIN tree |-> ArtifactFacts(tree, i)]
           flat == FlattenSeq(parts)
           ev == Evidence(tree)
           L == Len(tree)
           N == Len(parts)
<1>1. ev = presences \o flat BY Zenon DEF Evidence, Presence
<1> HIDE DEF ev
<1>2. IsSequence(tree) BY DEF IsTree
<1>3. /\ IsSequence(presences) /\ DOMAIN presences = DOMAIN tree
      /\ \A i \in DOMAIN tree : presences[i] = Presence(tree, i)
  <2>1. presences = [i \in DOMAIN tree |-> presences[i]] /\ \A i \in DOMAIN tree : presences[i] = Presence(tree, i)
    BY Zenon
  <2> HIDE DEF presences
  <2>2. QED BY <1>2, <2>1, SequenceOn
<1> HIDE DEF presences
<1>4. /\ IsSequence(parts) /\ DOMAIN parts = DOMAIN tree
      /\ \A i \in DOMAIN tree : parts[i] = ArtifactFacts(tree, i)
  <2>1. parts = [i \in DOMAIN tree |-> parts[i]] /\ \A i \in DOMAIN tree : parts[i] = ArtifactFacts(tree, i)
    BY Zenon
  <2> HIDE DEF parts
  <2>2. QED BY <1>2, <2>1, SequenceOn
<1> HIDE DEF parts
<1>5. \A i \in DOMAIN tree : IsSequence(parts[i]) BY <1>4, ArtifactFactsOf
<1>6. /\ IsSequence(flat)
      /\ ToSet(flat) = UNION {ToSet(parts[i]) : i \in DOMAIN tree}
      /\ \E part, place : IsUnflattening(flat, parts, N, part, place)
  BY <1>4, <1>5, SequenceFlattened
<1> HIDE DEF flat
<1>7. PICK part, place : IsUnflattening(flat, parts, N, part, place) BY <1>6
<1>8. 1..N = DOMAIN tree /\ L = Len(presences) /\ L \in Nat /\ DOMAIN tree = 1..L
  <2>1. 1..N = DOMAIN tree BY <1>4, SequencePlaces
  <2>2. L \in Nat /\ DOMAIN tree = 1..L BY <1>2, SequencePlaces
  <2>3. Len(presences) \in Nat /\ DOMAIN presences = 1..Len(presences) BY <1>3, SequencePlaces
  <2>4. L = Len(presences) BY <1>3, <2>2, <2>3
  <2>5. QED BY <2>1, <2>2, <2>4
<1>9. /\ IsSequence(ev) /\ ToSet(ev) = ToSet(presences) \cup ToSet(flat)
      /\ \A k \in DOMAIN tree : k \in DOMAIN ev /\ ev[k] = presences[k]
      /\ \A k \in DOMAIN flat : L + k \in DOMAIN ev /\ ev[L + k] = flat[k]
      /\ \A k \in DOMAIN ev : k \notin DOMAIN tree => k - L \in DOMAIN flat
  BY <1>1, <1>3, <1>6, <1>8, SequenceJoined
<1>10. \A i \in DOMAIN tree : i \in DOMAIN ev /\ ev[i] = Presence(tree, i) BY <1>3, <1>9
<1>11. ASSUME NEW i \in DOMAIN tree, NEW f \in ToSet(ArtifactFacts(tree, i))
       PROVE  \E p \in DOMAIN ev : ev[p] = f
  <2>1. f \in ToSet(ev) BY <1>4, <1>6, <1>9
  <2>2. QED BY <1>9, <2>1, SequencePlaces
<1> DEFINE artifact == [p \in DOMAIN ev |-> part[p - L]]
           at == [p \in DOMAIN ev |-> place[p - L]]
<1>12. \A p \in DOMAIN ev : artifact[p] = part[p - L] /\ at[p] = place[p - L] OBVIOUS
<1> HIDE DEF artifact, at
<1>13. \A p \in DOMAIN ev : p \in Nat /\ L + (p - L) = p
  <2>1. DOMAIN ev \in SUBSET Nat BY <1>9, SequencePlaces
  <2>2. QED BY <1>8, <2>1
<1>14. ASSUME NEW p \in DOMAIN ev, p \notin DOMAIN tree
       PROVE  /\ p - L \in DOMAIN flat
              /\ artifact[p] \in DOMAIN tree /\ at[p] \in DOMAIN ArtifactFacts(tree, artifact[p])
              /\ ev[p] = ArtifactFacts(tree, artifact[p])[at[p]]
  <2>1. p - L \in DOMAIN flat /\ ev[p] = flat[p - L] BY <1>9, <1>13, <1>14
  <2>2. /\ artifact[p] \in DOMAIN tree /\ at[p] \in DOMAIN parts[artifact[p]]
        /\ flat[p - L] = parts[artifact[p]][at[p]]
    BY <1>7, <1>8, <1>12, <2>1 DEF IsUnflattening
  <2>3. QED BY <1>4, <2>1, <2>2
<1>15. ASSUME NEW p \in DOMAIN ev, NEW q \in DOMAIN ev, p \notin DOMAIN tree, q \notin DOMAIN tree,
              artifact[p] = artifact[q], at[p] = at[q]
       PROVE  p = q
  <2>1. p - L \in DOMAIN flat /\ q - L \in DOMAIN flat BY <1>14, <1>15
  <2>2. p - L = q - L BY <1>7, <1>12, <1>15, <2>1 DEF IsUnflattening
  <2>3. QED BY <1>13, <2>2
<1>16. /\ \A p \in DOMAIN ev : p \notin DOMAIN tree => IsPlaced(tree, p, artifact, at)
       /\ \A p, q \in DOMAIN ev :
             p \notin DOMAIN tree /\ q \notin DOMAIN tree /\ artifact[p] = artifact[q] /\ at[p] = at[q] => p = q
  BY <1>14, <1>15 DEF IsPlaced, ev
<1>17. QED BY <1>9, <1>10, <1>11, <1>16 DEF ev

LEMMA EvidenceFacts ==
    ASSUME NEW tree, IsTree(tree)
    PROVE  LET ev == Evidence(tree)
           IN  /\ IsSequence(ev)
               /\ \A p \in DOMAIN ev : IsSequence(ev[p].dir)
               /\ \A p \in FactsOf(ev, "compose_build_context") : IsSequence(ev[p].value.value)
               /\ \A p \in DOMAIN ev : \E k \in FactsOf(ev, "artifact_presence") : SameFile(ev[k], ev[p])
<1> DEFINE ev == Evidence(tree)
<1>1. IsSequence(ev) /\ \A i \in DOMAIN tree : i \in DOMAIN ev /\ ev[i] = Presence(tree, i)
  BY EvidencePlaces
<1>2. PICK artifact, place : \A p \in DOMAIN ev : p \notin DOMAIN tree => IsPlaced(tree, p, artifact, place)
  BY EvidencePlaces
<1> HIDE DEF ev
<1>3. ASSUME NEW p \in DOMAIN ev
      PROVE  \E i \in DOMAIN tree :
                /\ IsFactOf(ev[p], tree[i])
                /\ ev[p].type = "compose_build_context" => IsSequence(ev[p].value.value)
  <2>1. CASE p \in DOMAIN tree
    <3>1. ev[p] = Presence(tree, p) BY <1>1, <2>1
    <3>2. IsFactOf(ev[p], tree[p]) /\ ev[p].type = "artifact_presence" BY <3>1, FactFields DEF Presence
    <3>3. QED BY <2>1, <3>2
  <2>2. CASE p \notin DOMAIN tree
    <3> DEFINE i == artifact[p]
    <3>1. i \in DOMAIN tree /\ place[p] \in DOMAIN ArtifactFacts(tree, i)
          /\ ev[p] = ArtifactFacts(tree, i)[place[p]]
      BY <1>2, <2>2 DEF IsPlaced, ev
    <3> HIDE DEF i
    <3>2. IsSequence(ArtifactFacts(tree, i)) BY <3>1, ArtifactFactsOf
    <3>3. ev[p] \in ToSet(ArtifactFacts(tree, i)) BY <3>1, <3>2, SequencePlaces
    <3>4. IsArtifactFact(ev[p], tree[i]) BY <3>1, <3>3, ArtifactFactsOf
    <3>5. QED BY <3>1, <3>4 DEF IsArtifactFact
  <2>3. QED BY <2>1, <2>2
<1>4. ASSUME NEW p \in DOMAIN ev
      PROVE  /\ IsSequence(ev[p].dir)
             /\ \E k \in FactsOf(ev, "artifact_presence") : SameFile(ev[k], ev[p])
  <2>1. PICK i \in DOMAIN tree : IsFactOf(ev[p], tree[i]) BY <1>3
  <2>2. i \in DOMAIN ev /\ ev[i].type = "artifact_presence" /\ IsFactOf(ev[i], tree[i])
    BY <1>1, FactFields DEF Presence
  <2>3. IsSequence(tree[i].dir) BY TreeParts DEF IsArtifact
  <2>4. QED BY <2>1, <2>2, <2>3 DEF IsFactOf, FactsOf, SameFile
<1>5. \A p \in FactsOf(ev, "compose_build_context") : IsSequence(ev[p].value.value)
  BY <1>3 DEF FactsOf
<1>6. QED BY <1>1, <1>4, <1>5 DEF ev

\* A fact of a compose file is a service's.
IsStatedBy(tree, i, k, f) ==
    /\ i \in DOMAIN tree /\ tree[i].type = "compose"
    /\ k \in DOMAIN ServicesOf(tree, i)
    /\ IsServiceFact(f, tree[i], ServicesOf(tree, i)[k])

LEMMA ComposeEvidence ==
    ASSUME NEW tree, IsTree(tree)
    PROVE  LET ev == Evidence(tree)
           IN  /\ \A p \in FactsOf(ev, "compose_service") \cup FactsOf(ev, "compose_image") :
                     \E i, k : IsStatedBy(tree, i, k, ev[p])
               /\ \A p, q \in FactsOf(ev, "compose_service") :
                     (p # q /\ ev[p].value = ev[q].value) =>
                        \E i, j, k, l : i # j /\ IsStatedBy(tree, i, k, ev[p]) /\ IsStatedBy(tree, j, l, ev[q])
               /\ \A i \in DOMAIN tree : tree[i].type = "compose" =>
                     \A k \in DOMAIN ServicesOf(tree, i) : \A port \in ToSet(ServicesOf(tree, i)[k].ports) :
                        \E p \in FactsOf(ev, "compose_port") :
                           /\ ev[p].value.service = ServicesOf(tree, i)[k].name
                           /\ ev[p].value.value = Number(port.container)
<1> DEFINE ev == Evidence(tree)
<1>1. /\ IsSequence(ev) /\ \A i \in DOMAIN tree : i \in DOMAIN ev /\ ev[i] = Presence(tree, i)
      /\ \A i \in DOMAIN tree : \A f \in ToSet(ArtifactFacts(tree, i)) : \E p \in DOMAIN ev : ev[p] = f
  BY EvidencePlaces
<1>2. PICK artifact, place :
         /\ \A p \in DOMAIN ev : p \notin DOMAIN tree => IsPlaced(tree, p, artifact, place)
         /\ \A p, q \in DOMAIN ev :
               /\ p \notin DOMAIN tree /\ q \notin DOMAIN tree
               /\ artifact[p] = artifact[q] /\ place[p] = place[q]
               => p = q
  BY EvidencePlaces
<1> DEFINE FactsAt(i) == ArtifactFacts(tree, i)
<1>3. ASSUME NEW p \in FactsOf(ev, "compose_service") \cup FactsOf(ev, "compose_image")
      PROVE  /\ p \in DOMAIN ev /\ p \notin DOMAIN tree
             /\ artifact[p] \in DOMAIN tree /\ tree[artifact[p]].type = "compose"
             /\ place[p] \in DOMAIN FactsAt(artifact[p]) /\ ev[p] = FactsAt(artifact[p])[place[p]]
             /\ \E k : IsStatedBy(tree, artifact[p], k, ev[p])
  <2>1. p \in DOMAIN ev /\ ev[p].type \in {"compose_service", "compose_image"} BY DEF FactsOf
  <2>2. p \notin DOMAIN tree
    <3> SUFFICES ASSUME p \in DOMAIN tree PROVE FALSE OBVIOUS
    <3>1. ev[p].type = "artifact_presence" BY <1>1, FactFields DEF Presence
    <3>2. QED BY <2>1, <3>1
  <2> DEFINE i == artifact[p]
  <2>3. i \in DOMAIN tree /\ place[p] \in DOMAIN FactsAt(i) /\ ev[p] = FactsAt(i)[place[p]]
    BY <1>2, <2>1, <2>2 DEF IsPlaced
  <2>4. IsSequence(FactsAt(i)) BY <2>3, ArtifactFactsOf
  <2> HIDE DEF ev
  <2>5. ev[p] \in ToSet(FactsAt(i)) BY <2>3, <2>4, SequencePlaces
  <2>6. tree[i].type = "compose" BY <2>1, <2>3, <2>5, ArtifactFactsOf DEF IsArtifactFact
  <2>7. PICK k \in DOMAIN ServicesOf(tree, i) : IsServiceFact(ev[p], tree[i], ServicesOf(tree, i)[k])
    BY <2>3, <2>5, <2>6, ComposeFacts
  <2>8. QED BY <2>1, <2>2, <2>3, <2>6, <2>7 DEF IsStatedBy
<1> HIDE DEF ev
<1>4. ASSUME NEW p \in FactsOf(ev, "compose_service"), NEW q \in FactsOf(ev, "compose_service"),
             p # q, ev[p].value = ev[q].value
      PROVE  \E i, j, k, l : i # j /\ IsStatedBy(tree, i, k, ev[p]) /\ IsStatedBy(tree, j, l, ev[q])
  <2>1. artifact[p] # artifact[q]
    <3> SUFFICES ASSUME artifact[p] = artifact[q] PROVE FALSE OBVIOUS
    <3>1. ev[p].type = "compose_service" /\ ev[q].type = "compose_service" BY DEF FactsOf
    <3>2. place[p] = place[q] BY <1>3, <1>4, <3>1, ComposeFacts
    <3>3. QED BY <1>2, <1>3, <1>4, <3>2
  <2>2. (\E k : IsStatedBy(tree, artifact[p], k, ev[p])) /\ \E l : IsStatedBy(tree, artifact[q], l, ev[q])
    BY <1>3
  <2>3. QED BY <2>1, <2>2
<1>5. ASSUME NEW i \in DOMAIN tree, tree[i].type = "compose", NEW k \in DOMAIN ServicesOf(tree, i),
             NEW port \in ToSet(ServicesOf(tree, i)[k].ports)
      PROVE  \E p \in FactsOf(ev, "compose_port") :
                 /\ ev[p].value.service = ServicesOf(tree, i)[k].name
                 /\ ev[p].value.value = Number(port.container)
  <2>1. PICK f \in ToSet(FactsAt(i)) :
           /\ f.type = "compose_port"
           /\ f.value.service = ServicesOf(tree, i)[k].name /\ f.value.value = Number(port.container)
    BY <1>5, ComposeFacts
  <2>2. PICK p \in DOMAIN ev : ev[p] = f BY <1>1
  <2>3. QED BY <2>1, <2>2 DEF FactsOf
<1>6. QED BY <1>3, <1>4, <1>5 DEF ev

------------------------------------------------------------------------------
\* The documents a service comes from

LEMMA TagSurvives ==
    ASSUME NEW base, NEW over, NEW key, HasTag(MergeService(base, over), key)
    PROVE  HasTag(base, key)
<1> DEFINE keys == {k \in DOMAIN base \cup DOMAIN over : k \in DOMAIN over => over[k].tag # "reset"}
           r == MergeService(base, over)
<1>1. /\ DOMAIN r = keys
      /\ \A k \in keys :
            r[k] = IF k \notin DOMAIN over THEN base[k]
                   ELSE IF over[k].tag = "override" \/ k \notin DOMAIN base THEN Plain(over[k].value)
                   ELSE IF base[k].tag = "plain" THEN Plain(MergedValue(k, base[k].value, over[k].value))
                   ELSE IF k \in ListedKeys THEN base[k]
                   ELSE over[k]
  BY Zenon DEF MergeService
<1>2. key \in DOMAIN r /\ r[key].tag # "plain" BY DEF HasTag
<1> HIDE DEF r
<1>3. \A v : Plain(v).tag = "plain" BY DEF Plain, Tagged
<1>4. CASE key \notin DOMAIN over BY <1>1, <1>2, <1>4 DEF HasTag
<1>5. CASE key \in DOMAIN over
  <2>1. ~(over[key].tag = "override" \/ key \notin DOMAIN base) BY <1>1, <1>2, <1>3, <1>5
  <2>2. base[key].tag # "plain" BY <1>1, <1>2, <1>3, <1>5, <2>1
  <2>3. QED BY <2>1, <2>2 DEF HasTag
<1>6. QED BY <1>4, <1>5

\* A service is stated by its file, or by the other file of its pair; a merge
\* tag left on its image by a file.
LEMMA ServiceSource ==
    ASSUME NEW tree, IsTree(tree), NEW i \in DOMAIN tree, tree[i].type = "compose",
           NEW k \in DOMAIN ServicesOf(tree, i)
    PROVE  LET service == ServicesOf(tree, i)[k]
           IN  /\ Pairs(tree, tree[i].dir) => ~tree[i].override
               /\ \E w \in DOMAIN tree :
                     /\ tree[w].type = "compose" /\ tree[w].document # None /\ tree[w].dir = tree[i].dir
                     /\ ~Pairs(tree, tree[i].dir) => w = i
                     /\ service.name \in DOMAIN tree[w].document
               /\ service.image = MergeTag /\ service.image # None =>
                     \E w \in DOMAIN tree :
                        /\ tree[w].type = "compose" /\ tree[w].document # None
                        /\ service.name \in DOMAIN tree[w].document
                        /\ tree[w].document[service.name] # None
                        /\ HasTag(tree[w].document[service.name], "image")
<1> DEFINE service == ServicesOf(tree, i)[k]
           s == service.name
           document == Document(tree, i)
           j == CHOOSE j \in ComposeIn(tree, tree[i].dir, TRUE) : TRUE
           base == tree[i].document
           over == tree[j].document
<1>1. /\ ~Unparsable(document) /\ IsDocument(document) /\ s \in DOMAIN document
      /\ service = ParseService(s, document[s])
  BY ServicesOfTree
<1>2. document # None /\ document[s] # None BY <1>1 DEF Unparsable
<1>3. document =
        IF ~Pairs(tree, tree[i].dir) THEN base
        ELSE IF tree[i].override THEN <<>>
        ELSE IF base = None \/ over = None THEN None
        ELSE IF \E x \in DOMAIN base : base[x] = None THEN None
        ELSE MergeDocuments(base, over)
  BY Zenon DEF Document
<1>4. service.image = MergeTag /\ service.image # None => HasTag(document[s], "image")
  <2> SUFFICES ASSUME service.image = MergeTag, service.image # None, ~HasTag(document[s], "image")
               PROVE  FALSE
    OBVIOUS
  <2> DEFINE raw == document[s]
  <2>1. service.image = Key(raw, "image", None) BY <1>1 DEF ParseService
  <2>2. "image" \in DOMAIN raw /\ raw["image"].value = MergeTag /\ raw["image"].tag = "plain"
    BY <2>1 DEF Key, HasTag
  <2>3. IsValue("image", raw["image"].value) BY <1>1, <1>2, <2>2 DEF IsDocument
  <2>4. QED BY <2>2, <2>3 DEF IsValue
<1> HIDE DEF service, s, document
<1>5. CASE ~Pairs(tree, tree[i].dir)
  <2>1. document = base BY <1>3, <1>5
  <2>2. QED BY <1>1, <1>2, <1>4, <1>5, <2>1 DEF service, s
<1>6. CASE Pairs(tree, tree[i].dir)
  <2>1. ~tree[i].override
    <3>1. DOMAIN <<>> = {} OBVIOUS
    <3>2. QED BY <1>1, <1>3, <1>6, <3>1
  <2>2. base # None /\ over # None /\ document = MergeDocuments(base, over) BY <1>2, <1>3, <1>6, <2>1
  <2>3. j \in DOMAIN tree /\ tree[j].type = "compose" /\ tree[j].dir = tree[i].dir
    BY <1>6, OverrideOfPair DEF ComposeIn
  <2> HIDE DEF j
  <2>4. \A x \in DOMAIN base : base[x] # None BY <1>2, <1>3, <1>6, <2>1
  <2> DEFINE names == {x \in DOMAIN base \cup DOMAIN over : x \in DOMAIN over => over[x] # None}
  <2>5. /\ DOMAIN MergeDocuments(base, over) = names
        /\ \A x \in names :
              MergeDocuments(base, over)[x] =
                 IF x \notin DOMAIN over THEN base[x]
                 ELSE MergeService(IF x \in DOMAIN base THEN base[x] ELSE <<>>, over[x])
    BY Zenon DEF MergeDocuments
  <2>6. s \in DOMAIN base \cup DOMAIN over BY <1>1, <2>2, <2>5
  <2>7. ASSUME HasTag(document[s], "image")
        PROVE  s \in DOMAIN base /\ HasTag(base[s], "image")
    <3>1. CASE s \notin DOMAIN over
      <4>1. document[s] = base[s] BY <1>1, <2>2, <2>5, <3>1
      <4>2. QED BY <2>6, <2>7, <3>1, <4>1
    <3>2. CASE s \in DOMAIN over
      <4> DEFINE b == IF s \in DOMAIN base THEN base[s] ELSE <<>>
      <4>1. document[s] = MergeService(b, over[s]) BY <1>1, <2>2, <2>5, <3>2
      <4>2. HasTag(b, "image") BY <2>7, <4>1, TagSurvives
      <4>3. "image" \notin DOMAIN <<>> OBVIOUS
      <4>4. QED BY <4>2, <4>3 DEF HasTag
    <3>3. QED BY <3>1, <3>2
  <2>8. QED BY <1>4, <1>6, <2>1, <2>2, <2>3, <2>4, <2>6, <2>7 DEF service, s
<1>7. QED BY <1>5, <1>6

------------------------------------------------------------------------------
\* Components and who owns a directory

IsRooted(components) ==
    /\ IsSequence(components)
    /\ \A k \in DOMAIN components : components[k].root # None => IsSequence(components[k].root)

\* Only a component with a root owns anything.
LEMMA OwnerHasRoot ==
    ASSUME NEW components, IsRooted(components), NEW dir, Owner(dir, components) # None
    PROVE  \E k \in DOMAIN components :
              components[k].root # None /\ components[k].id = Owner(dir, components)
<1> DEFINE owners == {k \in DOMAIN components :
                         components[k].root # None /\ RootHolds(components[k].root, dir)}
           longest == {k \in owners : \A l \in owners : Len(components[l].root) <= Len(components[k].root)}
           h == [k \in owners |-> Len(components[k].root)]
           n == Len(components)
<1>1. Owner(dir, components) = IF owners = {} THEN None ELSE components[Min(longest)].id
  BY Zenon DEF Owner
<1>2. owners # {} BY <1>1
<1>3. n \in Nat /\ DOMAIN components = 1..n BY SequencePlaces DEF IsRooted
<1>4. owners \in SUBSET (1..n) /\ \A k \in owners : components[k].root # None BY <1>3
<1>5. \A k \in owners : Len(components[k].root) \in Nat
  BY <1>3, <1>4, SequencePlaces DEF IsRooted
<1> HIDE DEF owners
<1>6. h \in [owners -> Nat] /\ \A k \in owners : h[k] = Len(components[k].root) BY <1>5
<1> HIDE DEF h
<1>7. \E k \in owners : \A l \in owners : h[l] <= h[k] BY <1>2, <1>3, <1>4, <1>6, GreatestValue
<1>8. longest # {} BY <1>6, <1>7
<1>9. longest \subseteq owners OBVIOUS
<1>13. \A k \in owners : k \in Nat BY <1>3, <1>4
<1> HIDE DEF longest
<1>12. longest \in SUBSET Nat BY <1>9, <1>13
<1>10. Min(longest) \in longest BY <1>8, <1>12, LeastPosition
<1>11. QED BY <1>1, <1>2, <1>3, <1>4, <1>9, <1>10

LEMMA ContextIsSequence ==
    ASSUME NEW ev, IsSequence(ev), \A p \in FactsOf(ev, "compose_build_context") : IsSequence(ev[p].value.value),
           NEW service, BuildContext(ev, service) # None
    PROVE  IsSequence(BuildContext(ev, service))
<1> DEFINE contexts == {i \in FactsOf(ev, "compose_build_context") : ev[i].value.service = service}
<1>1. BuildContext(ev, service) = IF contexts = {} THEN None ELSE ev[Max(contexts)].value.value
  BY Zenon DEF BuildContext
<1>2. contexts \subseteq FactsOf(ev, "compose_build_context") OBVIOUS
<1> HIDE DEF contexts
<1>3. Len(ev) \in Nat /\ contexts \in SUBSET (0..Len(ev))
  BY <1>2, SequencePlaces DEF FactsOf
<1>4. contexts # {} BY <1>1
<1>5. Max(contexts) \in contexts BY <1>3, <1>4, GreatestPosition
<1>6. QED BY <1>1, <1>2, <1>4, <1>5

\* A function on the places of a sequence.
LEMMA SequenceFrom ==
    ASSUME NEW s, IsSequence(s), NEW f, f = [k \in DOMAIN s |-> f[k]]
    PROVE  /\ IsSequence(f) /\ DOMAIN f = DOMAIN s
           /\ \A k \in DOMAIN s : f[k] \in ToSet(f)
           /\ \A e \in ToSet(f) : \E k \in DOMAIN s : e = f[k]
  BY SequenceOn, SequencePlaces

LEMMA ComposeComponentsOf ==
    ASSUME NEW ev, IsSequence(ev)
    PROVE  /\ IsSequence(ComposeComponents(ev))
           /\ \A c \in ToSet(ComposeComponents(ev)) :
                 \E p \in FactsOf(ev, "compose_service") :
                    c = Component(<<ev[p].value>>, BuildContext(ev, ev[p].value), {p})
           /\ \A j, k \in DOMAIN ComposeComponents(ev) :
                 (j # k /\ ComposeComponents(ev)[j].id = ComposeComponents(ev)[k].id) =>
                    \E p, q \in FactsOf(ev, "compose_service") : p # q /\ ev[p].value = ev[q].value
<1> DEFINE F == FactsOf(ev, "compose_service")
           facts == InOrder(F)
           Of1(p) == Component(<<ev[p].value>>, BuildContext(ev, ev[p].value), {p})
           whole == ComposeComponents(ev)
<1>1. whole = [k \in DOMAIN facts |-> Of1(facts[k])] BY Zenon DEF ComposeComponents
<1>2. F \in SUBSET Nat /\ IsFiniteSet(F) BY FactPlacesOf DEF FactPlaces
<1>3. \A p : Of1(p).id = <<ev[p].value>> BY DEF Component
<1> HIDE DEF F, whole, Of1
<1>4. IsSequence(facts) /\ ToSet(facts) = F BY <1>2, SequenceInOrder
<1>5. \A j, k \in DOMAIN facts : facts[j] = facts[k] => j = k
  <2>1. /\ Cardinality(F) \in Nat /\ facts \in [1..Cardinality(F) -> F]
        /\ \A m, n \in 1..Cardinality(F) : m < n <=> facts[m] < facts[n]
    BY <1>2, InOrderMembers
  <2> HIDE DEF facts
  <2> SUFFICES ASSUME NEW j \in DOMAIN facts, NEW k \in DOMAIN facts, facts[j] = facts[k] PROVE j = k OBVIOUS
  <2>2. j \in 1..Cardinality(F) /\ k \in 1..Cardinality(F) /\ facts[j] \in Nat BY <1>2, <2>1
  <2>3. ~(facts[j] < facts[k]) /\ ~(facts[k] < facts[j]) BY <2>2
  <2>4. ~(j < k) /\ ~(k < j) BY <2>1, <2>2, <2>3
  <2>5. QED BY <2>1, <2>2, <2>4
<1> HIDE DEF facts
<1>6. \A k \in DOMAIN facts : whole[k] = Of1(facts[k]) BY <1>1
<1>7. whole = [k \in DOMAIN facts |-> whole[k]] BY <1>1, <1>6
<1>8. /\ IsSequence(whole) /\ DOMAIN whole = DOMAIN facts
      /\ \A e \in ToSet(whole) : \E k \in DOMAIN facts : e = whole[k]
  BY <1>4, <1>7, SequenceFrom
<1>9. \A k \in DOMAIN facts : facts[k] \in F BY <1>4, SequencePlaces
<1>10. \A c \in ToSet(whole) : \E p \in F : c = Of1(p) BY <1>6, <1>8, <1>9
<1>11. ASSUME NEW j \in DOMAIN whole, NEW k \in DOMAIN whole, j # k, whole[j].id = whole[k].id
       PROVE  \E p, q \in F : p # q /\ ev[p].value = ev[q].value
  <2>1. facts[j] \in F /\ facts[k] \in F /\ facts[j] # facts[k] BY <1>5, <1>8, <1>9, <1>11
  <2>2. <<ev[facts[j]].value>> = <<ev[facts[k]].value>> BY <1>3, <1>6, <1>8, <1>11
  <2>3. ev[facts[j]].value = ev[facts[k]].value BY <2>2
  <2>4. QED BY <2>1, <2>3
<1>12. QED BY <1>8, <1>10, <1>11 DEF F, whole, Of1

LEMMA PackageComponentsOf ==
    ASSUME NEW ev, IsSequence(ev), \A p \in DOMAIN ev : IsSequence(ev[p].dir)
    PROVE  /\ IsSequence(PackageComponents(ev))
           /\ \A c \in ToSet(PackageComponents(ev)) : IsSequence(c.root)
<1> DEFINE IsManifest(i) == ev[i].type \in PackageManifestFacts
           F == {i \in DOMAIN ev : /\ IsManifest(i)
                                   /\ ~ \E j \in 1..(i - 1) : IsManifest(j) /\ ev[j].dir = ev[i].dir}
           firsts == InOrder(F)
           Of1(p) == Component(IdOfRoot(ev[p].dir), ev[p].dir, {p})
           whole == PackageComponents(ev)
<1>1. whole = [k \in DOMAIN firsts |-> Of1(firsts[k])] BY Zenon DEF PackageComponents
<1>2. F \in SUBSET Nat /\ IsFiniteSet(F) /\ F \subseteq DOMAIN ev BY SequencePlaces
<1>3. \A p : Of1(p).root = ev[p].dir BY DEF Component
<1> HIDE DEF F, whole, Of1
<1>4. IsSequence(firsts) /\ ToSet(firsts) = F BY <1>2, SequenceInOrder
<1> HIDE DEF firsts
<1>5. \A k \in DOMAIN firsts : whole[k] = Of1(firsts[k]) BY <1>1
<1>6. whole = [k \in DOMAIN firsts |-> whole[k]] BY <1>1, <1>5
<1>7. IsSequence(whole) /\ \A e \in ToSet(whole) : \E k \in DOMAIN firsts : e = whole[k]
  BY <1>4, <1>6, SequenceFrom
<1>8. \A k \in DOMAIN firsts : IsSequence(whole[k].root)
  <2> TAKE k \in DOMAIN firsts
  <2>1. firsts[k] \in DOMAIN ev BY <1>2, <1>4, SequencePlaces
  <2>2. whole[k].root = ev[firsts[k]].dir BY <1>3, <1>5
  <2>3. QED BY <2>1, <2>2
<1>9. QED BY <1>7, <1>8 DEF whole

\* A selection in which no two places have the id of another.
FirstById(s, free) == {k \in free : ~ \E j \in free : j < k /\ s[j].id = s[k].id}

LEMMA SelectedIds ==
    ASSUME NEW s, IsSequence(s), NEW free \in SUBSET DOMAIN s, NEW chosen, chosen = FirstById(s, free)
    PROVE  /\ IsSequence(At(s, chosen)) /\ ToSet(At(s, chosen)) = {s[k] : k \in chosen}
           /\ \A j, k \in DOMAIN At(s, chosen) : At(s, chosen)[j].id = At(s, chosen)[k].id => j = k
<1>1. chosen \in SUBSET DOMAIN s /\ chosen \in SUBSET Nat /\ IsFiniteSet(chosen)
  BY SequencePlaces DEF FirstById
<1>2. \A j, k \in chosen : s[j].id = s[k].id => ~(j < k) BY DEF FirstById
<1> DEFINE selected == At(s, chosen)
           n == Cardinality(chosen)
           order == InOrder(chosen)
<1>3. IsSequence(selected) /\ ToSet(selected) = {s[k] : k \in chosen} BY <1>1, SequenceAt
<1>4. /\ n \in Nat /\ DOMAIN selected = 1..n
      /\ \A k \in 1..n : order[k] \in chosen /\ selected[k] = s[order[k]]
  BY <1>1, AtMembers
<1>5. \A j, k \in 1..n : j < k <=> order[j] < order[k] BY <1>1, InOrderMembers
<1> HIDE DEF selected, order, n
<1>6. \A j, k \in DOMAIN selected : selected[j].id = selected[k].id => j = k
  <2> SUFFICES ASSUME NEW j \in 1..n, NEW k \in 1..n, selected[j].id = selected[k].id PROVE j = k
    BY <1>4
  <2>1. ~(order[j] < order[k]) /\ ~(order[k] < order[j]) BY <1>2, <1>4
  <2>2. ~(j < k) /\ ~(k < j) BY <1>5, <2>1
  <2>3. QED BY <1>4, <2>2
<1>7. QED BY <1>3, <1>6 DEF selected

\* What the owner of a directory and the duplicates of an id rest on.
IsEvidence(ev) ==
    /\ IsSequence(ev)
    /\ \A p \in DOMAIN ev : IsSequence(ev[p].dir)
    /\ \A p \in FactsOf(ev, "compose_build_context") : IsSequence(ev[p].value.value)

StatedTwice(ev) == \E p, q \in FactsOf(ev, "compose_service") : p # q /\ ev[p].value = ev[q].value

LEMMA ComponentsOf ==
    ASSUME NEW ev, IsEvidence(ev)
    PROVE  /\ IsRooted(Components(ev))
           /\ \A c \in ToSet(Components(ev)) : c.id \in ToSet(Ids)
           /\ \A c, d \in ToSet(Components(ev)) : c.id = d.id => c.root = d.root
           /\ \A j, k \in DOMAIN Components(ev) :
                 (j # k /\ Components(ev)[j].id = Components(ev)[k].id) => StatedTwice(ev)
<1> DEFINE compose == ComposeComponents(ev)
           packages == PackageComponents(ev)
           claimed == {c.root : c \in ToSet(compose)} \ {None}
           free == {k \in DOMAIN packages :
                       packages[k].root \notin claimed /\ packages[k].id \notin {c.id : c \in ToSet(compose)}}
           added == {k \in free : ~ \E j \in free : j < k /\ packages[j].id = packages[k].id}
           selected == At(packages, added)
           all == compose \o selected
           sorted == Components(ev)
<1>1. sorted = SortedById(all) BY Zenon DEF Components
<1>2. IsSequence(ev) BY DEF IsEvidence
<1>3. /\ IsSequence(compose)
      /\ \A c \in ToSet(compose) : \E p \in FactsOf(ev, "compose_service") :
            c = Component(<<ev[p].value>>, BuildContext(ev, ev[p].value), {p})
      /\ \A j, k \in DOMAIN compose : (j # k /\ compose[j].id = compose[k].id) => StatedTwice(ev)
  BY <1>2, ComposeComponentsOf DEF StatedTwice
<1>4. IsSequence(packages) /\ \A c \in ToSet(packages) : IsSequence(c.root)
  BY PackageComponentsOf DEF IsEvidence
<1>5. free \in SUBSET DOMAIN packages
      /\ \A k \in free : \A c \in ToSet(compose) : packages[k].id # c.id
  OBVIOUS
<1> HIDE DEF sorted, compose, packages, free
<1>6. added = FirstById(packages, free) BY Zenon DEF FirstById
<1>7. added \subseteq free OBVIOUS
<1> HIDE DEF added
<1>8. /\ IsSequence(selected) /\ ToSet(selected) = {packages[k] : k \in added}
      /\ \A j, k \in DOMAIN selected : selected[j].id = selected[k].id => j = k
  BY <1>4, <1>5, <1>6, SelectedIds
<1> HIDE DEF selected
<1>9. \A c \in ToSet(selected) : IsSequence(c.root) /\ \A d \in ToSet(compose) : c.id # d.id
  <2> TAKE c \in ToSet(selected)
  <2>1. PICK k \in added : c = packages[k] BY <1>8
  <2>2. k \in free /\ k \in DOMAIN packages BY <1>5, <1>7
  <2>3. c \in ToSet(packages) BY <1>4, <2>1, <2>2, SequencePlaces
  <2>4. QED BY <1>4, <1>5, <2>1, <2>2, <2>3
<1>10. /\ IsSequence(all) /\ ToSet(all) = ToSet(compose) \cup ToSet(selected)
       /\ \A k \in DOMAIN compose : k \in DOMAIN all /\ all[k] = compose[k]
       /\ \A k \in DOMAIN selected : Len(compose) + k \in DOMAIN all /\ all[Len(compose) + k] = selected[k]
       /\ \A k \in DOMAIN all : k \notin DOMAIN compose => k - Len(compose) \in DOMAIN selected
  BY <1>3, <1>8, SequenceJoined
<1> HIDE DEF all
<1>11. ASSUME NEW k \in DOMAIN all, k \notin DOMAIN compose
       PROVE  /\ k - Len(compose) \in DOMAIN selected /\ all[k] = selected[k - Len(compose)]
              /\ k \in Nat /\ Len(compose) \in Nat
  <2>1. k \in Nat /\ Len(compose) \in Nat BY <1>3, <1>10, SequencePlaces
  <2>2. Len(compose) + (k - Len(compose)) = k BY <2>1
  <2>3. k - Len(compose) \in DOMAIN selected BY <1>10, <1>11
  <2>4. QED BY <1>10, <2>1, <2>2, <2>3
<1>12. ASSUME NEW j \in DOMAIN all, NEW k \in DOMAIN all, j # k, all[j].id = all[k].id
       PROVE  StatedTwice(ev)
  <2>1. CASE j \in DOMAIN compose /\ k \in DOMAIN compose BY <1>3, <1>10, <1>12, <2>1
  <2>2. CASE j \in DOMAIN compose /\ k \notin DOMAIN compose
    <3>1. all[j] \in ToSet(compose) /\ all[k] \in ToSet(selected)
      BY <1>3, <1>8, <1>10, <1>11, <2>2, SequencePlaces
    <3>2. QED BY <1>9, <1>12, <3>1
  <2>3. CASE j \notin DOMAIN compose /\ k \in DOMAIN compose
    <3>1. all[k] \in ToSet(compose) /\ all[j] \in ToSet(selected)
      BY <1>3, <1>8, <1>10, <1>11, <2>3, SequencePlaces
    <3>2. QED BY <1>9, <1>12, <3>1
  <2>4. CASE j \notin DOMAIN compose /\ k \notin DOMAIN compose
    <3>1. j - Len(compose) = k - Len(compose) BY <1>8, <1>11, <1>12, <2>4
    <3>2. QED BY <1>11, <1>12, <2>4, <3>1
  <2>5. QED BY <2>1, <2>2, <2>3, <2>4
<1>13. \A c \in ToSet(compose) : \E p \in FactsOf(ev, "compose_service") :
          c.id = <<ev[p].value>> /\ c.root = BuildContext(ev, ev[p].value)
  BY <1>3 DEF Component
<1>14. \A c \in ToSet(all) : c.root # None => IsSequence(c.root)
  <2>1. \A c \in ToSet(compose) : c.root # None => IsSequence(c.root)
    BY <1>2, <1>13, ContextIsSequence DEF IsEvidence
  <2>2. QED BY <1>9, <1>10, <2>1
<1>15. ASSUME NEW c \in ToSet(all), NEW d \in ToSet(all), c.id = d.id PROVE c.root = d.root
  <2>1. CASE c \in ToSet(compose) /\ d \in ToSet(compose)
    <3>1. PICK p \in FactsOf(ev, "compose_service") :
             c.id = <<ev[p].value>> /\ c.root = BuildContext(ev, ev[p].value)
      BY <1>13, <2>1
    <3>2. PICK q \in FactsOf(ev, "compose_service") :
             d.id = <<ev[q].value>> /\ d.root = BuildContext(ev, ev[q].value)
      BY <1>13, <2>1
    <3>3. <<ev[p].value>> = <<ev[q].value>> BY <1>15, <3>1, <3>2
    <3>4. ev[p].value = ev[q].value BY <3>3
    <3>5. QED BY <3>1, <3>2, <3>4
  <2>2. CASE c \in ToSet(selected) /\ d \in ToSet(selected)
    <3>1. PICK j \in DOMAIN selected : c = selected[j] BY <1>8, <2>2, SequencePlaces
    <3>2. PICK k \in DOMAIN selected : d = selected[k] BY <1>8, <2>2, SequencePlaces
    <3>3. j = k BY <1>8, <1>15, <3>1, <3>2
    <3>4. QED BY <3>1, <3>2, <3>3
  <2>3. QED BY <1>9, <1>10, <1>15, <2>1, <2>2
<1>16. /\ IsSequence(sorted) /\ ToSet(sorted) = {c \in ToSet(all) : c.id \in ToSet(Ids)}
  BY <1>1, <1>10, SortedMembers
<1>17. PICK from : IsSelection(sorted, all, from) BY <1>1, <1>10, SortedPlaces
<1>18. ASSUME NEW j \in DOMAIN sorted, NEW k \in DOMAIN sorted, j # k, sorted[j].id = sorted[k].id
       PROVE  StatedTwice(ev)
  <2>1. /\ from[j] \in DOMAIN all /\ from[k] \in DOMAIN all /\ from[j] # from[k]
        /\ all[from[j]].id = all[from[k]].id
    BY <1>17, <1>18 DEF IsSelection
  <2>2. QED BY <1>12, <2>1
<1>19. IsRooted(sorted) BY <1>14, <1>16, SequencePlaces DEF IsRooted
<1>20. QED BY <1>15, <1>16, <1>18, <1>19 DEF sorted

------------------------------------------------------------------------------
\* The candidates of the other kinds

\* One candidate for each of a set of facts.
LEMMA CandidatesInOrder ==
    ASSUME NEW S \in SUBSET Nat, IsFiniteSet(S), NEW f, f = [k \in DOMAIN InOrder(S) |-> f[k]]
    PROVE  /\ IsSequence(f)
           /\ \A e \in ToSet(f) : \E k \in DOMAIN InOrder(S) : InOrder(S)[k] \in S /\ e = f[k]
           /\ \A i \in S : \E k \in DOMAIN InOrder(S) : InOrder(S)[k] = i /\ f[k] \in ToSet(f)
<1> DEFINE order == InOrder(S)
<1>1. IsSequence(order) /\ ToSet(order) = S BY SequenceInOrder
<1> HIDE DEF order
<1>2. f = [k \in DOMAIN order |-> f[k]] BY DEF order
<1>3. /\ IsSequence(f) /\ \A k \in DOMAIN order : f[k] \in ToSet(f)
      /\ \A e \in ToSet(f) : \E k \in DOMAIN order : e = f[k]
  BY <1>1, <1>2, SequenceFrom
<1>4. /\ \A k \in DOMAIN order : order[k] \in S
      /\ \A i \in S : \E k \in DOMAIN order : i = order[k]
  BY <1>1, SequencePlaces
<1>5. QED BY <1>3, <1>4 DEF order

IsExposed(ev, components, c) ==
    \E i \in FactsOf(ev, "dockerfile_expose") :
        c.refs = {i} /\ c.id = Owner(ev[i].dir, components) /\ c.id # None

IsMapped(ev, c) ==
    \E i \in FactsOf(ev, "compose_port") :
        /\ c.refs = {i} /\ c.id = <<ev[i].value.service>>
        /\ c.port = ev[i].value.value /\ c.port # None

LEMMA PortCandidatesOf ==
    ASSUME NEW ev, IsSequence(ev), NEW components
    PROVE  /\ IsSequence(PortCandidates(ev, components))
           /\ \A c \in ToSet(PortCandidates(ev, components)) :
                 (IsExposed(ev, components, c) \/ IsMapped(ev, c)) /\ \E i \in DOMAIN ev : c.refs = {i}
           /\ \A i \in FactsOf(ev, "compose_port") : ev[i].value.value # None =>
                 \E c \in ToSet(PortCandidates(ev, components)) :
                    c.id = <<ev[i].value.service>> /\ c.port = ev[i].value.value
<1> DEFINE E == {i \in FactsOf(ev, "dockerfile_expose") : Owner(ev[i].dir, components) # None}
           M == {i \in FactsOf(ev, "compose_port") : ev[i].value.value # None}
           Exposed(i) == [id |-> Owner(ev[i].dir, components), port |-> ev[i].value,
                          confidence |-> "high", refs |-> {i}]
           Mapped(i) == [id |-> <<ev[i].value.service>>, port |-> ev[i].value.value,
                         confidence |-> "medium", refs |-> {i}]
           first == [k \in DOMAIN InOrder(E) |-> Exposed(InOrder(E)[k])]
           second == [k \in DOMAIN InOrder(M) |-> Mapped(InOrder(M)[k])]
           whole == PortCandidates(ev, components)
<1>1. whole = first \o second BY Zenon DEF PortCandidates
<1>2. E \in SUBSET Nat /\ IsFiniteSet(E) /\ M \in SUBSET Nat /\ IsFiniteSet(M)
      /\ E \subseteq DOMAIN ev /\ M \subseteq DOMAIN ev
  BY FactPlacesOf, FS_Subset DEF FactPlaces
<1>3. \A i \in E : IsExposed(ev, components, Exposed(i)) /\ Exposed(i).refs = {i}
  BY DEF IsExposed
<1>4. \A i \in M : /\ IsMapped(ev, Mapped(i)) /\ Mapped(i).refs = {i}
                   /\ Mapped(i).id = <<ev[i].value.service>> /\ Mapped(i).port = ev[i].value.value
  BY DEF IsMapped
<1>5. M = {i \in FactsOf(ev, "compose_port") : ev[i].value.value # None} OBVIOUS
<1> HIDE DEF whole, E, M, Exposed, Mapped
<1>6. first = [k \in DOMAIN InOrder(E) |-> first[k]]
      /\ \A k \in DOMAIN InOrder(E) : first[k] = Exposed(InOrder(E)[k])
  BY Zenon
<1>7. second = [k \in DOMAIN InOrder(M) |-> second[k]]
      /\ \A k \in DOMAIN InOrder(M) : second[k] = Mapped(InOrder(M)[k])
  BY Zenon
<1> HIDE DEF first, second
<1>8. IsSequence(first) /\ \A e \in ToSet(first) : \E i \in E : e = Exposed(i)
  BY <1>2, <1>6, CandidatesInOrder
<1>9. /\ IsSequence(second) /\ \A e \in ToSet(second) : \E i \in M : e = Mapped(i)
      /\ \A i \in M : Mapped(i) \in ToSet(second)
  BY <1>2, <1>7, CandidatesInOrder
<1>10. IsSequence(whole) /\ ToSet(whole) = ToSet(first) \cup ToSet(second)
  BY <1>1, <1>8, <1>9, SequenceJoined
<1>11. ASSUME NEW c \in ToSet(whole)
       PROVE  (IsExposed(ev, components, c) \/ IsMapped(ev, c)) /\ \E i \in DOMAIN ev : c.refs = {i}
  <2>1. CASE c \in ToSet(first)
    <3>1. PICK i \in E : c = Exposed(i) BY <1>8, <2>1
    <3>2. i \in DOMAIN ev BY <1>2
    <3>3. QED BY <1>3, <3>1, <3>2
  <2>2. CASE c \in ToSet(second)
    <3>1. PICK i \in M : c = Mapped(i) BY <1>9, <2>2
    <3>2. i \in DOMAIN ev BY <1>2
    <3>3. QED BY <1>4, <3>1, <3>2
  <2>3. QED BY <1>10, <2>1, <2>2
<1>12. ASSUME NEW i \in FactsOf(ev, "compose_port"), ev[i].value.value # None
       PROVE  \E c \in ToSet(whole) : c.id = <<ev[i].value.service>> /\ c.port = ev[i].value.value
  <2>1. i \in M BY <1>5, <1>12
  <2>2. QED BY <1>4, <1>9, <1>10, <2>1
<1>13. QED BY <1>10, <1>11, <1>12 DEF whole

LEMMA RoleCandidatesOf ==
    ASSUME NEW ev, IsSequence(ev)
    PROVE  IsSequence(RoleCandidates(ev))
<1> DEFINE B == FactsOf(ev, "compose_build_context")
           M == {i \in FactsOf(ev, "compose_image") : ev[i].value.value \in DependencyImages \cup InfraImages}
           Built(i) == [id |-> <<ev[i].value.service>>, role |-> "application",
                        confidence |-> "medium", refs |-> {i}]
           Imaged(i) == [id |-> <<ev[i].value.service>>,
                         role |-> IF ev[i].value.value \in DependencyImages THEN "dependency" ELSE "infrastructure",
                         confidence |-> "high", refs |-> {i}]
           first == [k \in DOMAIN InOrder(B) |-> Built(InOrder(B)[k])]
           second == [k \in DOMAIN InOrder(M) |-> Imaged(InOrder(M)[k])]
           whole == RoleCandidates(ev)
<1>1. whole = first \o second BY Zenon DEF RoleCandidates
<1>2. B \in SUBSET Nat /\ IsFiniteSet(B) /\ M \in SUBSET Nat /\ IsFiniteSet(M)
  BY FactPlacesOf, FS_Subset DEF FactPlaces
<1> HIDE DEF whole, B, M, Built, Imaged
<1>3. first = [k \in DOMAIN InOrder(B) |-> first[k]] BY Zenon
<1>4. second = [k \in DOMAIN InOrder(M) |-> second[k]] BY Zenon
<1> HIDE DEF first, second
<1>5. IsSequence(first) /\ IsSequence(second) BY <1>2, <1>3, <1>4, CandidatesInOrder
<1>6. IsSequence(whole) BY <1>1, <1>5, SequenceJoined
<1>7. QED BY <1>6 DEF whole

\* A runtime is a framework's or Maven's of a file some component owns.
LEMMA RuntimeCandidatesOf ==
    ASSUME NEW ev, IsSequence(ev), NEW components, IsRooted(components),
           \A c \in ToSet(components) : c.id # None
    PROVE  /\ IsSequence(RuntimeCandidates(ev, components))
           /\ \A c \in ToSet(RuntimeCandidates(ev, components)) :
                 \E k \in DOMAIN components : components[k].root # None /\ components[k].id = c.id
<1> DEFINE M == {i \in FactsOf(ev, "maven_packaging") : Owner(ev[i].dir, components) # None}
           maven == InOrder(M)
           PackagesOf(id) == {ev[i].value : i \in {j \in FactsOf(ev, "package_dependency") :
                                                       Owner(ev[j].dir, components) = id}}
           RootOf(id) == components[Max({k \in DOMAIN components : components[k].id = id})].root
           Runtime(id, language, framework, fact) ==
               [id |-> id, language |-> language, framework |-> framework,
                strategy |-> BuildStrategy(ev, RootOf(id)), refs |-> {fact}]
           FactFor(id, package) ==
               Min({i \in FactsOf(ev, "package_dependency") :
                       Owner(ev[i].dir, components) = id /\ ev[i].value = package})
           F == {k \in DOMAIN components : PackagesOf(components[k].id) \cap ToSet(Frameworks) # {}}
           framed == At(components, F)
           FrameworkOf(id) == Frameworks[Min({n \in DOMAIN Frameworks : Frameworks[n] \in PackagesOf(id)})]
           Maven(i) == Runtime(Owner(ev[i].dir, components), "java", None, i)
           Framed(id) == Runtime(id, IF FrameworkOf(id) = "fastapi" THEN "python" ELSE "nodejs",
                                 FrameworkOf(id), FactFor(id, FrameworkOf(id)))
           first == [k \in DOMAIN maven |-> Maven(maven[k])]
           second == [k \in DOMAIN framed |-> Framed(framed[k].id)]
           whole == RuntimeCandidates(ev, components)
           Rooted(id) == \E k \in DOMAIN components : components[k].root # None /\ components[k].id = id
<1>1. whole = first \o second BY Zenon DEF RuntimeCandidates
<1>2. M \in SUBSET Nat /\ IsFiniteSet(M) BY FactPlacesOf, FS_Subset DEF FactPlaces
<1>3. \A i \in M : Rooted(Owner(ev[i].dir, components)) BY OwnerHasRoot
<1>4. \A id, language, framework, fact : Runtime(id, language, framework, fact).id = id
  OBVIOUS
<1>5. (\A i : Maven(i).id = Owner(ev[i].dir, components)) /\ \A id : Framed(id).id = id
  <2> HIDE DEF Runtime, FrameworkOf, FactFor
  <2>1. QED BY <1>4
<1>6. F \in SUBSET DOMAIN components
      /\ \A k \in F : \E j \in FactsOf(ev, "package_dependency") : Owner(ev[j].dir, components) = components[k].id
  OBVIOUS
<1>7. ASSUME NEW k \in F PROVE Rooted(components[k].id)
  <2>1. components[k] \in ToSet(components) BY <1>6, SequencePlaces DEF IsRooted
  <2>2. PICK j \in FactsOf(ev, "package_dependency") : Owner(ev[j].dir, components) = components[k].id
    BY <1>6
  <2>3. Owner(ev[j].dir, components) # None BY <2>1, <2>2
  <2>4. QED BY <2>2, <2>3, OwnerHasRoot
<1> HIDE DEF whole, M, F, Maven, Framed
<1>8. IsSequence(framed) /\ ToSet(framed) = {components[k] : k \in F} BY <1>6, SequenceAt DEF IsRooted
<1> HIDE DEF framed
<1>9. first = [k \in DOMAIN maven |-> first[k]] /\ \A k \in DOMAIN maven : first[k] = Maven(maven[k])
  BY Zenon
<1>10. second = [k \in DOMAIN framed |-> second[k]] /\ \A k \in DOMAIN framed : second[k] = Framed(framed[k].id)
  BY Zenon
<1> HIDE DEF first, second
<1>11. IsSequence(first) /\ \A e \in ToSet(first) : \E i \in M : e = Maven(i)
  BY <1>2, <1>9, CandidatesInOrder
<1>12. IsSequence(second) /\ \A e \in ToSet(second) : \E k \in DOMAIN framed : e = second[k]
  BY <1>8, <1>10, SequenceFrom
<1>13. IsSequence(whole) /\ ToSet(whole) = ToSet(first) \cup ToSet(second)
  BY <1>1, <1>11, <1>12, SequenceJoined
<1>14. \A e \in ToSet(first) : Rooted(e.id) BY <1>3, <1>5, <1>11
<1>15. \A e \in ToSet(second) : Rooted(e.id)
  <2> TAKE e \in ToSet(second)
  <2>1. PICK n \in DOMAIN framed : e = Framed(framed[n].id) BY <1>10, <1>12
  <2>2. framed[n] \in ToSet(framed) BY <1>8, SequencePlaces
  <2>3. PICK k \in F : framed[n] = components[k] BY <1>8, <2>2
  <2>4. e.id = components[k].id BY <1>5, <2>1, <2>3
  <2>5. QED BY <1>7, <2>4
<1>16. QED BY <1>13, <1>14, <1>15 DEF whole

=================================================================================
