------------------------------- MODULE Queries -------------------------------
(***************************************************************************)
(* Resolution of what the user typed to a project                          *)
(* (workspace-core/src/search.rs, resolve in workspace-daemon's actor.rs). *)
(*                                                                         *)
(* A project is abstracted to how it relates to the query: a record        *)
(* [id, exact, prefix, slug, name], the last two the scores that the fuzzy *)
(* matcher (a library) gives its slug and its name, NoScore for no match.  *)
(***************************************************************************)
EXTENDS Naturals, Sequences, FiniteSets, SequencesExt, FiniteSetsExt, Lists

CONSTANT NoScore

\* Plain scores of a project or a window, the best of its two texts.
ScoresOf(p) == {p.slug, p.name} \ {NoScore}
Scored(ps) == Only(ps, {p \in ToSet(ps) : ScoresOf(p) # {}})
Best(p) == Max(ScoresOf(p))

\* sort_by_key with Reverse: best first, in the given order within ties.
BestFirst(ps) ==
    LET above == {p \in (DOMAIN ps) \X (DOMAIN ps) :
                     \/ Best(ps[p[1]]) > Best(ps[p[2]])
                     \/ Best(ps[p[1]]) = Best(ps[p[2]]) /\ p[1] < p[2]}
    IN  [k \in DOMAIN ps |-> ps[Sorted(DOMAIN ps, above)[k]]]

Match(p)      == [verdict |-> "match", of |-> <<p>>]
Ambiguous(ps) == [verdict |-> "ambiguous", of |-> ps]
NotFound      == [verdict |-> "not found", of |-> <<>>]

\* The best score against DECISIVE_RATIO (1.5) times the next.
Decisive(best, second) == 2 * best >= 3 * second

\* The best fuzzy match wins whatever follows it.
MutantByScore(ps) ==
    LET scored == BestFirst(Scored(ps))
    IN IF scored = <<>> THEN NotFound ELSE Match(scored[1])

ByScore(ps) ==
    LET scored == BestFirst(Scored(ps))
    IN IF scored = <<>> THEN NotFound
       ELSE IF Len(scored) = 1 THEN Match(scored[1])
       ELSE IF Decisive(Best(scored[1]), Best(scored[2])) THEN Match(scored[1])
       ELSE Ambiguous(scored)

\* resolve: exact slug, then unique prefix, then score.
Resolve(ps) ==
    LET exact    == Only(ps, {p \in ToSet(ps) : p.exact})
        prefixed == Only(ps, {p \in ToSet(ps) : p.prefix})
    IN IF exact # <<>> THEN Match(exact[1])
       ELSE IF Len(prefixed) = 1 THEN Match(prefixed[1])
       ELSE IF prefixed # <<>> THEN Ambiguous(prefixed)
       ELSE ByScore(ps)

\* The actor's resolve: what the caller of a request is told.
Reply(ps) ==
    LET r == Resolve(ps)
    IN CASE r.verdict = "match"     -> [ok |-> TRUE, candidates |-> r.of]
         [] r.verdict = "ambiguous" -> [ok |-> FALSE, candidates |-> r.of]
         [] OTHER                   -> [ok |-> FALSE, candidates |-> ps]

-----------------------------------------------------------------------------
\* p is clearly ahead of every other project.
ClearlyAhead(ps, p) ==
    /\ ScoresOf(p) # {}
    /\ \A q \in ToSet(ps) \ {p} :
          ScoresOf(q) = {} \/ (Best(p) > Best(q) /\ Decisive(Best(p), Best(q)))

\* A pattern without anything to look for scores 0 with every project it is
\* not refused by; the ratio then decides nothing.
NothingScores(ps) == \A q \in ToSet(Scored(ps)) : Best(q) = 0

\* "Anything else is ambiguous and reported with candidates rather than
\* guessed" (search.rs): a query means a project only by its slug, as the only
\* one with its prefix, or clearly ahead by score; and no project that may be
\* meant is missing from the candidates.
NotGuessed(ps) ==
    LET r == Resolve(ps)
        all == ToSet(ps)
        related == {q \in all : q.prefix}
    IN IF r.verdict = "match"
       THEN LET p == r.of[1]
            IN \/ p.exact
               \/ related = {p}
               \/ related = {} /\ (ClearlyAhead(ps, p) \/ NothingScores(ps))
       ELSE /\ \A q \in all : ~q.exact
            /\ Cardinality(related) # 1
            /\ (IF related # {} THEN related ELSE ToSet(Scored(ps)))
                  \subseteq ToSet(Reply(ps).candidates)

\* The order in which the daemon keeps its projects is no part of a query's
\* meaning.
OrderFree(ps) ==
    ~NothingScores(ps) =>
        \A qs \in SetToSeqs(ToSet(ps)) :
            LET r == Resolve(ps)
                s == Resolve(qs)
            IN r.verdict = s.verdict /\ (r.verdict = "match" => r.of = s.of)
=============================================================================
