---------------------------- MODULE ProjectOrder ----------------------------
(***************************************************************************)
(* The manual order of the projects, as the state actor keeps it           *)
(* (workspace-daemon/src/actor.rs): every project has a position, the list *)
(* is kept sorted by position and then by slug, and a new project goes     *)
(* last. A slug is a number, ordered as the slugs are.                     *)
(***************************************************************************)
EXTENDS Naturals, Sequences, FiniteSets, SequencesExt, FiniteSetsExt

CONSTANT MaxPosition \* the largest position: u32::MAX

ASSUME PositionAssumption == MaxPosition \in Nat

Before(p, q) ==
    p.position < q.position \/ (p.position = q.position /\ p.slug < q.slug)

SlugsOf(projects) == [i \in DOMAIN projects |-> projects[i].slug]
Known(projects) == ToSet(SlugsOf(projects))

InOrder(projects) == \A i, j \in DOMAIN projects : i < j => Before(projects[i], projects[j])

\* The list into which the daemon sorts a set of project files.
Loaded(files) ==
    CHOOSE list \in [1 .. Cardinality(files) -> files] : InOrder(list) /\ ToSet(list) = files

\* next_position: after everything else, unless that overflows. A release build
\* then starts again from 0; one that checks for overflow would panic.
NextPosition(projects) ==
    IF projects = <<>> THEN 0
    ELSE (Max({projects[i].position : i \in DOMAIN projects}) + 1) % (MaxPosition + 1)

\* The place `order` gives a slug; a slug listed twice gets its later place.
Place(order, slug) == Max({i \in DOMAIN order : order[i] = slug}) - 1

\* The unlisted projects that a stable sort by position puts before the i-th.
Ahead(projects, order, i) ==
    {j \in DOMAIN projects :
        /\ projects[j].slug \notin ToSet(order)
        /\ \/ projects[j].position < projects[i].position
           \/ projects[j].position = projects[i].position /\ j < i}

\* The others are numbered from 0 again.
MutantReorderedFromZero(projects, order) ==
    LET moved(i) ==
            [projects[i] EXCEPT !.position =
                IF projects[i].slug \in ToSet(order)
                THEN Place(order, projects[i].slug)
                ELSE Cardinality(Ahead(projects, order, i))]
    IN  Loaded({moved(i) : i \in DOMAIN projects})

\* project_reorder of a list it accepts: listed projects take the positions
\* 0.. in order, the others follow in the order they had.
Reordered(projects, order) ==
    LET moved(i) ==
            [projects[i] EXCEPT !.position =
                IF projects[i].slug \in ToSet(order)
                THEN Place(order, projects[i].slug)
                ELSE Len(order) + Cardinality(Ahead(projects, order, i))]
    IN  Loaded({moved(i) : i \in DOMAIN projects})

\* The positions project_reorder gives, one after another: a slug listed twice
\* gets two.
Assigned(projects, order) ==
    {[slug |-> order[i], position |-> i - 1] : i \in DOMAIN order}
    \cup {p \in ToSet(Reordered(projects, order)) : p.slug \notin ToSet(order)}

\* Only the listed projects are written.
MutantWritesListed(projects, order) ==
    Loaded({p \in ToSet(Reordered(projects, order)) \ ToSet(projects) : p.slug \in ToSet(order)})

\* `changed`: what a reorder writes, in the order of the positions. It is every
\* record that differs from what its project had at the time.
Writes(projects, order) ==
    LET assigned == Assigned(projects, order)
    IN  Loaded({p \in assigned :
                    \/ p \notin ToSet(projects)
                    \/ \E q \in assigned : q.slug = p.slug /\ q.position < p.position})

\* Of two slugs a list showed as `before`, the first is to go before the second
\* once `order` is applied: it is listed and the other's place is later or none,
\* or both are not and it went first already.
GoesFirst(slug, other, before, order) ==
    \/ /\ slug \in ToSet(order)
       /\ other \in ToSet(order) => Place(order, slug) < Place(order, other)
    \/ /\ {slug, other} \cap ToSet(order) = {}
       /\ \E i, j \in DOMAIN before : i < j /\ before[i] = slug /\ before[j] = other

\* What a reorder promises, without positions: the same slugs, the listed ones
\* first, each at its later place, then the others in the order they had.
Promised(before, order, after) ==
    /\ Len(after) = Len(before) /\ ToSet(after) = ToSet(before)
    /\ \A i, j \in DOMAIN after : i < j => GoesFirst(after[i], after[j], before, order)
=============================================================================
