-------------------------- MODULE StateActorProofs --------------------------
(* Proofs about StateActor, for every value of its constants. *)
EXTENDS StateActor, TLAPS

-----------------------------------------------------------------------------
(* The inductive invariant, restated over the pieces a handler changes: the  *)
(* projects, one window's annotation, and runtime.json.                      *)

ProjectsOK(ps, sp) ==
  /\ ps \subseteq ProjectType
  /\ \A p \in ps : p.hidden \subseteq p.groups
  /\ \A p \in ps : p.id \in sp
  /\ \A p, q \in ps : (p.slug = q.slug \/ p.id = q.id) => p = q

\* All that is required of an annotation but the group of an inherited one.
Sound(asg, ps, sp) ==
  /\ AnnotationOK(asg)
  /\ asg.pid \in sp \cup {NULL}
  /\ asg.pid \notin IdsOf(ps) \cup {NULL} => asg.by = "Restore"

GroupSound(asg, ps) ==
  asg.by = "Inherited" => \A p \in ps : asg.pid = p.id => asg.group \in p.groups \cup {NULL}

WindowOK(win, ps, sp) ==
  \/ win = NULL
  \/ win \in TrackedWindows /\ Sound(win.asg, ps, sp) /\ GroupSound(win.asg, ps)

WindowsOK(ws, ps, sp) ==
  /\ ws \in [Windows -> TrackedWindows \cup {NULL}]
  /\ \A w \in Windows : WindowOK(ws[w], ps, sp)

RuntimeOK(rt, ps) ==
  /\ rt \in RuntimeType
  /\ rt.active \subseteq SlugsOf(ps)
  /\ \A e \in rt.saved : e.project \in SlugsOf(ps)

RunsOK(rs, busy, sp) ==
  /\ rs \subseteq [pid : Ids, slug : Slugs, groups : SUBSET GroupOpt]
  /\ \A r \in rs : r.pid \in sp
  /\ busy = SlugsOf(rs)
  /\ busy \subseteq Slugs
  /\ \A r, q \in rs : r.slug = q.slug => r = q

Parts == /\ ProjectsOK(projects, spent)
         /\ WindowsOK(windows, projects, spent)
         /\ RuntimeOK(runtime, projects)
         /\ RunsOK(runs, restoring, spent)
         /\ recovery \in RuntimeType
         /\ disk = projects
         /\ active \in Ids \cup {NULL}
         /\ hydrated \in BOOLEAN
         /\ spent \subseteq Ids
         /\ restarts \in 0 .. MaxRestarts

\* The two forms of the invariant say the same.
LEMMA PartsForm == IInv <=> Parts
<1> USE DEF IInv, Parts, TypeOK, UniqueProjects, FilesMatchProjects, RestoreExclusive,
            OnlyRestoreDangles, RuntimeNamesLiveProjects, InheritedGroupExists, IdsSpent,
            ProjectsOK, WindowsOK, RuntimeOK, RunsOK, Tracked
<1>1. IInv => Parts
  <2> SUFFICES ASSUME IInv PROVE Parts
    OBVIOUS
  <2>1. ProjectsOK(projects, spent)
    BY DEF IdsOf
  <2>2. WindowsOK(windows, projects, spent)
    <3>1. ASSUME NEW w \in Windows, windows[w] # NULL
          PROVE  /\ windows[w] \in TrackedWindows
                 /\ Sound(windows[w].asg, projects, spent)
                 /\ GroupSound(windows[w].asg, projects)
      BY <3>1 DEF Sound, GroupSound
    <3> QED
      BY <3>1 DEF WindowOK
  <2> QED
    BY <2>1, <2>2
<1>2. Parts => IInv
  <2> SUFFICES ASSUME Parts PROVE IInv
    OBVIOUS
  <2>1. ASSUME NEW w \in Windows, windows[w] # NULL
        PROVE  /\ windows[w] \in TrackedWindows
               /\ Sound(windows[w].asg, projects, spent)
               /\ GroupSound(windows[w].asg, projects)
    BY <2>1 DEF WindowOK
  <2>2. TypeOK
    BY <2>1 DEF Sound
  <2>3. OnlyRestoreDangles /\ InheritedGroupExists
    BY <2>1 DEF Sound, GroupSound
  <2>4. IdsSpent
    BY <2>1 DEF Sound, IdsOf
  <2> QED
    BY <2>2, <2>3, <2>4
<1> QED
  BY <1>1, <1>2

-----------------------------------------------------------------------------
(* What the annotation operators return. *)

\* A window that opened or moved inherits an existing project and group.
LEMMA InheritSound ==
  ASSUME NEW ps, NEW sp, ProjectsOK(ps, sp), NEW place \in Places
  PROVE  Sound(Inherit(ps, place), ps, sp) /\ GroupSound(Inherit(ps, place), ps)
<1>1. CASE Homes(ps, place) = {}
  BY <1>1, NullAssumption
  DEF Inherit, Unassigned, Sound, GroupSound, AnnotationOK, Annotations, GroupOpt
<1>2. CASE Homes(ps, place) # {}
  <2> DEFINE p == CHOOSE x \in Homes(ps, place) : TRUE
  <2>1. p \in Homes(ps, place)
    BY <1>2
  <2>2. /\ p \in ps /\ p.id \in Ids /\ p.id \in sp /\ p.groups \subseteq Groups
        /\ place.group \in p.groups \cup {NULL}
    BY <2>1 DEF Homes, ProjectsOK, ProjectType
  <2>3. Inherit(ps, place) = [pid |-> p.id, group |-> place.group, by |-> "Inherited", rule |-> NULL]
    BY <1>2 DEF Inherit, Mark
  <2> HIDE DEF p
  <2>4. Sound(Inherit(ps, place), ps, sp)
    BY <2>2, <2>3, NullAssumption
    DEF Sound, AnnotationOK, Annotations, Sources, GroupOpt, IdsOf
  <2>5. GroupSound(Inherit(ps, place), ps)
    BY <2>2, <2>3 DEF GroupSound, ProjectsOK
  <2> QED
    BY <2>4, <2>5
<1> QED
  BY <1>1, <1>2

\* After sync_inherited_assignment a window is in order, even when the
\* annotation it had was inherited and named a group that is gone.
LEMMA SyncedOK ==
  ASSUME NEW ps, NEW sp, ProjectsOK(ps, sp),
         NEW win \in TrackedWindows, Sound(win.asg, ps, sp)
  PROVE  WindowOK(Synced(ps, win), ps, sp) /\ Synced(ps, win) \in TrackedWindows
<1>1. win.ws \in Places /\ win.sid \in StableIds \cup {NULL} /\ win.asg \in Annotations
  BY DEF TrackedWindows
<1>2. CASE Unclaimed(win.asg)
  <2>1. Synced(ps, win) = [win EXCEPT !.asg = Inherit(ps, win.ws)]
    BY <1>2 DEF Synced
  <2>2. Sound(Inherit(ps, win.ws), ps, sp) /\ GroupSound(Inherit(ps, win.ws), ps)
    BY <1>1, InheritSound
  <2>3. Inherit(ps, win.ws) \in Annotations
    BY <2>2 DEF Sound, AnnotationOK
  <2>4. Synced(ps, win) \in TrackedWindows /\ Synced(ps, win).asg = Inherit(ps, win.ws)
    BY <2>1, <2>3 DEF TrackedWindows
  <2> QED
    BY <2>2, <2>4 DEF WindowOK
<1>3. CASE ~Unclaimed(win.asg)
  BY <1>3 DEF Synced, Unclaimed, WindowOK, GroupSound
<1> QED
  BY <1>2, <1>3

\* A rule gives a window an existing project.
LEMMA RuledSound ==
  ASSUME NEW ps, NEW sp, ProjectsOK(ps, sp), NEW asg, Sound(asg, ps, sp),
         NEW rule \in Rules \cup {NULL}
  PROVE  Sound(Ruled(ps, asg, rule), ps, sp)
<1>1. CASE Unclaimed(asg) /\ RuleTargets(ps, rule) # {}
  <2> DEFINE p == CHOOSE x \in RuleTargets(ps, rule) : TRUE
  <2>1. p \in RuleTargets(ps, rule) /\ rule # NULL
    BY <1>1 DEF RuleTargets
  <2>2. p \in ps /\ p.id \in Ids /\ p.id \in sp
    BY <2>1 DEF RuleTargets, ProjectsOK, ProjectType
  <2>3. Ruled(ps, asg, rule) = [pid |-> p.id, group |-> rule.group, by |-> "Rule", rule |-> rule.name]
    BY <1>1 DEF Ruled
  <2>4. rule.name \in RuleNames /\ rule.name # NULL /\ rule.group \in GroupOpt
    BY <2>1, RulesAssumption DEF RuleNames, GroupOpt
  <2> HIDE DEF p
  <2> QED
    BY <2>2, <2>3, <2>4, NullAssumption DEF Sound, AnnotationOK, Annotations, Sources, IdsOf
<1>2. CASE ~(Unclaimed(asg) /\ RuleTargets(ps, rule) # {})
  BY <1>2 DEF Ruled
<1> QED
  BY <1>1, <1>2

\* A recovered annotation names an existing project.
LEMMA RecoveredSound ==
  ASSUME NEW ps, NEW sp, ProjectsOK(ps, sp), NEW asg, Sound(asg, ps, sp), NEW key,
         recovery \in RuntimeType
  PROVE  Sound(Recovered(ps, key, asg), ps, sp)
<1>1. CASE asg.by # NULL \/ Recoverable(ps, key) = {}
  BY <1>1 DEF Recovered
<1>2. CASE ~(asg.by # NULL \/ Recoverable(ps, key) = {})
  <2> DEFINE m == CHOOSE x \in Recoverable(ps, key) : TRUE
  <2>1. m \in Recoverable(ps, key)
    BY <1>2
  <2>2. m[1] \in recovery.saved /\ m[2] \in ps
    BY <2>1 DEF Recoverable
  <2>3. m[1].group \in GroupOpt /\ m[1].source \in SavedSources
    BY <2>2 DEF RuntimeType
  <2>4. m[2].id \in Ids /\ m[2].id \in sp /\ m[2].id \in IdsOf(ps)
    BY <2>2 DEF ProjectsOK, ProjectType, IdsOf
  <2>5. Recovered(ps, key, asg) = ReadSource(m[2].id, m[1].group, m[1].source)
    BY <1>2 DEF Recovered
  <2> HIDE DEF m
  <2>6. NULL \notin RuleNames
    BY RulesAssumption DEF RuleNames
  <2> QED
    BY <2>3, <2>4, <2>5, <2>6, NullAssumption
    DEF ReadSource, Mark, Sound, AnnotationOK, Annotations, Sources, SavedSources
<1> QED
  BY <1>1, <1>2

\* What persist_runtime writes is well-formed and names existing projects.
LEMMA RuntimeOfOK ==
  ASSUME NEW ps, NEW sp, ProjectsOK(ps, sp), NEW ws, WindowsOK(ws, ps, sp), NEW act
  PROVE  RuntimeOK(RuntimeOf(ws, ps, act), ps)
<1> DEFINE M == {x \in Tracked(ws) \X ps : ws[x[1]].asg.pid = x[2].id}
           entry(m) == [key |-> RecoveryKey(ws, m[1]), project |-> m[2].slug,
                        group |-> ws[m[1]].asg.group, source |-> SavedSource(ws[m[1]].asg)]
<1>1. ASSUME NEW m \in M
      PROVE  /\ entry(m) \in [key : Windows \cup StableIds, project : Slugs,
                              group : GroupOpt, source : SavedSources]
             /\ entry(m).project \in SlugsOf(ps)
  <2>1. m[1] \in Windows /\ ws[m[1]] # NULL /\ m[2] \in ps /\ ws[m[1]].asg.pid = m[2].id
    BY DEF Tracked
  <2>2. ws[m[1]] \in TrackedWindows /\ AnnotationOK(ws[m[1]].asg)
    BY <2>1 DEF WindowsOK, WindowOK, Sound
  <2>3. m[2].slug \in Slugs /\ m[2].slug \in SlugsOf(ps) /\ m[2].id \in Ids
    BY <2>1 DEF ProjectsOK, ProjectType, SlugsOf
  <2>4. RecoveryKey(ws, m[1]) \in Windows \cup StableIds
    BY <2>1, <2>2 DEF RecoveryKey, TrackedWindows
  <2>5. SavedSource(ws[m[1]].asg) \in SavedSources
    <3> DEFINE asg == ws[m[1]].asg
    <3>1. AnnotationOK(asg) /\ asg.pid # NULL
      BY <2>1, <2>2, <2>3, NullAssumption
    <3> HIDE DEF asg
    <3>2. asg.by \in Sources /\ (asg.by = "Rule" => asg.rule \in RuleNames)
      BY <3>1, NullAssumption DEF AnnotationOK, Annotations, Sources
    <3>3. SavedSource(asg) \in SavedSources
      BY <3>2 DEF SavedSource, SavedSources, Sources
    <3> QED
      BY <3>3 DEF asg
  <2>6. ws[m[1]].asg.group \in GroupOpt
    BY <2>2 DEF AnnotationOK, Annotations
  <2> QED
    BY <2>3, <2>4, <2>5, <2>6
<1>2. RuntimeOf(ws, ps, act) = [active |-> SlugsOf({p \in ps : p.id = act}),
                               saved  |-> {entry(m) : m \in M}]
  BY DEF RuntimeOf
<1>3. SlugsOf({p \in ps : p.id = act}) \subseteq SlugsOf(ps) /\ SlugsOf(ps) \subseteq Slugs
  BY DEF SlugsOf, ProjectsOK, ProjectType
<1> HIDE DEF M, entry
<1> QED
  BY <1>1, <1>2, <1>3 DEF RuntimeOK, RuntimeType

-----------------------------------------------------------------------------
(* Windows whose annotation is kept while the projects change. *)

\* Annotations survive when no project id goes away, no project with an id in
\* use loses a group, and new projects have new ids.
LEMMA WindowsKept ==
  ASSUME NEW ps, NEW qs, NEW sp, NEW sq, NEW ws, WindowsOK(ws, ps, sp),
         sp \subseteq sq, IdsOf(ps) \subseteq IdsOf(qs),
         \A q \in qs : q.id \notin sp \/ \E p \in ps : p.id = q.id /\ p.groups \subseteq q.groups,
         \A q \in qs : q.id \in Ids
  PROVE  WindowsOK(ws, qs, sq)
<1>1. SUFFICES ASSUME NEW w \in Windows, ws[w] # NULL PROVE WindowOK(ws[w], qs, sq)
  BY DEF WindowsOK, WindowOK
<1> DEFINE asg == ws[w].asg
<1>2. ws[w] \in TrackedWindows /\ Sound(asg, ps, sp) /\ GroupSound(asg, ps)
  BY <1>1 DEF WindowsOK, WindowOK
<1> HIDE DEF asg
<1>3. Sound(asg, qs, sq)
  BY <1>2 DEF Sound
<1>4. GroupSound(asg, qs)
  <2> SUFFICES ASSUME asg.by = "Inherited", NEW q \in qs, asg.pid = q.id
               PROVE  asg.group \in q.groups \cup {NULL}
    BY DEF GroupSound
  <2>1. asg.pid # NULL /\ asg.pid \in sp
    BY <1>2, NullAssumption DEF Sound, AnnotationOK
  <2>2. PICK p \in ps : p.id = q.id /\ p.groups \subseteq q.groups
    BY <2>1
  <2> QED
    BY <1>2, <2>2 DEF GroupSound
<1> QED
  BY <1>2, <1>3, <1>4 DEF WindowOK, asg

\* Releasing a project's windows makes up for its removal.
LEMMA ReleasedOK ==
  ASSUME NEW ps, NEW sp, ProjectsOK(ps, sp), NEW ws, WindowsOK(ws, ps, sp), NEW p \in ps
  PROVE  WindowsOK(Released(ws, p.id), ps \ {p}, sp)
<1>1. \A w \in Windows : ws[w] # NULL =>
        ws[w] \in TrackedWindows /\ Sound(ws[w].asg, ps, sp) /\ GroupSound(ws[w].asg, ps)
  BY DEF WindowsOK, WindowOK
<1>2. ASSUME NEW w \in Windows PROVE WindowOK(Released(ws, p.id)[w], ps \ {p}, sp)
                                     /\ Released(ws, p.id)[w] \in TrackedWindows \cup {NULL}
  <2>1. CASE ws[w] = NULL
    BY <2>1 DEF Released, WindowOK
  <2>2. CASE ws[w] # NULL /\ ws[w].asg.pid = p.id
    <3>1. Unassigned \in Annotations
      BY DEF Unassigned, Annotations, GroupOpt
    <3>2. Released(ws, p.id)[w] = [ws[w] EXCEPT !.asg = Unassigned]
      BY <2>2 DEF Released
    <3>3. Released(ws, p.id)[w] \in TrackedWindows /\ Released(ws, p.id)[w].asg = Unassigned
      BY <1>1, <2>2, <3>1, <3>2 DEF TrackedWindows
    <3>4. Sound(Unassigned, ps \ {p}, sp) /\ GroupSound(Unassigned, ps \ {p})
      BY <3>1, NullAssumption DEF Unassigned, Sound, GroupSound, AnnotationOK
    <3> QED
      BY <3>3, <3>4 DEF WindowOK
  <2>3. CASE ws[w] # NULL /\ ws[w].asg.pid # p.id
    <3>1. Released(ws, p.id)[w] = ws[w]
      BY <2>3 DEF Released
    <3>2. Sound(ws[w].asg, ps \ {p}, sp)
      BY <1>1, <2>3 DEF Sound, IdsOf
    <3>3. GroupSound(ws[w].asg, ps \ {p})
      BY <1>1, <2>3 DEF GroupSound
    <3> QED
      BY <1>1, <2>3, <3>1, <3>2, <3>3 DEF WindowOK
  <2> QED
    BY <2>1, <2>2, <2>3
<1> QED
  BY <1>2 DEF WindowsOK, Released

-----------------------------------------------------------------------------
(* Projects and their files. *)

\* A project with a slug and an id of its own can be added.
LEMMA ProjectAdded ==
  ASSUME NEW ps, NEW sp, ProjectsOK(ps, sp), NEW sq, sp \subseteq sq,
         NEW q \in ProjectType, q.hidden \subseteq q.groups, q.id \in sq,
         q.slug \notin SlugsOf(ps), q.id \notin IdsOf(ps)
  PROVE  ProjectsOK(ps \cup {q}, sq) /\ Save(ps, q) = ps \cup {q}
BY DEF ProjectsOK, SlugsOf, IdsOf, Save

\* Without a project, nothing else carries its slug or its id.
LEMMA ProjectRemoved ==
  ASSUME NEW ps, NEW sp, ProjectsOK(ps, sp), NEW p \in ps
  PROVE  /\ ProjectsOK(ps \ {p}, sp) /\ Erase(ps, p.slug) = ps \ {p}
         /\ p.slug \notin SlugsOf(ps \ {p}) /\ p.id \notin IdsOf(ps \ {p})
         /\ IdsOf(ps \ {p}) \subseteq sp
BY DEF ProjectsOK, SlugsOf, IdsOf, Erase

\* A project rewritten under its slug, with an id of its own.
LEMMA ProjectReplaced ==
  ASSUME NEW ps, NEW sp, ProjectsOK(ps, sp), NEW sq, sp \subseteq sq, NEW p \in ps,
         NEW q \in ProjectType, q.hidden \subseteq q.groups, q.id \in sq,
         q.slug = p.slug, q.id = p.id \/ q.id \notin sp
  PROVE  /\ ProjectsOK(Replace(ps, p, q), sq) /\ Save(ps, q) = Replace(ps, p, q)
         /\ SlugsOf(Replace(ps, p, q)) = SlugsOf(ps)
<1>1. /\ ProjectsOK(ps \ {p}, sp) /\ p.slug \notin SlugsOf(ps \ {p})
      /\ p.id \notin IdsOf(ps \ {p}) /\ IdsOf(ps \ {p}) \subseteq sp
  BY ProjectRemoved
<1>2. ProjectsOK(Replace(ps, p, q), sq)
  <2>1. q.slug \notin SlugsOf(ps \ {p}) /\ q.id \notin IdsOf(ps \ {p})
    BY <1>1
  <2> QED
    BY <1>1, <2>1, ProjectAdded DEF Replace
<1>3. Save(ps, q) = Replace(ps, p, q)
  BY DEF Save, Replace, ProjectsOK
<1>4. SlugsOf(Replace(ps, p, q)) = SlugsOf(ps)
  BY DEF SlugsOf, Replace
<1> QED
  BY <1>2, <1>3, <1>4
\* group_move leaves two well-formed projects, two files that match them, and
\* windows in order: the members go along with the group they are in.
LEMMA GroupMoved ==
  ASSUME NEW ps, NEW sp, ProjectsOK(ps, sp), NEW ws, WindowsOK(ws, ps, sp),
         NEW p \in ps, NEW q \in ps, p # q, NEW g \in p.groups \ q.groups,
         NEW source \in ProjectType, source.id = p.id, source.slug = p.slug,
         source.groups = p.groups \ {g}, source.hidden \subseteq source.groups,
         NEW target \in ProjectType, target.id = q.id, target.slug = q.slug,
         target.groups = q.groups \cup {g}, target.hidden \subseteq target.groups,
         NEW qs, qs = (ps \ {p, q}) \cup {source, target}
  PROVE  /\ ProjectsOK(qs, sp) /\ Save(Save(ps, source), target) = qs
         /\ WindowsOK(Reassigned(ws, Members(ws, p.id, g), q.id), qs, sp)
<1>1. p \in ProjectType /\ q \in ProjectType /\ p.slug # q.slug /\ p.id # q.id /\ p.id \in sp /\ q.id \in sp
  BY DEF ProjectsOK
<1> DEFINE half == Replace(ps, p, source)
<1>5. ProjectsOK(half, sp) /\ Save(ps, source) = half
  BY <1>1, ProjectReplaced
<1>6. q \in half
  BY DEF Replace
<1>7. Replace(half, q, target) = qs
  BY <1>1 DEF Replace
<1> HIDE DEF half
<1>8. ProjectsOK(Replace(half, q, target), sp) /\ Save(half, target) = Replace(half, q, target)
  BY <1>1, <1>5, <1>6, ProjectReplaced
<1>9. IdsOf(qs) = IdsOf(ps)
  BY DEF IdsOf
<1> DEFINE S == Members(ws, p.id, g)
<1>10. ASSUME NEW w \in Windows, ws[w] # NULL
       PROVE  WindowOK(Reassigned(ws, S, q.id)[w], qs, sp)
  <2>1. ws[w] \in TrackedWindows /\ Sound(ws[w].asg, ps, sp) /\ GroupSound(ws[w].asg, ps)
    BY <1>10 DEF WindowsOK, WindowOK
  <2>2. CASE w \in S
    <3> DEFINE asg == [ws[w].asg EXCEPT !.pid = q.id]
    <3>1. ws[w].asg.pid = p.id /\ ws[w].asg.group = g
      BY <2>2 DEF Members
    <3>2. ws[w].asg \in Annotations /\ AnnotationOK(ws[w].asg)
      BY <2>1 DEF Sound, AnnotationOK
    <3>3. q.id \in Ids /\ p.id \in Ids
      BY <1>1 DEF ProjectType
    <3>4. /\ asg \in Annotations /\ asg.pid = q.id /\ asg.group = g
          /\ asg.by = ws[w].asg.by /\ asg.rule = ws[w].asg.rule
      BY <3>1, <3>2, <3>3 DEF Annotations
    <3>5. Reassigned(ws, S, q.id)[w] = [ws[w] EXCEPT !.asg.pid = q.id]
      BY <2>2 DEF Reassigned
    <3>6. Reassigned(ws, S, q.id)[w] \in TrackedWindows /\ Reassigned(ws, S, q.id)[w].asg = asg
      BY <2>1, <3>2, <3>4, <3>5 DEF TrackedWindows, Annotations
    <3> HIDE DEF asg
    <3>7. AnnotationOK(asg)
      BY <3>1, <3>2, <3>3, <3>4, NullAssumption DEF AnnotationOK
    <3>8. Sound(asg, qs, sp)
      BY <1>1, <1>9, <3>4, <3>7 DEF Sound, IdsOf
    <3>9. GroupSound(asg, qs)
      <4> SUFFICES ASSUME NEW x \in qs, x.id = q.id PROVE g \in x.groups
        BY <3>4 DEF GroupSound
      <4>1. x = target
        BY <1>7, <1>8 DEF ProjectsOK
      <4> QED
        BY <4>1
    <3> QED
      BY <3>6, <3>8, <3>9 DEF WindowOK
  <2>3. CASE w \notin S
    <3> DEFINE asg == ws[w].asg
    <3>1. Reassigned(ws, S, q.id)[w] = ws[w]
      BY <2>3 DEF Reassigned
    <3>2. asg.pid # p.id \/ asg.group # g
      BY <1>10, <2>3 DEF Members, Tracked
    <3> HIDE DEF asg
    <3>3. Sound(asg, qs, sp)
      BY <1>9, <2>1 DEF Sound, asg
    <3>4. GroupSound(asg, qs)
      <4> SUFFICES ASSUME asg.by = "Inherited", NEW x \in qs, asg.pid = x.id
                   PROVE  asg.group \in x.groups \cup {NULL}
        BY DEF GroupSound
      <4>1. \A y \in ps : asg.pid = y.id => asg.group \in y.groups \cup {NULL}
        BY <2>1 DEF GroupSound, asg
      <4> QED
        BY <3>2, <4>1
    <3> QED
      BY <2>1, <3>1, <3>3, <3>4 DEF WindowOK, asg
  <2> QED
    BY <2>2, <2>3
<1>11. \A w \in Windows : ws[w] = NULL => Reassigned(ws, S, q.id)[w] = NULL
  BY DEF Reassigned, Members, Tracked
<1>12. WindowsOK(Reassigned(ws, S, q.id), qs, sp)
  <2>1. \A w \in Windows : WindowOK(Reassigned(ws, S, q.id)[w], qs, sp)
    BY <1>10, <1>11 DEF WindowOK
  <2>2. DOMAIN Reassigned(ws, S, q.id) = Windows
        /\ Reassigned(ws, S, q.id) = [w \in Windows |-> Reassigned(ws, S, q.id)[w]]
    BY DEF Reassigned
  <2> HIDE DEF S
  <2> QED
    BY <2>1, <2>2 DEF WindowsOK, WindowOK
<1> QED
  BY <1>5, <1>7, <1>8, <1>12
-----------------------------------------------------------------------------
(* Steps of the actor. *)

RuntimeWritten == UNCHANGED runtime \/ PersistRuntime

\* A handler that leaves the projects alone has to leave the windows in order.
LEMMA WindowStep ==
  ASSUME Parts, UNCHANGED <<projects, recovery, disk, spent, restarts>>,
         WindowsOK(windows', projects, spent), RunsOK(runs', restoring', spent),
         hydrated' \in BOOLEAN, active' \in Ids \cup {NULL}, RuntimeWritten
  PROVE  Parts'
<1>1. ProjectsOK(projects', spent') /\ WindowsOK(windows', projects', spent')
      /\ RunsOK(runs', restoring', spent')
  BY DEF Parts
<1>2. RuntimeOK(runtime', projects')
  BY <1>1, RuntimeOfOK DEF Parts, RuntimeWritten, PersistRuntime
<1> QED
  BY <1>1, <1>2 DEF Parts

\* A handler that changes the projects has to write what it changed, and, when
\* a slug disappears, runtime.json too.
LEMMA ProjectStep ==
  ASSUME Parts, UNCHANGED <<hydrated, restoring, runs, recovery, restarts>>,
         ProjectsOK(projects', spent'), WindowsOK(windows', projects', spent'),
         disk' = projects', spent \subseteq spent', spent' \subseteq Ids,
         active' \in Ids \cup {NULL},
         \/ PersistRuntime
         \/ UNCHANGED runtime /\ SlugsOf(projects) \subseteq SlugsOf(projects')
  PROVE  Parts'
<1>1. RuntimeOK(runtime', projects')
  <2>1. CASE PersistRuntime
    BY <2>1, RuntimeOfOK DEF PersistRuntime
  <2>2. CASE UNCHANGED runtime /\ SlugsOf(projects) \subseteq SlugsOf(projects')
    BY <2>2 DEF Parts, RuntimeOK
  <2> QED
    BY <2>1, <2>2
<1>2. RunsOK(runs', restoring', spent')
  BY DEF Parts, RunsOK
<1> QED
  BY <1>1, <1>2 DEF Parts

\* One window changes, the others do not.
LEMMA OneWindow ==
  ASSUME Parts, NEW w \in Windows, NEW win, WindowOK(win, projects, spent),
         windows' = [windows EXCEPT ![w] = win]
  PROVE  WindowsOK(windows', projects, spent)
BY DEF Parts, WindowsOK, WindowOK

\* A tracked window is in order.
LEMMA TrackedOK ==
  ASSUME Parts, NEW w \in Windows, windows[w] # NULL
  PROVE  /\ windows[w] \in TrackedWindows /\ WindowOK(windows[w], projects, spent)
         /\ Sound(windows[w].asg, projects, spent)
BY DEF Parts, WindowsOK, WindowOK

\* No annotation is a sound annotation.
LEMMA UnassignedSound ==
  ASSUME NEW ps, NEW sp
  PROVE  Sound(Unassigned, ps, sp) /\ GroupSound(Unassigned, ps)
BY NullAssumption DEF Unassigned, Sound, GroupSound, AnnotationOK, Annotations, GroupOpt

\* World.upsert_window keeps a window in order as far as rules and sync need.
LEMMA UpsertedOK ==
  ASSUME Parts, NEW w \in Windows, NEW sid \in StableIds \cup {NULL}, NEW place \in Places
  PROVE  /\ Upserted(w, sid, place) \in TrackedWindows
         /\ Upserted(w, sid, place).asg = Kept(w)
         /\ WindowOK(Upserted(w, sid, place), projects, spent)
         /\ Sound(Kept(w), projects, spent)
<1>1. CASE windows[w] = NULL
  <2>1. Upserted(w, sid, place) = [ws |-> place, sid |-> sid, asg |-> Unassigned]
    BY <1>1 DEF Upserted
  <2>2. Kept(w) = Unassigned
    BY <1>1 DEF Kept
  <2>3. Sound(Unassigned, projects, spent) /\ GroupSound(Unassigned, projects)
    BY UnassignedSound
  <2>4. Unassigned \in Annotations
    BY <2>3 DEF Sound, AnnotationOK
  <2> QED
    BY <2>1, <2>2, <2>3, <2>4 DEF WindowOK, TrackedWindows
<1>2. CASE windows[w] # NULL
  <2>1. Upserted(w, sid, place) = [ws |-> place, sid |-> IF sid # NULL THEN sid ELSE windows[w].sid,
                                   asg |-> windows[w].asg]
    BY <1>2 DEF Upserted
  <2>2. Kept(w) = windows[w].asg
    BY <1>2 DEF Kept
  <2>3. /\ windows[w] \in TrackedWindows /\ Sound(windows[w].asg, projects, spent)
        /\ GroupSound(windows[w].asg, projects)
    BY <1>2, TrackedAssumption, TrackedOK DEF WindowOK
  <2> QED
    BY <2>1, <2>2, <2>3 DEF WindowOK, TrackedWindows
<1> QED
  BY <1>1, <1>2

\* An explicit annotation with an existing project or by a restore run is sound.
LEMMA MarkedOK ==
  ASSUME Parts, NEW w \in Windows, windows[w] # NULL, NEW pid \in Ids, pid \in spent,
         NEW g \in GroupOpt, NEW src \in {"Manual", "Restore"}, pid \in IdsOf(projects) \/ src = "Restore",
         windows' = [windows EXCEPT ![w].asg = Mark(pid, g, src)]
  PROVE  WindowsOK(windows', projects, spent)
<1> DEFINE asg == Mark(pid, g, src)
           win == [windows[w] EXCEPT !.asg = asg]
<1>1. /\ asg.pid = pid /\ asg.by = src /\ asg.rule = NULL /\ asg.group = g
      /\ asg \in [pid : Ids \cup {NULL}, group : GroupOpt, by : Sources \cup {NULL}, rule : {NULL}]
  BY DEF Mark, Sources
<1>2. windows' = [windows EXCEPT ![w] = win]
  BY DEF Parts, WindowsOK
<1> HIDE DEF asg
<1>3. AnnotationOK(asg)
  BY <1>1, NullAssumption DEF AnnotationOK, Annotations
<1>4. Sound(asg, projects, spent) /\ GroupSound(asg, projects)
  BY <1>1, <1>3 DEF Sound, GroupSound
<1>5. win \in TrackedWindows /\ win.asg = asg
  BY <1>3, TrackedOK DEF TrackedWindows, AnnotationOK
<1>6. WindowOK(win, projects, spent)
  BY <1>4, <1>5 DEF WindowOK
<1> HIDE DEF win
<1> QED
  BY <1>2, <1>6, OneWindow
\* Events from the Hyprland task keep the invariant.
LEMMA HyprKeepsParts == ASSUME Parts, HyprCommand PROVE Parts'
<1> USE DEF RuntimeWritten
<1>0. /\ ProjectsOK(projects, spent) /\ WindowsOK(windows, projects, spent)
      /\ RunsOK(runs, restoring, spent) /\ recovery \in RuntimeType
      /\ hydrated \in BOOLEAN /\ active \in Ids \cup {NULL}
  BY DEF Parts
<1>1. ASSUME NEW dump \in Dumps, Hydrate(dump) PROVE Parts'
  <2> DEFINE key(w) == IF dump[w].sid # NULL THEN dump[w].sid ELSE w
             base == [w \in Windows |->
                        IF w \notin DOMAIN dump THEN NULL
                        ELSE [ws |-> dump[w].ws, sid |-> dump[w].sid,
                              asg |-> Recovered(projects, key(w), Kept(w))]]
             last == {p \in projects : p.slug \in recovery.active}
  <2>1. windows' = [w \in Windows |-> IF base[w] = NULL THEN NULL ELSE Synced(projects, base[w])]
    BY <1>1 DEF Hydrate
  <2>2. ASSUME NEW w \in Windows, w \in DOMAIN dump
        PROVE  base[w] \in TrackedWindows /\ Sound(base[w].asg, projects, spent)
    <3>1. dump[w].ws \in Places /\ dump[w].sid \in StableIds \cup {NULL}
      <4>1. dump \in UNION {[D -> [ws : Places, sid : StableIds \cup {NULL}]] : D \in SUBSET Windows}
        BY DEF Dumps
      <4> QED
        BY <2>2, <4>1
    <3>2. Sound(Kept(w), projects, spent)
      <4>1. NULL \in StableIds \cup {NULL} /\ Foreign \in Places
        BY DEF Places
      <4> QED
        BY <4>1, UpsertedOK
    <3> DEFINE asg == Recovered(projects, key(w), Kept(w))
    <3>3. Sound(asg, projects, spent)
      BY <1>0, <3>2, RecoveredSound
    <3>4. base[w] = [ws |-> dump[w].ws, sid |-> dump[w].sid, asg |-> asg]
      BY <2>2
    <3> HIDE DEF base, asg
    <3> QED
      BY <3>1, <3>3, <3>4 DEF TrackedWindows, Sound, AnnotationOK
  <2>3. ASSUME NEW w \in Windows PROVE base[w] = NULL \/ w \in DOMAIN dump
    OBVIOUS
  <2> HIDE DEF base
  <2>4. \A w \in Windows : base[w] # NULL =>
          WindowOK(Synced(projects, base[w]), projects, spent) /\ Synced(projects, base[w]) \in TrackedWindows
    BY <1>0, <2>2, <2>3, SyncedOK
  <2>5. WindowsOK(windows', projects, spent)
    BY <2>1, <2>4 DEF WindowsOK, WindowOK
  <2>6. active' \in Ids \cup {NULL}
    <3>1. last # {} => (CHOOSE p \in last : TRUE) \in last
      OBVIOUS
    <3>2. active' = IF active = NULL /\ last # {} THEN (CHOOSE p \in last : TRUE).id ELSE active
      BY <1>1 DEF Hydrate
    <3>3. \A p \in last : p.id \in Ids
      BY <1>0 DEF ProjectsOK, ProjectType
    <3> HIDE DEF last
    <3> QED
      BY <1>0, <3>1, <3>2, <3>3
  <2>7. /\ UNCHANGED <<projects, runs, restoring, recovery, disk, spent, restarts>>
        /\ hydrated' \in BOOLEAN /\ (UNCHANGED runtime \/ PersistRuntime)
    BY <1>1 DEF Hydrate
  <2> QED
    BY <1>0, <2>5, <2>6, <2>7, WindowStep
<1>2. ASSUME NEW w \in Windows, CloseWindow(w) PROVE Parts'
  <2>1. WindowsOK(windows', projects, spent)
    BY <1>2, OneWindow DEF CloseWindow, WindowOK
  <2> QED
    BY <1>0, <1>2, <2>1, WindowStep DEF CloseWindow
<1>3. ASSUME NEW w \in Windows, NEW place \in Places, OpenWindow(w, place) PROVE Parts'
  <2>1. WindowsOK(windows', projects, spent)
    BY <1>3, UpsertedOK, OneWindow DEF OpenWindow
  <2> QED
    BY <1>0, <1>3, <2>1, WindowStep DEF OpenWindow
<1>4. ASSUME NEW w \in Windows, NEW place \in Places, MoveWindow(w, place) PROVE Parts'
  <2> DEFINE moved == [windows[w] EXCEPT !.ws = place]
  <2>1. windows[w] # NULL /\ windows' = [windows EXCEPT ![w] = Synced(projects, moved)]
    BY <1>0, <1>4 DEF MoveWindow, WindowsOK
  <2>2. moved \in TrackedWindows /\ moved.asg = windows[w].asg
    BY <2>1, TrackedOK DEF TrackedWindows
  <2>3. WindowOK(Synced(projects, moved), projects, spent)
    BY <1>0, <2>1, <2>2, TrackedOK, SyncedOK
  <2>4. WindowsOK(windows', projects, spent)
    BY <2>1, <2>3, OneWindow
  <2> QED
    BY <1>0, <1>4, <2>4, WindowStep DEF MoveWindow, PersistIfMarked
<1>5. ASSUME NEW w \in Windows, NEW sid \in StableIds \cup {NULL}, NEW place \in Places,
             NEW rule \in Rules \cup {NULL}, WindowFacts(w, sid, place, rule)
      PROVE  Parts'
  <2> DEFINE seen  == Upserted(w, sid, place)
             asg   == Ruled(projects, seen.asg, rule)
             ruled == [seen EXCEPT !.asg = asg]
  <2>1. windows' = [windows EXCEPT ![w] = Synced(projects, ruled)]
    BY <1>5 DEF WindowFacts
  <2>2. seen \in TrackedWindows /\ Sound(seen.asg, projects, spent)
    BY UpsertedOK
  <2> HIDE DEF seen
  <2>3. Sound(asg, projects, spent)
    BY <1>0, <2>2, RuledSound
  <2> HIDE DEF asg
  <2>4. ruled \in TrackedWindows /\ ruled.asg = asg
    BY <2>2, <2>3 DEF TrackedWindows, Sound, AnnotationOK
  <2>5. WindowOK(Synced(projects, ruled), projects, spent)
    BY <1>0, <2>3, <2>4, SyncedOK
  <2>6. WindowsOK(windows', projects, spent)
    BY <2>1, <2>5, OneWindow
  <2> QED
    BY <1>0, <1>5, <2>6, WindowStep DEF WindowFacts, PersistIfMarked
<1>6. ASSUME NEW place \in Places, FocusWorkspace(place) PROVE Parts'
  <2> DEFINE here == {p \in projects : OnProject(place, p)}
  <2>1. active' = IF here = {} THEN NULL ELSE (CHOOSE p \in here : TRUE).id
    BY <1>6 DEF FocusWorkspace
  <2>2. here # {} => (CHOOSE p \in here : TRUE) \in here
    OBVIOUS
  <2>3. \A p \in here : p.id \in Ids
    BY <1>0 DEF ProjectsOK, ProjectType
  <2> HIDE DEF here
  <2>4. active' \in Ids \cup {NULL}
    BY <2>1, <2>2, <2>3
  <2> QED
    BY <1>0, <1>6, <2>4, WindowStep DEF FocusWorkspace
<1> QED
  BY <1>1, <1>2, <1>3, <1>4, <1>5, <1>6 DEF HyprCommand
\* A new project: no annotation can name it, and its file is the only new one.
LEMMA AddProjectKeepsParts ==
  ASSUME Parts, NEW i \in Ids, NEW s \in Slugs,
         NEW d, d \in [groups : SUBSET Groups, hidden : SUBSET Groups, apps : SUBSET GroupOpt],
         d.hidden \subseteq d.groups, AddProject(i, s, d)
  PROVE  Parts'
<1> DEFINE q == NewProject(i, s, d)
<1>1. /\ q \in ProjectType /\ q.id = i /\ q.slug = s /\ q.hidden \subseteq q.groups
  BY DEF NewProject, ProjectType
<1>2. /\ i \notin spent /\ s \notin SlugsOf(projects) /\ projects' = projects \cup {q}
      /\ disk' = Save(disk, q) /\ spent' = spent \cup {i}
      /\ UNCHANGED <<windows, active, hydrated, restoring, runs, recovery, runtime, restarts>>
  BY DEF AddProject, SlugFree
<1> HIDE DEF q
<1>3. ProjectsOK(projects, spent) /\ WindowsOK(windows, projects, spent) /\ disk = projects
      /\ spent \subseteq Ids /\ active \in Ids \cup {NULL}
  BY DEF Parts
<1>4. i \notin IdsOf(projects) /\ IdsOf(projects) \subseteq spent
  BY <1>2, <1>3 DEF ProjectsOK, IdsOf
<1>5. ProjectsOK(projects', spent') /\ disk' = projects'
  BY <1>1, <1>2, <1>3, <1>4, ProjectAdded
<1>6. WindowsOK(windows, projects', spent')
  <2>1. IdsOf(projects) \subseteq IdsOf(projects')
    BY <1>2 DEF IdsOf
  <2>2. \A x \in projects' : x.id \notin spent \/ \E p \in projects : p.id = x.id /\ p.groups \subseteq x.groups
    BY <1>1, <1>2
  <2>3. \A x \in projects' : x.id \in Ids
    BY <1>5 DEF ProjectsOK, ProjectType
  <2>4. spent \subseteq spent'
    BY <1>2
  <2> QED
    BY <1>3, <2>1, <2>2, <2>3, <2>4, WindowsKept
<1>7. SlugsOf(projects) \subseteq SlugsOf(projects')
  BY <1>2 DEF SlugsOf
<1> QED
  BY <1>2, <1>3, <1>5, <1>6, <1>7, ProjectStep

\* A project rewritten under its slug and id, losing no group that a window
\* inherits.
LEMMA RewriteOK ==
  ASSUME Parts, NEW p \in projects, NEW q \in ProjectType,
         q.id = p.id, q.slug = p.slug, q.hidden \subseteq q.groups, p.groups \subseteq q.groups,
         NEW ws, WindowsOK(ws, projects, spent)
  PROVE  /\ ProjectsOK(Replace(projects, p, q), spent)
         /\ Save(disk, q) = Replace(projects, p, q)
         /\ WindowsOK(ws, Replace(projects, p, q), spent)
         /\ SlugsOf(Replace(projects, p, q)) = SlugsOf(projects)
<1>1. ProjectsOK(projects, spent) /\ disk = projects /\ p.id \in spent
  BY DEF Parts, ProjectsOK
<1>2. /\ ProjectsOK(Replace(projects, p, q), spent) /\ Save(disk, q) = Replace(projects, p, q)
      /\ SlugsOf(Replace(projects, p, q)) = SlugsOf(projects)
  BY <1>1, ProjectReplaced
<1>3. WindowsOK(ws, Replace(projects, p, q), spent)
  <2>1. IdsOf(projects) \subseteq IdsOf(Replace(projects, p, q))
    BY DEF IdsOf, Replace
  <2>2. \A x \in Replace(projects, p, q) :
          \E y \in projects : y.id = x.id /\ y.groups \subseteq x.groups
    BY DEF Replace
  <2>3. \A x \in Replace(projects, p, q) : x.id \in Ids
    BY <1>2 DEF ProjectsOK, ProjectType
  <2> QED
    BY <2>1, <2>2, <2>3, WindowsKept
<1> QED
  BY <1>2, <1>3

\* Fetched workspaces leave annotations alone.
LEMMA RefreshedOK ==
  ASSUME Parts, NEW fetched \in Fetches PROVE WindowsOK(Refreshed(fetched), projects, spent)
<1> SUFFICES ASSUME NEW w \in Windows, windows[w] # NULL, w \in DOMAIN fetched
             PROVE  WindowOK([windows[w] EXCEPT !.ws = fetched[w]], projects, spent)
  BY DEF Refreshed, Parts, WindowsOK, WindowOK
<1>1. fetched[w] \in Places
  BY DEF Fetches
<1>2. /\ windows[w] \in TrackedWindows /\ Sound(windows[w].asg, projects, spent)
      /\ GroupSound(windows[w].asg, projects)
  BY TrackedOK, TrackedAssumption DEF WindowOK
<1>3. [windows[w] EXCEPT !.ws = fetched[w]] \in TrackedWindows
      /\ [windows[w] EXCEPT !.ws = fetched[w]].asg = windows[w].asg
  BY <1>1, <1>2 DEF TrackedWindows
<1> QED
  BY <1>2, <1>3 DEF WindowOK

\* Requests on projects keep the invariant.
LEMMA ProjectKeepsParts == ASSUME Parts, ProjectRequest PROVE Parts'
<1> USE DEF RuntimeWritten
<1>0. /\ ProjectsOK(projects, spent) /\ WindowsOK(windows, projects, spent)
      /\ RunsOK(runs, restoring, spent) /\ recovery \in RuntimeType /\ disk = projects
      /\ hydrated \in BOOLEAN /\ active \in Ids \cup {NULL} /\ spent \subseteq Ids
      /\ \A p \in projects : p \in ProjectType /\ p.hidden \subseteq p.groups /\ p.id \in spent
                             /\ p.id \in Ids /\ p.slug \in Slugs
  BY DEF Parts, ProjectsOK, ProjectType
<1>1. ASSUME NEW i \in Ids, NEW s \in Slugs, ProjectCreate(i, s) PROVE Parts'
  BY <1>1, AddProjectKeepsParts DEF ProjectCreate
<1>2. ASSUME NEW i \in Ids, NEW s \in Slugs, NEW d \in Imported, ProjectImport(i, s, d) PROVE Parts'
  BY <1>2, ImportedAssumption, AddProjectKeepsParts DEF ProjectImport, GroupOpt
<1>3. ASSUME NEW fetched \in Fetches, ProjectCapture(fetched) PROVE Parts'
  BY <1>0, <1>3, RefreshedOK, WindowStep DEF ProjectCapture
<1>4. ASSUME NEW p \in projects, NEW i \in Ids, NEW s \in Slugs, ProjectDuplicate(p, i, s) PROVE Parts'
  <2> DEFINE d == [groups |-> p.groups, hidden |-> p.hidden, apps |-> p.apps]
  <2>1. d \in [groups : SUBSET Groups, hidden : SUBSET Groups, apps : SUBSET GroupOpt]
        /\ d.hidden \subseteq d.groups
    BY <1>0 DEF ProjectType
  <2>2. AddProject(i, s, d)
    BY <1>4 DEF ProjectDuplicate
  <2> HIDE DEF d
  <2> QED
    BY <2>1, <2>2, AddProjectKeepsParts
<1>5. ASSUME NEW p \in projects, NEW i \in Ids, NEW d \in Imported, ProjectReplace(p, i, d) PROVE Parts'
  <2> DEFINE q == NewProject(i, p.slug, d)
             rest == projects \ {p}
  <2>1. q \in ProjectType /\ q.id = i /\ q.slug = p.slug /\ q.hidden \subseteq q.groups
    BY <1>0, ImportedAssumption DEF NewProject, ProjectType, GroupOpt
  <2>2. /\ i \notin spent /\ projects' = Replace(projects, p, q) /\ windows' = Released(windows, p.id)
        /\ disk' = Save(disk, q) /\ spent' = spent \cup {i}
        /\ UNCHANGED <<active, hydrated, restoring, runs, recovery, runtime, restarts>>
    BY <1>5 DEF ProjectReplace
  <2> HIDE DEF q
  <2>3. /\ ProjectsOK(projects', spent') /\ disk' = projects'
        /\ SlugsOf(projects) \subseteq SlugsOf(projects')
    BY <1>0, <2>1, <2>2, ProjectReplaced
  <2>4. WindowsOK(windows', rest, spent)
    BY <1>0, <2>2, ReleasedOK
  <2>5. WindowsOK(windows', projects', spent')
    <3>1. projects' = rest \cup {q}
      BY <2>2 DEF Replace
    <3>2. IdsOf(rest) \subseteq IdsOf(projects')
      BY <3>1 DEF IdsOf
    <3>3. \A x \in projects' : x.id \notin spent \/ \E y \in rest : y.id = x.id /\ y.groups \subseteq x.groups
      BY <2>1, <2>2, <3>1
    <3>4. \A x \in projects' : x.id \in Ids
      BY <2>3 DEF ProjectsOK, ProjectType
    <3>5. spent \subseteq spent'
      BY <2>2
    <3> QED
      BY <2>4, <3>2, <3>3, <3>4, <3>5, WindowsKept
  <2> QED
    BY <1>0, <2>2, <2>3, <2>5, ProjectStep
<1>6. ASSUME NEW p \in projects, ProjectDelete(p) PROVE Parts'
  <2>1. ProjectsOK(projects', spent') /\ disk' = projects'
    BY <1>0, <1>6, ProjectRemoved DEF ProjectDelete
  <2>2. WindowsOK(windows', projects', spent')
    BY <1>0, <1>6, ReleasedOK DEF ProjectDelete
  <2> QED
    BY <1>0, <1>6, <2>1, <2>2, ProjectStep DEF ProjectDelete
<1>7. ASSUME NEW p \in projects, ProjectSwitch(p) \/ ProjectClose(p) PROVE Parts'
  BY <1>0, <1>7, WindowStep DEF ProjectSwitch, ProjectClose
<1>8. ASSUME NEW p \in projects, ProjectRestore(p) PROVE Parts'
  <2> DEFINE r == [pid |-> p.id, slug |-> p.slug, groups |-> p.apps]
  <2>1. /\ p.slug \notin restoring /\ restoring' = restoring \cup {p.slug} /\ runs' = runs \cup {r}
        /\ active' = p.id
        /\ UNCHANGED <<windows, projects, hydrated, recovery, disk, spent, restarts>> /\ PersistRuntime
    BY <1>8 DEF ProjectRestore, MayRestore
  <2>2. r \in [pid : Ids, slug : Slugs, groups : SUBSET GroupOpt] /\ r.pid \in spent /\ r.slug = p.slug
    BY <1>0 DEF ProjectType
  <2> HIDE DEF r
  <2>3. RunsOK(runs', restoring', spent)
    BY <1>0, <2>1, <2>2 DEF RunsOK, SlugsOf
  <2> QED
    BY <1>0, <2>1, <2>3, WindowStep
<1>9. ASSUME NEW p \in projects, NEW fetched \in Fetches, ProjectSave(p, fetched) PROVE Parts'
  <2> DEFINE now == Refreshed(fetched)
             slots == {now[w].asg.group : w \in {v \in Tracked(now) : OnProject(now[v].ws, p)}}
             q == [p EXCEPT !.apps = slots]
  <2>1. WindowsOK(now, projects, spent)
    BY RefreshedOK
  <2>2. /\ projects' = Replace(projects, p, q) /\ disk' = Save(disk, q) /\ windows' = now
        /\ UNCHANGED <<active, hydrated, restoring, runs, recovery, spent, restarts>> /\ PersistRuntime
    BY <1>9 DEF ProjectSave
  <2>3. slots \subseteq GroupOpt
    <3> HIDE DEF now
    <3> SUFFICES ASSUME NEW w \in Tracked(now) PROVE now[w].asg.group \in GroupOpt
      OBVIOUS
    <3>1. AnnotationOK(now[w].asg)
      BY <2>1 DEF WindowsOK, WindowOK, Tracked, Sound
    <3> QED
      BY <3>1 DEF AnnotationOK, Annotations
  <2> HIDE DEF slots
  <2>4. q \in ProjectType /\ q.id = p.id /\ q.slug = p.slug /\ q.groups = p.groups /\ q.hidden = p.hidden
    BY <1>0, <2>3 DEF ProjectType
  <2> HIDE DEF q, now
  <2>5. q.hidden \subseteq q.groups /\ p.groups \subseteq q.groups
    BY <1>0, <2>4
  <2>6. ProjectsOK(projects', spent') /\ disk' = projects' /\ WindowsOK(windows', projects', spent')
    BY <2>1, <2>2, <2>4, <2>5, RewriteOK
  <2> QED
    BY <1>0, <2>2, <2>6, ProjectStep
<1> QED
  BY <1>1, <1>2, <1>3, <1>4, <1>5, <1>6, <1>7, <1>8, <1>9 DEF ProjectRequest
\* Requests on windows and groups keep the invariant.
LEMMA GroupKeepsParts == ASSUME Parts, GroupRequest PROVE Parts'
<1> USE DEF RuntimeWritten
<1>0. /\ ProjectsOK(projects, spent) /\ WindowsOK(windows, projects, spent)
      /\ RunsOK(runs, restoring, spent) /\ recovery \in RuntimeType /\ disk = projects
      /\ hydrated \in BOOLEAN /\ active \in Ids \cup {NULL} /\ spent \subseteq Ids
      /\ \A p \in projects : p \in ProjectType /\ p.hidden \subseteq p.groups /\ p.id \in spent
                             /\ p.id \in Ids /\ p.id \in IdsOf(projects)
  BY DEF Parts, ProjectsOK, ProjectType, IdsOf
<1>1. ASSUME NEW p \in projects, NEW w \in Windows, NEW g \in GroupOpt, AssignManually(w, p, g)
      PROVE  Parts'
  <2>1. WindowsOK(windows', projects, spent)
    BY <1>0, <1>1, MarkedOK DEF AssignManually
  <2> QED
    BY <1>0, <1>1, <2>1, WindowStep DEF AssignManually
<1>2. ASSUME NEW p \in projects, NEW w \in Windows, NEW g \in GroupOpt,
             WindowAssign(w, p, g) \/ GroupAdd(w, p, g) \/ GroupRemove(w, p, g)
      PROVE  Parts'
  <2>1. NULL \in GroupOpt
    BY DEF GroupOpt
  <2> QED
    BY <1>1, <1>2, <2>1 DEF WindowAssign, GroupAdd, GroupRemove
<1>3. ASSUME NEW p \in projects, NEW q \in ProjectType, q.id = p.id, q.slug = p.slug,
             q.hidden \subseteq q.groups, p.groups \subseteq q.groups, Rewrite(p, q)
      PROVE  Parts'
  <2>1. /\ ProjectsOK(projects', spent') /\ disk' = projects' /\ WindowsOK(windows', projects', spent')
        /\ SlugsOf(projects) \subseteq SlugsOf(projects')
    BY <1>0, <1>3, RewriteOK DEF Rewrite
  <2> QED
    BY <1>0, <1>3, <2>1, ProjectStep DEF Rewrite
<1>4. ASSUME NEW p \in projects, NEW g \in Groups, GroupCreate(p, g) \/ GroupHide(p, g) \/ GroupShow(p, g)
      PROVE  Parts'
  <2>1. CASE GroupCreate(p, g)
    <3> DEFINE q == [p EXCEPT !.groups = @ \cup {g}]
    <3>1. q \in ProjectType /\ q.id = p.id /\ q.slug = p.slug /\ q.hidden \subseteq q.groups
          /\ p.groups \subseteq q.groups
      BY <1>0 DEF ProjectType
    <3>2. Rewrite(p, q)
      BY <2>1 DEF GroupCreate
    <3> HIDE DEF q
    <3> QED
      BY <1>3, <3>1, <3>2
  <2>2. CASE GroupHide(p, g)
    <3> DEFINE q == [p EXCEPT !.hidden = @ \cup {g}]
    <3>1. g \in p.groups /\ Rewrite(p, q)
      BY <2>2 DEF GroupHide
    <3>2. q \in ProjectType /\ q.id = p.id /\ q.slug = p.slug /\ q.hidden \subseteq q.groups
          /\ p.groups \subseteq q.groups
      BY <1>0, <3>1 DEF ProjectType
    <3> HIDE DEF q
    <3> QED
      BY <1>3, <3>1, <3>2
  <2>3. CASE GroupShow(p, g)
    <3> DEFINE q == [p EXCEPT !.hidden = @ \ {g}]
    <3>1. Rewrite(p, q)
      BY <2>3 DEF GroupShow
    <3>2. q \in ProjectType /\ q.id = p.id /\ q.slug = p.slug /\ q.hidden \subseteq q.groups
          /\ p.groups \subseteq q.groups
      BY <1>0 DEF ProjectType
    <3> HIDE DEF q
    <3> QED
      BY <1>3, <3>1, <3>2
  <2> QED
    BY <1>4, <2>1, <2>2, <2>3
<1>5. ASSUME NEW p \in projects, NEW g \in Groups, NEW q \in projects, GroupMove(p, g, q) PROVE Parts'
  <2> DEFINE source == [p EXCEPT !.groups = @ \ {g}, !.hidden = @ \ {g}]
             target == [q EXCEPT !.groups = @ \cup {g}, !.hidden = @ \cup (p.hidden \cap {g})]
  <2>1. /\ p # q /\ g \in p.groups \ q.groups
        /\ projects' = (projects \ {p, q}) \cup {source, target}
        /\ disk' = Save(Save(disk, source), target)
        /\ windows' = Reassigned(windows, Members(windows, p.id, g), q.id)
        /\ UNCHANGED <<active, hydrated, restoring, runs, recovery, spent, restarts>> /\ PersistRuntime
    BY <1>5 DEF GroupMove
  <2>2. /\ source \in ProjectType /\ source.id = p.id /\ source.slug = p.slug
        /\ source.groups = p.groups \ {g} /\ source.hidden \subseteq source.groups
    BY <1>0 DEF ProjectType
  <2>3. /\ target \in ProjectType /\ target.id = q.id /\ target.slug = q.slug
        /\ target.groups = q.groups \cup {g} /\ target.hidden \subseteq target.groups
    BY <1>0 DEF ProjectType
  <2> HIDE DEF source, target
  <2>4. ProjectsOK(projects', spent') /\ disk' = projects' /\ WindowsOK(windows', projects', spent')
    BY <1>0, <2>1, <2>2, <2>3, GroupMoved
  <2> QED
    BY <1>0, <2>1, <2>4, ProjectStep
<1> QED
  BY <1>2, <1>4, <1>5 DEF GroupRequest

\* What a restore run sends keeps the invariant, even when the run's project
\* is gone: ids are never handed out twice.
LEMMA RestoreKeepsParts == ASSUME Parts, RestoreCommand PROVE Parts'
<1> USE DEF RuntimeWritten
<1>0. /\ WindowsOK(windows, projects, spent) /\ RunsOK(runs, restoring, spent)
      /\ hydrated \in BOOLEAN /\ active \in Ids \cup {NULL}
  BY DEF Parts
<1>1. ASSUME NEW r \in runs, RestoreFinished(r) PROVE Parts'
  <2>1. RunsOK(runs', restoring', spent)
    BY <1>0, <1>1 DEF RestoreFinished, RunsOK, SlugsOf
  <2> QED
    BY <1>0, <1>1, <2>1, WindowStep DEF RestoreFinished
<1>2. ASSUME NEW r \in runs, NEW w \in Windows, NEW g \in r.groups, CorrelateRestore(r, w, g) PROVE Parts'
  <2>1. r.pid \in Ids /\ r.pid \in spent /\ g \in GroupOpt
    BY <1>0 DEF RunsOK
  <2>2. windows[w] # NULL /\ windows' = [windows EXCEPT ![w].asg = Mark(r.pid, g, "Restore")]
    BY <1>2 DEF CorrelateRestore
  <2>3. WindowsOK(windows', projects, spent)
    BY <2>1, <2>2, MarkedOK
  <2> QED
    BY <1>0, <1>2, <2>3, WindowStep DEF CorrelateRestore
<1> QED
  BY <1>1, <1>2 DEF RestoreCommand

\* A daemon started from the files of the last one is in order.
LEMMA RestartKeepsParts == ASSUME Parts, NEW graceful \in BOOLEAN, Restart(graceful) PROVE Parts'
<1> DEFINE left == IF graceful THEN RuntimeOf(windows, projects, active) ELSE runtime
<1>1. RuntimeOK(left, projects)
  <2>1. RuntimeOK(RuntimeOf(windows, projects, active), projects) /\ RuntimeOK(runtime, projects)
    BY RuntimeOfOK DEF Parts
  <2> QED
    BY <2>1
<1>2. /\ restarts < MaxRestarts /\ restarts' = restarts + 1 /\ runtime' = left /\ recovery' = left
      /\ projects' = disk /\ windows' = [w \in Windows |-> NULL] /\ active' = NULL
      /\ hydrated' = FALSE /\ restoring' = {} /\ runs' = {} /\ UNCHANGED <<disk, spent>>
  BY DEF Restart
<1> HIDE DEF left
<1>3. restarts' \in 0 .. MaxRestarts
  BY <1>2, BoundsAssumption DEF Parts
<1>4. WindowsOK(windows', projects', spent')
  BY <1>2 DEF WindowsOK, WindowOK
<1>5. RunsOK(runs', restoring', spent')
  BY <1>2 DEF RunsOK, SlugsOf
<1>6. ProjectsOK(projects', spent') /\ RuntimeOK(runtime', projects') /\ recovery' \in RuntimeType
  BY <1>1, <1>2 DEF Parts, RuntimeOK
<1> QED
  BY <1>2, <1>3, <1>4, <1>5, <1>6 DEF Parts

-----------------------------------------------------------------------------
(* The theorems. *)

\* The invariant is inductive: it holds of an empty daemon, and no command, no
\* request, no restore run and no restart breaks it.
THEOREM Invariance == Spec => []IInv
<1>1. Init => Parts
  <2> SUFFICES ASSUME Init PROVE Parts
    OBVIOUS
  <2>1. ProjectsOK(projects, spent) /\ WindowsOK(windows, projects, spent)
    BY DEF Init, ProjectsOK, WindowsOK, WindowOK
  <2>2. RuntimeOK(runtime, projects) /\ recovery \in RuntimeType
    BY DEF Init, RuntimeOK, RuntimeType, EmptyRuntime
  <2>3. RunsOK(runs, restoring, spent)
    BY DEF Init, RunsOK, SlugsOf
  <2>4. disk = projects /\ active \in Ids \cup {NULL} /\ hydrated \in BOOLEAN /\ spent \subseteq Ids
    BY DEF Init
  <2>5. restarts \in 0 .. MaxRestarts
    BY BoundsAssumption DEF Init
  <2> QED
    BY <2>1, <2>2, <2>3, <2>4, <2>5 DEF Parts
<1>2. ASSUME Parts, [Next]_vars PROVE Parts'
  <2>1. CASE Persist
    BY <2>1, <1>2, WindowStep DEF Persist, live, RuntimeWritten, Parts
  <2>2. CASE UNCHANGED vars
    BY <2>2, <1>2
    DEF vars, Parts, ProjectsOK, WindowsOK, WindowOK, RuntimeOK, RunsOK
  <2> QED
    BY <1>2, <2>1, <2>2, HyprKeepsParts, ProjectKeepsParts, GroupKeepsParts, RestoreKeepsParts,
       RestartKeepsParts DEF Next
<1>3. Parts => IInv
  BY PartsForm
<1> QED
  BY <1>1, <1>2, <1>3, PTL DEF Spec

\* Every variable keeps its type; annotations stay consistent.
THEOREM TypeCorrect == Spec => []TypeOK
<1>1. IInv => TypeOK
  BY DEF IInv
<1> QED
  BY <1>1, Invariance, PTL

\* Slugs and ids stay unique over create, duplicate, import, delete, restart.
THEOREM ProjectsStayUnique == Spec => []UniqueProjects
<1>1. IInv => UniqueProjects
  BY DEF IInv
<1> QED
  BY <1>1, Invariance, PTL

\* The project files are always what a restart has to load.
THEOREM FilesStayInStep == Spec => []FilesMatchProjects
<1>1. IInv => FilesMatchProjects
  BY DEF IInv
<1> QED
  BY <1>1, Invariance, PTL

\* One restore run per slug, and the slug is free again when the run is over.
THEOREM RestoresExclude == Spec => []RestoreExclusive
<1>1. IInv => RestoreExclusive
  BY DEF IInv
<1> QED
  BY <1>1, Invariance, PTL

\* Only a restore run that outlived its project leaves a dangling assignment.
THEOREM DeletedProjectsReleaseWindows == Spec => []OnlyRestoreDangles
<1>1. IInv => OnlyRestoreDangles
  BY DEF IInv
<1> QED
  BY <1>1, Invariance, PTL

\* What the next daemon recovers from never names a project that is gone.
THEOREM RuntimeStaysLive == Spec => []RuntimeNamesLiveProjects
<1>1. IInv => RuntimeNamesLiveProjects
  BY DEF IInv
<1> QED
  BY <1>1, Invariance, PTL

\* Windows inherit only groups their project has.
THEOREM InheritedGroupsExist == Spec => []InheritedGroupExists
<1>1. IInv => InheritedGroupExists
  BY DEF IInv
<1> QED
  BY <1>1, Invariance, PTL
-----------------------------------------------------------------------------
(* Precedence of annotations. *)

LEMMA RankRange == \A src : Rank(src) \in 0 .. 4
BY DEF Rank

LEMMA SameMayReplace == ASSUME NEW asg PROVE MayReplace(asg, asg)
BY RankRange DEF MayReplace

\* An unclaimed window may lose its annotation or get one of any source.
LEMMA UnclaimedMayReplace ==
  ASSUME NEW old, Unclaimed(old), NEW new, new = Unassigned \/ new.by \in Sources
  PROVE  MayReplace(old, new)
<1>1. CASE old.by = NULL
  <2>1. Rank(old.by) = 0
    BY <1>1, NullAssumption DEF Rank
  <2> QED
    BY <2>1, RankRange DEF MayReplace
<1>2. CASE old.by = "Inherited"
  BY <1>2 DEF MayReplace, Rank, Sources
<1> QED
  BY <1>1, <1>2 DEF Unclaimed

\* sync_inherited_assignment only touches unclaimed windows.
LEMMA SyncedMayReplace ==
  ASSUME NEW ps, NEW win \in TrackedWindows
  PROVE  MayReplace(win.asg, Synced(ps, win).asg)
<1>1. CASE Unclaimed(win.asg)
  <2>1. Synced(ps, win) = [win EXCEPT !.asg = Inherit(ps, win.ws)]
    BY <1>1 DEF Synced
  <2>2. Synced(ps, win).asg = Inherit(ps, win.ws)
    BY <2>1 DEF TrackedWindows
  <2>3. Inherit(ps, win.ws) = Unassigned \/ Inherit(ps, win.ws).by = "Inherited"
    BY DEF Inherit, Mark
  <2> QED
    BY <1>1, <2>2, <2>3, UnclaimedMayReplace DEF Sources
<1>2. CASE ~Unclaimed(win.asg)
  BY <1>2, SameMayReplace DEF Synced
<1> QED
  BY <1>1, <1>2

\* apply_rules followed by sync.
LEMMA RuledMayReplace ==
  ASSUME NEW ps, NEW rule, NEW win \in TrackedWindows, NEW old, old = win.asg,
         NEW ruled \in TrackedWindows, ruled.asg = Ruled(ps, old, rule)
  PROVE  MayReplace(old, Synced(ps, ruled).asg)
<1>1. CASE Unclaimed(old) /\ RuleTargets(ps, rule) # {}
  <2>1. ruled.asg.by = "Rule"
    BY <1>1 DEF Ruled
  <2>2. Synced(ps, ruled) = ruled
    BY <2>1, NullAssumption DEF Synced, Unclaimed
  <2> QED
    BY <1>1, <2>1, <2>2, UnclaimedMayReplace DEF Sources
<1>2. CASE ~(Unclaimed(old) /\ RuleTargets(ps, rule) # {})
  <2>1. ruled.asg = old
    BY <1>2 DEF Ruled
  <2> QED
    BY <2>1, SyncedMayReplace
<1> QED
  BY <1>1, <1>2

\* A project that is deleted or replaced may take its annotations with it.
LEMMA ReleasedMayReplace ==
  ASSUME Parts, NEW p \in projects, windows' = Released(windows, p.id),
         p.id \notin IdsOf(projects'), NEW w \in Windows, windows[w] # NULL
  PROVE  windows'[w] = windows[w] \/ MayReplace(windows[w].asg, windows'[w].asg)
<1>1. CASE windows[w].asg.pid = p.id
  <2>1. windows[w] \in TrackedWindows
    BY TrackedOK
  <2>2. windows'[w].asg = Unassigned
    BY <1>1, <2>1 DEF Released, TrackedWindows
  <2> QED
    BY <1>1, <2>2 DEF MayReplace
<1>2. CASE windows[w].asg.pid # p.id
  BY <1>2 DEF Released
<1> QED
  BY <1>1, <1>2
Respected(w) == windows'[w] \in {NULL, windows[w]} \/ MayReplace(windows[w].asg, windows'[w].asg)

\* Events from the Hyprland task respect the precedence.
LEMMA HyprRespects ==
  ASSUME Parts, HyprCommand, NEW w \in Windows, windows[w] # NULL PROVE Respected(w)
<1> USE DEF Respected
<1>0. /\ ProjectsOK(projects, spent) /\ windows \in [Windows -> TrackedWindows \cup {NULL}]
      /\ windows[w] \in TrackedWindows /\ Sound(windows[w].asg, projects, spent)
      /\ recovery \in RuntimeType
  BY TrackedOK DEF Parts, WindowsOK
<1> DEFINE old == windows[w].asg
<1>1. ASSUME NEW dump \in Dumps, Hydrate(dump) PROVE Respected(w)
  <2> DEFINE key(v) == IF dump[v].sid # NULL THEN dump[v].sid ELSE v
             base == [v \in Windows |->
                        IF v \notin DOMAIN dump THEN NULL
                        ELSE [ws |-> dump[v].ws, sid |-> dump[v].sid,
                              asg |-> Recovered(projects, key(v), Kept(v))]]
  <2>1. windows' = [v \in Windows |-> IF base[v] = NULL THEN NULL ELSE Synced(projects, base[v])]
    BY <1>1 DEF Hydrate
  <2> SUFFICES ASSUME base[w] # NULL PROVE MayReplace(old, Synced(projects, base[w]).asg)
    <3> HIDE DEF base
    <3> QED
      BY <2>1
  <2>2. dump[w].ws \in Places /\ dump[w].sid \in StableIds \cup {NULL}
    <3>1. dump \in UNION {[D -> [ws : Places, sid : StableIds \cup {NULL}]] : D \in SUBSET Windows}
          /\ w \in DOMAIN dump
      BY DEF Dumps
    <3> QED
      BY <3>1
  <2>3. base[w].asg = Recovered(projects, key(w), old)
    BY DEF Kept
  <2>4. Sound(base[w].asg, projects, spent)
    BY <1>0, <2>3, RecoveredSound
  <2>5. base[w] = [ws |-> dump[w].ws, sid |-> dump[w].sid, asg |-> base[w].asg]
    OBVIOUS
  <2> HIDE DEF base
  <2>6. base[w] \in TrackedWindows
    BY <2>2, <2>4, <2>5 DEF TrackedWindows, Sound, AnnotationOK
  <2>7. CASE old.by = NULL
    <3>1. Rank(old.by) = 0
      BY <2>7, NullAssumption DEF Rank
    <3> QED
      BY <3>1, RankRange DEF MayReplace
  <2>8. CASE old.by # NULL
    <3>1. base[w].asg = old
      BY <2>3, <2>8 DEF Recovered
    <3> HIDE DEF old
    <3> QED
      BY <2>6, <3>1, SyncedMayReplace
  <2> QED
    BY <2>7, <2>8
<1>2. ASSUME NEW v \in Windows, CloseWindow(v) PROVE Respected(w)
  BY <1>0, <1>2 DEF CloseWindow
<1>3. ASSUME NEW v \in Windows, NEW place \in Places, OpenWindow(v, place) PROVE Respected(w)
  <2>1. CASE v = w
    <3>1. windows'[w].asg = old
      BY <1>0, <1>3, <2>1 DEF OpenWindow, Upserted
    <3> QED
      BY <3>1, SameMayReplace
  <2>2. CASE v # w
    BY <1>0, <1>3, <2>2 DEF OpenWindow
  <2> QED
    BY <2>1, <2>2
<1>4. ASSUME NEW v \in Windows, NEW place \in Places, MoveWindow(v, place) PROVE Respected(w)
  <2>1. CASE v = w
    <3> DEFINE moved == [windows[w] EXCEPT !.ws = place]
    <3>1. windows'[w] = Synced(projects, moved)
      BY <1>0, <1>4, <2>1 DEF MoveWindow
    <3>2. moved \in TrackedWindows /\ moved.asg = old
      BY <1>0 DEF TrackedWindows
    <3> HIDE DEF moved, old
    <3>3. MayReplace(old, windows'[w].asg)
      BY <3>1, <3>2, SyncedMayReplace
    <3> QED
      BY <3>3 DEF old
  <2>2. CASE v # w
    BY <1>0, <1>4, <2>2 DEF MoveWindow
  <2> QED
    BY <2>1, <2>2
<1>5. ASSUME NEW v \in Windows, NEW sid \in StableIds \cup {NULL}, NEW place \in Places,
             NEW rule \in Rules \cup {NULL}, WindowFacts(v, sid, place, rule)
      PROVE  Respected(w)
  <2>1. CASE v = w
    <3> DEFINE seen  == Upserted(w, sid, place)
               ruled == [seen EXCEPT !.asg = Ruled(projects, seen.asg, rule)]
    <3>1. windows'[w] = Synced(projects, ruled)
      BY <1>0, <1>5, <2>1 DEF WindowFacts
    <3>2. seen \in TrackedWindows /\ seen.asg = old
      BY UpsertedOK DEF Kept
    <3> HIDE DEF seen
    <3>3. Sound(Ruled(projects, seen.asg, rule), projects, spent)
      BY <1>0, <3>2, RuledSound
    <3>4. ruled \in TrackedWindows /\ ruled.asg = Ruled(projects, old, rule)
      BY <3>2, <3>3 DEF TrackedWindows, Sound, AnnotationOK
    <3> HIDE DEF ruled, old
    <3>5. MayReplace(old, windows'[w].asg)
      BY <3>1, <3>2, <3>4, RuledMayReplace
    <3> QED
      BY <3>5 DEF old
  <2>2. CASE v # w
    BY <1>0, <1>5, <2>2 DEF WindowFacts
  <2> QED
    BY <2>1, <2>2
<1>6. ASSUME NEW place \in Places, FocusWorkspace(place) PROVE Respected(w)
  BY <1>6 DEF FocusWorkspace
<1> QED
  BY <1>1, <1>2, <1>3, <1>4, <1>5, <1>6 DEF HyprCommand

\* Requests on projects respect the precedence.
LEMMA ProjectRespects ==
  ASSUME Parts, ProjectRequest, NEW w \in Windows, windows[w] # NULL PROVE Respected(w)
<1> USE DEF Respected
<1>0. ProjectsOK(projects, spent) /\ windows \in [Windows -> TrackedWindows \cup {NULL}]
  BY DEF Parts, WindowsOK
<1>1. ASSUME NEW fetched \in Fetches, windows' = Refreshed(fetched) PROVE Respected(w)
  <2>1. windows'[w] = windows[w] \/ windows'[w].asg = windows[w].asg
    <3>1. windows[w] \in TrackedWindows
      BY TrackedOK
    <3> QED
      BY <1>1, <3>1 DEF Refreshed, TrackedWindows
  <2> QED
    BY <2>1, SameMayReplace
<1>2. ASSUME NEW p \in projects, ProjectDelete(p) PROVE Respected(w)
  <2>1. p.id \notin IdsOf(projects')
    BY <1>0, <1>2, ProjectRemoved DEF ProjectDelete
  <2> QED
    BY <1>2, <2>1, ReleasedMayReplace DEF ProjectDelete
<1>3. ASSUME NEW p \in projects, NEW i \in Ids, NEW d \in Imported, ProjectReplace(p, i, d)
      PROVE  Respected(w)
  <2>1. p.id \notin IdsOf(projects')
    <3>1. p.id \notin IdsOf(projects \ {p}) /\ p.id \in spent
      BY <1>0, ProjectRemoved DEF ProjectsOK
    <3> QED
      BY <1>3, <3>1 DEF ProjectReplace, Replace, NewProject, IdsOf
  <2> QED
    BY <1>3, <2>1, ReleasedMayReplace DEF ProjectReplace
<1>4. CASE UNCHANGED windows
  BY <1>4
<1> QED
  BY <1>1, <1>2, <1>3, <1>4
  DEF ProjectRequest, ProjectCreate, ProjectImport, ProjectDuplicate, AddProject, ProjectCapture,
      ProjectSwitch, ProjectClose, ProjectRestore, ProjectSave

\* Requests on windows and groups respect the precedence.
LEMMA GroupRespects ==
  ASSUME Parts, GroupRequest, NEW w \in Windows, windows[w] # NULL PROVE Respected(w)
<1> USE DEF Respected
<1>0. /\ windows \in [Windows -> TrackedWindows \cup {NULL}] /\ windows[w] \in TrackedWindows
      /\ windows[w].asg \in Annotations
  BY TrackedOK DEF Parts, WindowsOK, TrackedWindows
<1>1. ASSUME NEW p \in projects, NEW v \in Windows, NEW g, AssignManually(v, p, g) PROVE Respected(w)
  <2>1. v = w => windows'[w].asg.by = "Manual"
    BY <1>0, <1>1 DEF AssignManually, Mark, TrackedWindows
  <2>2. v # w => windows'[w] = windows[w]
    BY <1>0, <1>1 DEF AssignManually
  <2>3. windows'[w].asg.by = "Manual" => MayReplace(windows[w].asg, windows'[w].asg)
    BY DEF MayReplace, Rank
  <2> QED
    BY <2>1, <2>2, <2>3
<1>2. ASSUME NEW p \in projects, NEW g \in Groups, NEW q \in projects, GroupMove(p, g, q)
      PROVE  Respected(w)
  <2>1. windows'[w] = windows[w] \/ windows'[w] = [windows[w] EXCEPT !.asg.pid = q.id]
    BY <1>2 DEF GroupMove, Reassigned
  <2>2. windows'[w].asg.by = windows[w].asg.by
    BY <1>0, <2>1 DEF TrackedWindows, Annotations
  <2> QED
    BY <2>2, RankRange DEF MayReplace
<1>3. CASE UNCHANGED windows
  BY <1>3
<1> QED
  BY <1>1, <1>2, <1>3
  DEF GroupRequest, GroupCreate, GroupHide, GroupShow, Rewrite, WindowAssign, GroupAdd, GroupRemove

\* No step of the daemon overrules an annotation it must keep: rules and
\* workspaces never touch a window somebody claimed.
THEOREM PrecedenceHolds == Spec => PrecedenceRespected
<1>1. ASSUME Parts, Next, NEW w \in Windows, windows[w] # NULL PROVE Respected(w)
  <2>1. CASE RestoreCommand
    <3>1. CASE UNCHANGED windows
      BY <3>1 DEF Respected
    <3>2. ASSUME NEW r \in runs, NEW v \in Windows, NEW g, CorrelateRestore(r, v, g) PROVE Respected(w)
      <4>1. windows \in [Windows -> TrackedWindows \cup {NULL}] /\ windows[w] \in TrackedWindows
        BY <1>1, TrackedOK DEF Parts, WindowsOK
      <4>2. v = w => windows'[w].asg.by = "Restore"
        BY <3>2, <4>1 DEF CorrelateRestore, Mark, TrackedWindows
      <4>3. v # w => windows'[w] = windows[w]
        BY <3>2, <4>1 DEF CorrelateRestore
      <4> QED
        BY <4>2, <4>3 DEF MayReplace, Respected
    <3> QED
      BY <2>1, <3>1, <3>2 DEF RestoreCommand, RestoreFinished
  <2>2. CASE Persist
    BY <2>2 DEF Persist, live, Respected
  <2>3. CASE \E graceful \in BOOLEAN : Restart(graceful)
    BY <2>3 DEF Restart, Respected
  <2> QED
    BY <1>1, <2>1, <2>2, <2>3, HyprRespects, ProjectRespects, GroupRespects DEF Next
<1>2. ASSUME Parts, [Next]_vars
      PROVE  [\A w \in Tracked(windows) :
                windows'[w] \notin {NULL, windows[w]} => MayReplace(windows[w].asg, windows'[w].asg)]_vars
  BY <1>1, <1>2 DEF Tracked, Respected
<1>3. IInv => Parts
  BY PartsForm
<1> QED
  BY <1>2, <1>3, Invariance, PTL DEF Spec, PrecedenceRespected
=============================================================================
