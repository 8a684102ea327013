--------------------- MODULE ProjectRecordFiles_proofs ---------------------
(* What a project record names: its subprojects have their documents, what  *)
(* sessions target exists and goals stay, under any number of commands,     *)
(* names, repositories, sessions and goals.                                 *)
EXTENDS ProjectRecord_proofs, FiniteSetTheorems, WellFoundedInduction

New(c) == IF c.op = "branch" THEN Branch(c.name, c.to, c.repo) ELSE Regular(c.name)
Closed(y, n) == With(y, n, [y.subs[n] EXCEPT !.archived = TRUE, !.file = Archive(n)])
Moved(y, n, m) == With(y, n, [y.subs[n] EXCEPT !.file = Md(m)])

(* A command that will write the record, by what it does to it: it has read *)
(* it and not changed its copy, or has put in the entry it makes, or has    *)
(* written it.                                                              *)
Making(c) ==
    \/ c.op \in {"add", "branch"} /\ c.at \in {"md", "yaml"}
    \/ c.op = "ensure" /\ c.at = "yaml"
Copies(c) ==
    \/ c.op = "ensure" /\ c.at \in {"main", "sub"}
    \/ c.op = "merge" /\ c.at \in Merging \ {"unlink", "restore", "revert"}
    \/ c.op \in {"found", "link", "unlink"} /\ c.at = "yaml"
    \/ c.op = "rename" /\ c.at = "md"
    \/ c.op = "remove" /\ c.at \in {"md", "yaml"}
    \/ c.at = "stamp"
Holds(c) ==
    /\ c.op = "none" => c.at = "idle"
    /\ Copies(c) => c.seen = yaml
    /\ c.at = "stamp" => c.op \in Writers \union {"risk"}
    /\ c.op = "ensure" /\ c.at \in {"main", "sub"} => yaml.made
    /\ Making(c) => /\ c.name \in Names /\ ~Has(yaml, c.name) /\ yaml.made
                    /\ c.seen = With(yaml, c.name, New(c))
                    /\ c.op # "ensure" => c.was = yaml
                    /\ c.at = "yaml" => doc[Md(c.name)] # NoDoc
    /\ c.op = "merge" /\ c.at \in Merging =>
          /\ Live(c.seen, c.name) /\ c.seen.made
          /\ \E m \in Targets : /\ m # c.name /\ (m = Main \/ Live(c.seen, m))
                                /\ c.file = FileOf(c.seen, m)
          /\ c.at \notin {"lock", "read"} => c.was = c.seen
          /\ c.at = "unlink" => yaml = Closed(c.seen, c.name)
          /\ c.at \in {"restore", "revert"} => yaml \in {c.seen, Closed(c.seen, c.name)}
    /\ c.op = "rename" /\ c.at \in {"md", "yaml"} => Has(yaml, c.name) /\ ~Has(yaml, c.to)
    /\ c.op = "rename" /\ c.at = "yaml" => c.seen \in {yaml, Moved(yaml, c.name, c.to)}
    /\ c.op = "remove" /\ c.at \in {"md", "yaml"} => Has(yaml, c.name)
    /\ c.op = "relink" /\ c.at = "yaml" => c.seen = Relinked(yaml, c.repo, c.new)

(* As long as no command without a lock ran beside another: one that runs,  *)
(* runs alone, and what the others have read is the record as it is.        *)
Alone == \A p, q \in Procs : p # q /\ Busy(p) /\ Busy(q) => cmd[p].op \notin Unlocked
Founding == yaml.made \/ \A n \in Names : ~Has(yaml, n)
HoldInv == overlap \/ (Founding /\ Alone /\ \A p \in Procs : Holds(cmd[p]))

(* An entry's document has its own name, in the folder or the archive.      *)
Owned(y) ==
    \A n \in Names : Has(y, n) =>
       /\ y.subs[n].file \in {Md(n), Archive(n)}
       /\ ~y.subs[n].archived => y.subs[n].file = Md(n)
Halfway(n) ==
    \E p \in Procs : /\ cmd[p].op \in {"rename", "remove"} /\ cmd[p].at = "yaml"
                     /\ cmd[p].name = n
Kept(c) ==
    /\ c.op = "rename" /\ c.at = "yaml" =>
          c.seen = Moved(yaml, c.name, c.to) /\ doc[Md(c.to)] # NoDoc
    /\ c.op = "merge" /\ c.at \in Merging => c.seen.subs[c.name].file = Md(c.name)
    /\ c.op = "merge" /\ c.at \in {"parent", "yaml"} => doc[Archive(c.name)] # NoDoc
    /\ c.op = "merge" /\ c.at \in {"unlink", "restore", "revert"} => doc[Md(c.name)] # NoDoc
DocInv ==
    \/ overlap \/ killed \intersect {"rename", "remove"} # {}
    \/ /\ Owned(yaml)
       /\ \A n \in Names : Has(yaml, n) /\ ~Halfway(n) => doc[yaml.subs[n].file] # NoDoc
       /\ \A p \in Procs : Kept(cmd[p])

(* A repository that a relink takes out of the catalog, a subproject that a *)
(* rename took out of the record, and what the commands rely on.            *)
Relinking(A) == {cmd[p].repo : p \in {q \in Procs : cmd[q].op = "relink" /\ cmd[q].at \in A}}
Renaming(n) == \E p \in Procs : At(p, "rename", "sessions") /\ cmd[p].name = n
Reaches(c) ==
    /\ c.at = "point" => /\ c.op \in {"add", "set"} /\ c.seen.repos \subseteq catalog
                         /\ c.name = Main \/ Has(yaml, c.name)
    /\ c.op = "link" /\ c.at = "yaml" => c.repo \in catalog
    /\ c.op = "found" /\ c.at \in {"read", "yaml"} => c.repo \in catalog
    /\ c.op = "drop" /\ c.at = "file" =>
          c.repo \notin yaml.repos /\ \A s \in Sessions : c.repo \notin sess[s].repos
    /\ c.op = "relink" /\ c.at \in {"read", "yaml", "sessions"} => c.new \in catalog
    /\ c.op = "rename" /\ c.at = "sessions" => Has(yaml, c.to)
    /\ c.op = "remove" /\ c.at \in {"md", "yaml"} => \A s \in Sessions : sess[s].sub # c.name
TargetInv ==
    \/ overlap \/ killed # {}
    \/ /\ yaml.repos \subseteq catalog \union Relinking({"file", "read", "yaml"})
       /\ \A s \in Sessions :
            /\ sess[s].repos \subseteq
                  catalog \union Relinking({"file", "read", "yaml", "sessions"})
            /\ sess[s].sub = Main \/ Has(yaml, sess[s].sub) \/ Renaming(sess[s].sub)
       /\ \A p \in Procs : Reaches(cmd[p])

-----------------------------------------------------------------------------
(* A step is one command's: it begins, or goes on with what it does, or     *)
(* ends.                                                                    *)
LEMMA Course ==
    ASSUME TypeInv, NEW p \in Procs, Acts(p)
    PROVE  /\ \A q \in Procs \ {p} : cmd'[q] = cmd[q]
           /\ killed \subseteq killed'
           /\ cmd'[p].at = "point" => SelectLook(p)
           /\ \/ overlap' = overlap /\ cmd'[p].op \in {cmd[p].op, "none"}
              \/ \E c \in Commands : Call(p, c)
<1>. DEFINE Goal == /\ \A q \in Procs \ {p} : cmd'[q] = cmd[q]
                    /\ killed \subseteq killed'
                    /\ cmd'[p].at = "point" => SelectLook(p)
                    /\ \/ overlap' = overlap /\ cmd'[p].op \in {cmd[p].op, "none"}
                       \/ \E c \in Commands : Call(p, c)
<1>a. cmd \in [Procs -> Commands] /\ cmd[p] \in Commands
  BY DEF TypeInv, TypeOK
<1>b. ASSUME Leave(p), killed \subseteq killed' PROVE Goal
  BY <1>a, <1>b DEF Leave, Idle
<1>c. ASSUME NEW c, Goto(p, c), c.op = cmd[p].op, c.at # "point" \/ SelectLook(p) PROVE Goal
  BY <1>a, <1>c DEF Goto
<1>d. ASSUME CallRecord(p) \/ CallRepository(p) \/ CallEntry(p) PROVE Goal
  <2>1. PICK c \in Commands : Call(p, c)
    BY <1>d, Asked
  <2>2. \A q \in Procs \ {p} : cmd'[q] = cmd[q]
    BY <2>1, <1>a DEF Call
  <2>3. killed' = killed /\ cmd'[p].at = "go"
    BY <2>1, <1>a DEF Call, Commands
  <2>. QED  BY <2>1, <2>2, <2>3
<1>e. \A x, y, z :
         /\ [cmd[p] EXCEPT !.at = x].op = cmd[p].op
         /\ [cmd[p] EXCEPT !.at = x].at = x
         /\ [cmd[p] EXCEPT !.at = x, !.seen = y].op = cmd[p].op
         /\ [cmd[p] EXCEPT !.at = x, !.seen = y].at = x
         /\ [cmd[p] EXCEPT !.at = x, !.file = y].op = cmd[p].op
         /\ [cmd[p] EXCEPT !.at = x, !.file = y].at = x
  BY <1>a DEF Commands
<1>. SUFFICES Goal  OBVIOUS
<1>. HIDE DEF Goal
<1>1. CASE CallRecord(p)
  BY <1>1, <1>d
<1>2. CASE CallRepository(p)
  BY <1>2, <1>d
<1>3. CASE CallEntry(p)
  BY <1>3, <1>d
<1>4. CASE Kill(p)
  BY <1>4, <1>b DEF Kill
<1>5. CASE EnsureLock(p)
  BY <1>a, <1>5 DEF EnsureLock, At, LockRecord, Goto, Commands, Goal
<1>6. CASE EnsureMain(p)
  BY <1>6, <1>c, <1>e DEF EnsureMain, Onward
<1>7. CASE EnsureSub(p)
  <2>1. CASE Fail(p)
    BY <2>1, <1>b DEF Fail, Return
  <2>2. CASE ~Fail(p)
    BY <1>a, <1>7, <2>2 DEF EnsureSub, Goto, Commands, Goal
  <2>. QED  BY <2>1, <2>2
<1>8. CASE AddLook(p)
  <2>1. CASE Fail(p)
    BY <2>1, <1>b DEF Fail, Return
  <2>2. CASE ~Fail(p)
    <3>. DEFINE c == [cmd[p] EXCEPT !.at = "md", !.was = yaml,
                          !.seen = With(yaml, cmd[p].name, Regular(cmd[p].name))]
    <3>1. Onward(p, "select") \/ Goto(p, c)
      BY <1>8, <2>2 DEF AddLook
    <3>2. c.op = cmd[p].op /\ c.at = "md"
      BY <1>a DEF Commands
    <3>. HIDE DEF c
    <3>. QED  BY <3>1, <3>2, <1>c, <1>e DEF Onward
  <2>. QED  BY <2>1, <2>2
<1>9. CASE BranchLook(p)
  <2>1. CASE Fail(p)
    BY <2>1, <1>b DEF Fail, Return
  <2>2. CASE ~Fail(p)
    BY <1>a, <1>9, <2>2 DEF BranchLook, Goto, Commands, Goal
  <2>. QED  BY <2>1, <2>2
<1>10. CASE CreateMd(p)
  BY <1>10, <1>b, <1>c, <1>e DEF CreateMd, Fail, Return, Onward
<1>11. CASE CreateYaml(p)
  BY <1>a, <1>11, <1>b DEF CreateYaml, Goto, Return, Commands, Goal
<1>12. CASE CreateFail(p)
  BY <1>12, <1>b DEF CreateFail, Return
<1>13. CASE SelectLook(p)
  BY <1>13, <1>b, <1>c, <1>e DEF SelectLook, Fail, Return
<1>14. CASE SelectPoint(p)
  BY <1>14, <1>b DEF SelectPoint, Return
<1>15. CASE MergeLook(p)
  <2>1. CASE Fail(p)
    BY <2>1, <1>b DEF Fail, Return
  <2>2. CASE ~Fail(p)
    BY <1>a, <1>15, <2>2 DEF MergeLook, Goto, Commands, Goal
  <2>. QED  BY <2>1, <2>2
<1>16. CASE MergeLock(p)
  BY <1>16, <1>c, <1>e DEF MergeLock, Onward
<1>17. CASE MergeRead(p)
  <2>1. CASE Fail(p)
    BY <2>1, <1>b DEF Fail, Return
  <2>2. CASE ~Fail(p)
    <3>. DEFINE c == [cmd[p] EXCEPT !.at = "archive", !.was = yaml,
                          !.text = doc[Merged(p).file], !.other = doc[cmd[p].file]]
    <3>1. Goto(p, c)
      BY <1>17, <2>2 DEF MergeRead
    <3>2. c.op = cmd[p].op /\ c.at = "archive"
      BY <1>a DEF Commands
    <3>. HIDE DEF c
    <3>. QED  BY <3>1, <3>2, <1>c
  <2>. QED  BY <2>1, <2>2
<1>18. CASE MergeArchive(p)
  BY <1>18, <1>c, <1>e DEF MergeArchive, Onward
<1>19. CASE MergeParent(p)
  BY <1>19, <1>c, <1>e DEF MergeParent, Onward
<1>20. CASE MergeYaml(p)
  BY <1>20, <1>c, <1>e DEF MergeYaml, Onward
<1>21. CASE MergeUnlink(p)
  BY <1>21, <1>b DEF MergeUnlink, Return
<1>22. CASE MergeFail(p)
  <2>1. Onward(p, "restore")
    BY <1>22 DEF MergeFail
  <2>. QED  BY <2>1, <1>c, <1>e DEF Onward
<1>23. CASE MergeRestore(p)
  BY <1>23, <1>c, <1>e DEF MergeRestore, Onward
<1>24. CASE MergeRevert(p)
  BY <1>24, <1>c, <1>e DEF MergeRevert, Onward
<1>25. CASE MergeDiscard(p)
  BY <1>25, <1>b DEF MergeDiscard, Return
<1>26. CASE RenameLook(p)
  <2>1. CASE Fail(p)
    BY <2>1, <1>b DEF Fail, Return
  <2>2. CASE ~Fail(p)
    <3>. DEFINE c == [cmd[p] EXCEPT !.at = "md", !.seen = yaml]
    <3>1. Goto(p, c)
      BY <1>26, <2>2 DEF RenameLook
    <3>2. c.op = cmd[p].op /\ c.at = "md"
      BY <1>a DEF Commands
    <3>. HIDE DEF c
    <3>. QED  BY <3>1, <3>2, <1>c
  <2>. QED  BY <2>1, <2>2
<1>27. CASE RenameMd(p)
  <2>1. CASE Fail(p)
    BY <2>1, <1>b DEF Fail, Return
  <2>2. CASE ~Fail(p)
    BY <1>a, <1>27, <2>2 DEF RenameMd, Onward, Goto, Commands, Goal
  <2>. QED  BY <2>1, <2>2
<1>28. CASE RenameYaml(p)
  BY <1>28, <1>c, <1>e DEF RenameYaml, Onward
<1>29. CASE RenameSessions(p)
  BY <1>29, <1>b DEF RenameSessions, Return
<1>30. CASE RemoveLook(p)
  <2>1. CASE Fail(p)
    BY <2>1, <1>b DEF Fail, Return
  <2>2. CASE ~Fail(p)
    <3>. DEFINE c == [cmd[p] EXCEPT !.at = "md", !.seen = yaml]
    <3>1. Goto(p, c)
      BY <1>30, <2>2 DEF RemoveLook
    <3>2. c.op = cmd[p].op /\ c.at = "md"
      BY <1>a DEF Commands
    <3>. HIDE DEF c
    <3>. QED  BY <3>1, <3>2, <1>c
  <2>. QED  BY <2>1, <2>2
<1>31. CASE RemoveMd(p)
  BY <1>31, <1>c, <1>e DEF RemoveMd, Onward
<1>32. CASE RemoveYaml(p)
  BY <1>32, <1>b DEF RemoveYaml, Return
<1>33. CASE AddRepository(p)
  BY <1>33, <1>b DEF AddRepository, Return
<1>34. CASE FoundRegister(p)
  <2>1. CASE Fail(p)
    BY <2>1, <1>b DEF Fail, Return
  <2>2. CASE ~Fail(p)
    BY <1>a, <1>34, <2>2 DEF FoundRegister, Onward, Goto, Commands, Goal
  <2>. QED  BY <2>1, <2>2
<1>35. CASE FoundRead(p)
  BY <1>a, <1>35 DEF FoundRead, At, LockRecord, Goto, Commands, Goal
<1>36. CASE LinkRead(p)
  <2>1. CASE Fail(p)
    BY <2>1, <1>b DEF Fail, Return
  <2>2. CASE ~Fail(p)
    BY <1>a, <1>36, <2>2 DEF LinkRead, Goto, Commands, Goal
  <2>. QED  BY <2>1, <2>2
<1>37. CASE LinkWrite(p)
  BY <1>37, <1>b DEF LinkWrite, Return
<1>38. CASE DropLook(p)
  BY <1>38, <1>b, <1>c, <1>e DEF DropLook, Fail, Return, Onward
<1>39. CASE DropRemove(p)
  BY <1>39, <1>b DEF DropRemove, Return
<1>40. CASE RelinkMove(p)
  BY <1>40, <1>b, <1>c, <1>e DEF RelinkMove, Fail, Return, Onward
<1>41. CASE RelinkFile(p)
  BY <1>41, <1>c, <1>e DEF RelinkFile, Onward
<1>42. CASE RelinkRead(p)
  BY <1>a, <1>42 DEF RelinkRead, At, Goto, Commands, Goal
<1>43. CASE RelinkYaml(p)
  BY <1>43, <1>c, <1>e DEF RelinkYaml, Onward
<1>44. CASE RelinkSessions(p)
  BY <1>44, <1>b DEF RelinkSessions, Return
<1>45. CASE Target(p)
  <2>1. CASE Fail(p)
    BY <2>1, <1>b DEF Fail, Return
  <2>2. CASE ~Fail(p)
    BY <1>a, <1>45, <2>2 DEF Target, Goto, Commands, Goal
  <2>. QED  BY <2>1, <2>2
<1>46. CASE Read(p)
  <2>1. CASE Fail(p)
    BY <2>1, <1>b DEF Fail, Return
  <2>2. CASE ~Fail(p)
    BY <1>a, <1>46, <2>2 DEF Read, Goto, Commands, Goal
  <2>. QED  BY <2>1, <2>2
<1>47. CASE GoalWrite(p)
  <2>1. CASE Fail(p)
    BY <2>1, <1>b DEF Fail, Return
  <2>2. CASE ~Fail(p)
    BY <1>a, <1>47, <2>2 DEF GoalWrite, Stamping, Goto, Commands, Goal
  <2>. QED  BY <2>1, <2>2
<1>48. CASE DecisionWrite(p)
  BY <1>a, <1>48 DEF DecisionWrite, At, Stamping, Goto, Commands, Goal
<1>49. CASE ReportTruncate(p)
  BY <1>49, <1>c, <1>e DEF ReportTruncate, Onward
<1>50. CASE ReportFill(p)
  BY <1>a, <1>50 DEF ReportFill, At, Stamping, Goto, Commands, Goal
<1>51. CASE TouchRead(p)
  <2>1. CASE Fail(p)
    BY <2>1, <1>b DEF Fail, Return
  <2>2. CASE ~Fail(p)
    BY <1>a, <1>51, <2>2 DEF TouchRead, Goto, Commands, Goal
  <2>. QED  BY <2>1, <2>2
<1>52. CASE RiskRead(p)
  <2>1. CASE Fail(p)
    BY <2>1, <1>b DEF Fail, Return
  <2>2. CASE ~Fail(p)
    <3>. DEFINE c == [cmd[p] EXCEPT !.at = "stamp", !.seen = yaml]
    <3>1. Goto(p, c)
      BY <1>52, <2>2 DEF RiskRead
    <3>2. c.op = cmd[p].op /\ c.at = "stamp"
      BY <1>a DEF Commands
    <3>. HIDE DEF c
    <3>. QED  BY <3>1, <3>2, <1>c
  <2>. QED  BY <2>1, <2>2
<1>53. CASE Stamp(p)
  BY <1>53, <1>b DEF Stamp, Return
<1>. QED
  BY <1>1, <1>2, <1>3, <1>4, <1>5, <1>6, <1>7, <1>8, <1>9, <1>10, <1>11, <1>12, <1>13,
     <1>14, <1>15, <1>16, <1>17, <1>18, <1>19, <1>20, <1>21, <1>22, <1>23, <1>24, <1>25,
     <1>26, <1>27, <1>28, <1>29, <1>30, <1>31, <1>32, <1>33, <1>34, <1>35, <1>36, <1>37,
     <1>38, <1>39, <1>40, <1>41, <1>42, <1>43, <1>44, <1>45, <1>46, <1>47, <1>48, <1>49,
     <1>50, <1>51, <1>52, <1>53
  DEF Acts, Step, Create, Select, Merge, Move, Repository, Entry

(* The record is written, and a document taken away, only by a command that *)
(* holds the record's lock, takes it, or needs none.                        *)
LEMMA StepFiles ==
    ASSUME TypeInv, NEW p \in Procs, Acts(p), Holds(cmd[p])
    PROVE  \/ \E c : Call(p, c) /\ UNCHANGED files
           \/ /\ Busy(p)
              /\ \/ /\ yaml' = yaml
                    /\ \A f \in Files : doc[f] # NoDoc => doc'[f] # NoDoc
                 \/ Recording(cmd[p]) \/ ylock = Nobody \/ cmd[p].op \in Unlocked
<1>. DEFINE Grow == yaml' = yaml /\ \A f \in Files : doc[f] # NoDoc => doc'[f] # NoDoc
<1>. DEFINE Goal == \/ \E c : Call(p, c) /\ UNCHANGED files
                    \/ Busy(p) /\ (Grow \/ Recording(cmd[p]) \/ ylock = Nobody
                                   \/ cmd[p].op \in Unlocked)
<1>. SUFFICES Goal  OBVIOUS
<1>a. /\ cmd[p].op = "none" => cmd[p].at = "idle"
      /\ cmd[p].at = "stamp" => cmd[p].op \in {"goal", "decision", "report", "risk"}
  BY DEF Holds, Writers
<1>b. UNCHANGED files => Grow
  BY DEF files
<1>c. Stub \in Docs /\ Blank \in Docs /\ NoDoc \notin Docs /\ cmd[p].text \in Docs
  BY Values, Here, NothingAssumption DEF Commands
<1>d. ASSUME CallRecord(p) \/ CallRepository(p) \/ CallEntry(p) PROVE Goal
  BY <1>d, Asked DEF Call
<1>e. doc \in [Files -> Docs \union {NoDoc}]
  BY DEF TypeInv, TypeOK
<1>f. ASSUME UNCHANGED files, Busy(p) PROVE Goal
  BY <1>b, <1>f
<1>g. ASSUME Recording(cmd[p]), Busy(p) PROVE Goal
  BY <1>g
<1>h. ASSUME cmd[p].op \in Unlocked, Busy(p) PROVE Goal
  BY <1>h
<1>i. ASSUME UNCHANGED <<yaml, doc>>, Busy(p) PROVE Goal
  BY <1>i
<1>. HIDE DEF Goal
<1>1. CASE CallRecord(p)
  BY <1>1, <1>d
<1>2. CASE CallRepository(p)
  BY <1>2, <1>d
<1>3. CASE CallEntry(p)
  BY <1>3, <1>d
<1>4. CASE Kill(p)
  BY <1>4, <1>f DEF Kill
<1>5. CASE EnsureLock(p)
  BY <1>5 DEF EnsureLock, At, LockRecord, Busy, Goal
<1>6. CASE EnsureMain(p)
  BY <1>6, <1>a, <1>g DEF EnsureMain, At, Busy, Recording, Merging, Writers
<1>7. CASE EnsureSub(p)
  BY <1>7, <1>a, <1>g DEF EnsureSub, At, Busy, Recording, Merging, Writers
<1>8. CASE AddLook(p)
  BY <1>8, <1>a, <1>f, <1>i DEF AddLook, At, Fail, Busy, files
<1>9. CASE BranchLook(p)
  BY <1>9, <1>a, <1>f, <1>i DEF BranchLook, At, Fail, Busy, files
<1>10. CASE CreateMd(p)
  BY <1>10, <1>a, <1>g DEF CreateMd, Busy, Recording, Merging, Writers
<1>11. CASE CreateYaml(p)
  BY <1>11, <1>a, <1>g DEF CreateYaml, Busy, Recording, Merging, Writers
<1>12. CASE CreateFail(p)
  BY <1>12, <1>a, <1>g DEF CreateFail, Busy, Recording, Merging, Writers
<1>13. CASE SelectLook(p)
  BY <1>13, <1>a, <1>f, <1>i DEF SelectLook, At, Fail, Busy, files
<1>14. CASE SelectPoint(p)
  BY <1>14, <1>a, <1>f, <1>i DEF SelectPoint, Busy, files
<1>15. CASE MergeLook(p)
  BY <1>15, <1>a, <1>f, <1>i DEF MergeLook, At, Fail, Busy, files
<1>16. CASE MergeLock(p)
  BY <1>16, <1>a, <1>g DEF MergeLock, At, Busy, Recording, Merging, Writers
<1>17. CASE MergeRead(p)
  BY <1>17, <1>a, <1>g DEF MergeRead, At, Busy, Recording, Merging, Writers
<1>18. CASE MergeArchive(p)
  BY <1>18, <1>a, <1>g DEF MergeArchive, At, Busy, Recording, Merging, Writers
<1>19. CASE MergeParent(p)
  BY <1>19, <1>a, <1>g DEF MergeParent, At, Busy, Recording, Merging, Writers
<1>20. CASE MergeYaml(p)
  BY <1>20, <1>a, <1>g DEF MergeYaml, At, Busy, Recording, Merging, Writers
<1>21. CASE MergeUnlink(p)
  BY <1>21, <1>a, <1>g DEF MergeUnlink, At, Busy, Recording, Merging, Writers
<1>22. CASE MergeFail(p)
  BY <1>22, <1>a, <1>g DEF MergeFail, Busy, Recording, Merging, Writers
<1>23. CASE MergeRestore(p)
  BY <1>23, <1>a, <1>g DEF MergeRestore, At, Busy, Recording, Merging, Writers
<1>24. CASE MergeRevert(p)
  BY <1>24, <1>a, <1>g DEF MergeRevert, At, Busy, Recording, Merging, Writers
<1>25. CASE MergeDiscard(p)
  BY <1>25, <1>a, <1>g DEF MergeDiscard, At, Busy, Recording, Merging, Writers
<1>26. CASE RenameLook(p)
  BY <1>26, <1>h DEF RenameLook, At, Busy, Unlocked
<1>27. CASE RenameMd(p)
  BY <1>27, <1>h DEF RenameMd, At, Busy, Unlocked
<1>28. CASE RenameYaml(p)
  BY <1>28, <1>h DEF RenameYaml, At, Busy, Unlocked
<1>29. CASE RenameSessions(p)
  BY <1>29, <1>h DEF RenameSessions, At, Busy, Unlocked
<1>30. CASE RemoveLook(p)
  BY <1>30, <1>h DEF RemoveLook, At, Busy, Unlocked
<1>31. CASE RemoveMd(p)
  BY <1>31, <1>h DEF RemoveMd, At, Busy, Unlocked
<1>32. CASE RemoveYaml(p)
  BY <1>32, <1>h DEF RemoveYaml, At, Busy, Unlocked
<1>33. CASE AddRepository(p)
  BY <1>33, <1>a, <1>f, <1>i DEF AddRepository, At, Busy, files
<1>34. CASE FoundRegister(p)
  BY <1>34, <1>a, <1>f, <1>i DEF FoundRegister, At, Fail, Busy, files
<1>35. CASE FoundRead(p)
  BY <1>35, <1>a, <1>f, <1>i DEF FoundRead, At, Busy, files
<1>36. CASE LinkRead(p)
  BY <1>36, <1>h DEF LinkRead, Busy, Unlocked
<1>37. CASE LinkWrite(p)
  BY <1>37, <1>g, <1>h DEF LinkWrite, Busy, Recording, Unlocked
<1>38. CASE DropLook(p)
  BY <1>38, <1>h DEF DropLook, At, Busy, Unlocked
<1>39. CASE DropRemove(p)
  BY <1>39, <1>h DEF DropRemove, At, Busy, Unlocked
<1>40. CASE RelinkMove(p)
  BY <1>40, <1>h DEF RelinkMove, At, Busy, Unlocked
<1>41. CASE RelinkFile(p)
  BY <1>41, <1>h DEF RelinkFile, At, Busy, Unlocked
<1>42. CASE RelinkRead(p)
  BY <1>42, <1>h DEF RelinkRead, At, Busy, Unlocked
<1>43. CASE RelinkYaml(p)
  BY <1>43, <1>h DEF RelinkYaml, At, Busy, Unlocked
<1>44. CASE RelinkSessions(p)
  BY <1>44, <1>h DEF RelinkSessions, At, Busy, Unlocked
<1>45. CASE Target(p)
  BY <1>45, <1>a, <1>f, <1>i DEF Target, Fail, Busy, files, Writers
<1>46. CASE Read(p)
  BY <1>46, <1>a, <1>f, <1>i DEF Read, Fail, Busy, files, Writers
<1>47. CASE GoalWrite(p)
  <2>1. CASE Fail(p)
    BY <2>1, <1>f, <1>47 DEF GoalWrite, At, Fail, Busy
  <2>2. CASE ~Fail(p)
    <3>1. PICK e \in Edited(cmd[p].text, cmd[p].edit, cmd[p].goal) :
             doc' = [doc EXCEPT ![cmd[p].file] = e] /\ yaml' = yaml
      BY <1>47, <2>2 DEF GoalWrite, Stamping
    <3>2. cmd[p].op = "goal" /\ cmd[p].goal \in Goals
      BY <1>47, Here DEF GoalWrite, At, Shape
    <3>3. e \in Docs
      BY <3>1, <3>2, <1>c, Here, EditedTyped DEF Commands
    <3>. QED  BY <3>1, <3>2, <3>3, <1>c, <1>e DEF Goal, Busy
  <2>. QED  BY <2>1, <2>2
<1>48. CASE DecisionWrite(p)
  BY <1>48, <1>c, <1>e DEF DecisionWrite, At, Stamping, Busy, Goal
<1>49. CASE ReportTruncate(p)
  BY <1>49, <1>c, <1>e DEF ReportTruncate, At, Busy, Goal
<1>50. CASE ReportFill(p)
  BY <1>50, <1>c, <1>e DEF ReportFill, At, Stamping, Busy, Goal
<1>51. CASE TouchRead(p)
  BY <1>51, <1>a, <1>f, <1>i DEF TouchRead, Fail, Busy, files, Writers
<1>52. CASE RiskRead(p)
  BY <1>52, <1>a, <1>f, <1>i DEF RiskRead, At, Fail, Busy, files
<1>53. CASE Stamp(p)
  BY <1>53, <1>a, <1>g DEF Stamp, Busy, Recording, Merging, Writers
<1>. QED
  BY <1>1, <1>2, <1>3, <1>4, <1>5, <1>6, <1>7, <1>8, <1>9, <1>10, <1>11, <1>12, <1>13,
     <1>14, <1>15, <1>16, <1>17, <1>18, <1>19, <1>20, <1>21, <1>22, <1>23, <1>24, <1>25,
     <1>26, <1>27, <1>28, <1>29, <1>30, <1>31, <1>32, <1>33, <1>34, <1>35, <1>36, <1>37,
     <1>38, <1>39, <1>40, <1>41, <1>42, <1>43, <1>44, <1>45, <1>46, <1>47, <1>48, <1>49,
     <1>50, <1>51, <1>52, <1>53
  DEF Acts, Step, Create, Select, Merge, Move, Repository, Entry

(* So a command that holds the record's lock, or runs alone, finds it as it *)
(* was, whatever the others do.                                             *)
LEMMA Undisturbed ==
    ASSUME TypeInv, LockInv, HoldInv, ~overlap', NEW p \in Procs, Acts(p),
           NEW q \in Procs, q # p, Recording(cmd[q]) \/ cmd[q].op \in Unlocked
    PROVE  /\ ~overlap /\ cmd'[q] = cmd[q] /\ Holds(cmd[q])
           /\ yaml' = yaml /\ \A f \in Files : doc[f] # NoDoc => doc'[f] # NoDoc
           /\ cmd[q].op \in Unlocked => UNCHANGED files
<1>1. ~overlap /\ cmd'[q] = cmd[q]
  BY Course, Zenon DEF Call
<1>2. Alone /\ Holds(cmd[p]) /\ Holds(cmd[q])
  BY <1>1 DEF HoldInv
<1>3. Busy(q)
  BY DEF Busy, Recording, Unlocked, Writers
<1>4. (ylock # Nobody /\ ~Recording(cmd[p])) \/ cmd[q].op \in Unlocked
  BY NobodyAssumption DEF LockInv
<1>5. Busy(p) => cmd[p].op \notin Unlocked /\ cmd[q].op \notin Unlocked
  BY <1>2, <1>3 DEF Alone
<1>6. UNCHANGED files => yaml' = yaml /\ \A f \in Files : doc[f] # NoDoc => doc'[f] # NoDoc
  BY DEF files
<1>. QED  BY <1>1, <1>2, <1>4, <1>5, <1>6, StepFiles

(* What the others have in hand stays true of the record.                   *)
LEMMA HoldsElsewhere ==
    ASSUME TypeInv, LockInv, HoldInv, ~overlap', NEW p \in Procs, Acts(p),
           NEW q \in Procs, q # p
    PROVE  Holds(cmd[q])'
<1>1. cmd'[q] = cmd[q] /\ Holds(cmd[q])
  <2>1. cmd'[q] = cmd[q] /\ ~overlap
    BY Course, Zenon DEF Call
  <2>. QED  BY <2>1 DEF HoldInv
<1>2. CASE Recording(cmd[q]) \/ cmd[q].op \in Unlocked
  <2>1. yaml' = yaml /\ \A f \in Files : doc[f] # NoDoc => doc'[f] # NoDoc
    BY <1>2, Undisturbed
  <2>2. \A n \in Names : Md(n) \in Files
    BY Values
  <2>. QED  BY <1>1, <2>1, <2>2 DEF Holds, Making, Copies
<1>3. CASE ~(Recording(cmd[q]) \/ cmd[q].op \in Unlocked)
  <2>1. ~Copies(cmd[q])
    BY <1>1, <1>3 DEF Holds, Copies, Recording, Unlocked, Merging, Writers
  <2>2. ~Making(cmd[q])
    BY <1>3 DEF Making, Recording
  <2>3. cmd[q].op # "rename" /\ cmd[q].op # "remove" /\ cmd[q].op # "relink"
    BY <1>3 DEF Unlocked
  <2>4. /\ ~(cmd[q].op = "merge" /\ cmd[q].at \in Merging)
        /\ ~(cmd[q].op = "ensure" /\ cmd[q].at \in {"main", "sub"})
    BY <1>3 DEF Recording, Merging
  <2>. QED  BY <1>1, <2>1, <2>2, <2>3, <2>4 DEF Holds, Making, Copies
<1>. QED  BY <1>2, <1>3

(* A command that begins is one.                                            *)
LEMMA AskedOne ==
    ASSUME TypeInv, NEW p \in Procs, CallRecord(p) \/ CallRepository(p) \/ CallEntry(p)
    PROVE  cmd'[p].op # "none" /\ cmd'[p].at = "go" /\ UNCHANGED files
<1>1. PICK c \in Commands : Call(p, c) /\ c.op # "none"
  BY Asked
<1>2. cmd \in [Procs -> Commands]
  BY DEF TypeInv, TypeOK
<1>. QED  BY <1>1, <1>2 DEF Call, Commands

(* What one entry put in leaves of a record.                                *)
LEMMA WithOne ==
    ASSUME NEW y \in Records, NEW n \in Names, NEW e \in Entries \union {NoEntry}
    PROVE  /\ With(y, n, e) \in Records
           /\ With(y, n, e).made = y.made /\ With(y, n, e).repos = y.repos
           /\ \A k \in Names : With(y, n, e).subs[k] = IF k = n THEN e ELSE y.subs[k]
           /\ \A k : Has(With(y, n, e), k) <=> IF k = n THEN e # NoEntry ELSE Has(y, k)
<1>1. y.subs \in [Names -> Entries \union {NoEntry}]
  BY DEF Records
<1>2. /\ With(y, n, e) \in Records /\ With(y, n, e).made = y.made
      /\ With(y, n, e).repos = y.repos
      /\ \A k \in Names : With(y, n, e).subs[k] = IF k = n THEN e ELSE y.subs[k]
  BY <1>1, WithTyped DEF With, Records
<1>. QED  BY <1>2 DEF Has

(* A subproject that leads to main is not its own parent: from one that is, *)
(* no number of steps up leads anywhere else.                               *)
LEMMA Least ==
    ASSUME NEW D \in SUBSET Nat, D # {}
    PROVE  \E k \in D : \A j \in D : ~(j < k)
<1>1. IsWellFoundedOn(OpToRel(<, Nat), Nat)
  BY NatLessThanWellFounded
<1>2. \E k \in D : \A j \in D : <<j, k>> \notin OpToRel(<, Nat)
  BY <1>1, WFMin
<1>. QED  BY <1>2 DEF OpToRel

LEMMA NotOwnParent ==
    ASSUME NEW y, NEW n, Has(y, n), y.subs[n].parent = n
    PROVE  Up(y, n) = n
<1>. DEFINE S == 0 .. Cardinality(Names)
            After(f, k) == IF k = 0 THEN n
                           ELSE IF Has(y, f[k - 1]) THEN y.subs[f[k - 1]].parent ELSE f[k - 1]
            f == CHOOSE f : f = [k \in S |-> After(f, k)]
            g == [k \in S |-> n]
<1>0. Cardinality(Names) \in Nat
  BY NamesAssumption, FS_CardinalityType
<1>1. g = [k \in S |-> After(g, k)]
  <2>1. ASSUME NEW k \in S PROVE After(g, k) = n
    <3>1. CASE k = 0
      BY <3>1
    <3>2. CASE k # 0
      <4>1. g[k - 1] = n
        BY <3>2, <1>0
      <4>. QED  BY <3>2, <4>1
    <3>. QED  BY <3>1, <3>2
  <2>. QED  BY <2>1
<1>2. f = [k \in S |-> After(f, k)]
  BY <1>1
<1>. HIDE DEF f
<1>3. \A k \in S : f[k] = n
  <2>. DEFINE D == {k \in S : f[k] # n}
  <2>. SUFFICES ASSUME D # {} PROVE FALSE  OBVIOUS
  <2>1. PICK k \in D : \A j \in D : ~(j < k)
    <3>1. D \in SUBSET Nat
      BY <1>0
    <3>. HIDE DEF D
    <3>. QED  BY <3>1, Least
  <2>2. k # 0 /\ k \in S
    BY <1>2
  <2>3. f[k - 1] = n
    BY <1>0, <2>1, <2>2
  <2>4. f[k] = n
    BY <1>2, <2>2, <2>3
  <2>. QED  BY <2>1, <2>4
<1>4. Up(y, n) = f[Cardinality(Names)]
  BY DEF Up, f
<1>. QED  BY <1>0, <1>3, <1>4

(* A record in which a subproject or a repository was renamed.              *)
LEMMA RenamedOne ==
    ASSUME NEW y \in Records, NEW n \in Names, NEW m \in Names, n # m
    PROVE  /\ Renamed(y, n, m).made = y.made /\ Renamed(y, n, m).repos = y.repos
           /\ \A k \in Names :
                 LET e == IF k = m THEN y.subs[n] ELSE y.subs[k]
                 IN IF k = n \/ e = NoEntry THEN Renamed(y, n, m).subs[k] = NoEntry
                    ELSE /\ Renamed(y, n, m).subs[k] \in Entries
                         /\ Renamed(y, n, m).subs[k].file = e.file
                         /\ Renamed(y, n, m).subs[k].archived = e.archived
<1>. DEFINE moved == [y.subs EXCEPT ![n] = NoEntry, ![m] = y.subs[n]]
<1>1. y.subs \in [Names -> Entries \union {NoEntry}]
  BY DEF Records
<1>2. /\ moved \in [Names -> Entries \union {NoEntry}]
      /\ \A k \in Names : moved[k] = IF k = m THEN y.subs[n]
                                     ELSE IF k = n THEN NoEntry ELSE y.subs[k]
  BY <1>1
<1>. HIDE DEF moved
<1>3. /\ Renamed(y, n, m).made = y.made /\ Renamed(y, n, m).repos = y.repos
      /\ \A k \in Names : Renamed(y, n, m).subs[k] =
            IF moved[k] # NoEntry /\ moved[k].parent = n
            THEN [moved[k] EXCEPT !.parent = m] ELSE moved[k]
  BY DEF Renamed, Records, moved
<1>4. ASSUME NEW e \in Entries
      PROVE  /\ [e EXCEPT !.parent = m] \in Entries
             /\ [e EXCEPT !.parent = m].file = e.file
             /\ [e EXCEPT !.parent = m].archived = e.archived
  BY <1>4, Values DEF Entries
<1>5. ASSUME NEW k \in Names, moved[k] = NoEntry PROVE Renamed(y, n, m).subs[k] = NoEntry
  BY <1>3, <1>5
<1>6. ASSUME NEW k \in Names, moved[k] # NoEntry
      PROVE  /\ Renamed(y, n, m).subs[k] \in Entries
             /\ Renamed(y, n, m).subs[k].file = moved[k].file
             /\ Renamed(y, n, m).subs[k].archived = moved[k].archived
  BY <1>2, <1>3, <1>4, <1>6
<1>. QED  BY <1>2, <1>3, <1>5, <1>6

LEMMA RelinkedOne ==
    ASSUME NEW y \in Records, NEW r \in Repos, NEW q \in Repos
    PROVE  /\ Relinked(y, r, q).made = y.made
           /\ Relinked(y, r, q).repos = Swapped(y.repos, r, q)
           /\ \A k \in Names :
                 IF y.subs[k] = NoEntry THEN Relinked(y, r, q).subs[k] = NoEntry
                 ELSE /\ Relinked(y, r, q).subs[k] \in Entries
                      /\ Relinked(y, r, q).subs[k].file = y.subs[k].file
                      /\ Relinked(y, r, q).subs[k].archived = y.subs[k].archived
<1>1. y.subs \in [Names -> Entries \union {NoEntry}]
  BY DEF Records
<1>2. /\ Relinked(y, r, q).made = y.made
      /\ Relinked(y, r, q).repos = Swapped(y.repos, r, q)
      /\ \A k \in Names : Relinked(y, r, q).subs[k] =
            IF Has(y, k) /\ y.subs[k].repo = r THEN [y.subs[k] EXCEPT !.repo = q]
            ELSE y.subs[k]
  BY DEF Relinked, Records
<1>3. ASSUME NEW e \in Entries
      PROVE  /\ [e EXCEPT !.repo = q] \in Entries
             /\ [e EXCEPT !.repo = q].file = e.file
             /\ [e EXCEPT !.repo = q].archived = e.archived
  BY <1>3 DEF Entries
<1>. QED  BY <1>1, <1>2, <1>3 DEF Has

(* The command that goes on has in hand what the record is now.             *)
LEMMA HoldsHere ==
    ASSUME TypeInv, LockInv, HoldInv, ~overlap', NEW p \in Procs, Acts(p)
    PROVE  Holds(cmd[p])' /\ Founding'
<1>. DEFINE Goal == Holds(cmd[p])' /\ Founding'
<1>. SUFFICES Goal  OBVIOUS
<1>a. Founding /\ Holds(cmd[p])
  <2>1. ~overlap
    BY Course, Zenon DEF Call
  <2>. QED  BY <2>1 DEF HoldInv
<1>b. cmd \in [Procs -> Commands] /\ cmd[p] \in Commands /\ Shape(cmd[p])
  BY Here DEF TypeInv, TypeOK
<1>c. /\ yaml \in Records /\ doc \in [Files -> Docs \union {NoDoc}]
      /\ NoEntry \notin Entries /\ NoDoc \notin Docs /\ Stub \in Docs
  BY Values, NothingAssumption DEF TypeInv, TypeOK
<1>d. yaml' = yaml => Founding'
  BY <1>a DEF Founding
<1>e. Leave(p) => Holds(cmd[p])'
  <2>1. Leave(p) => cmd'[p] = Idle
    BY <1>b DEF Leave
  <2>. QED  BY <2>1 DEF Holds, Making, Copies, Merging, Idle
<1>f. ASSUME /\ cmd'[p].op # "none"
             /\ \/ cmd'[p].at \in {"go", "select", "point", "file", "sessions", "write",
                                  "fill", "touch"}
                \/ cmd'[p].at = "read" /\ cmd'[p].op # "merge"
      PROVE  Holds(cmd[p])'
  BY <1>f DEF Holds, Making, Copies, Merging
<1>g. ASSUME Fail(p) PROVE Goal
  BY <1>g, <1>d, <1>e DEF Fail, Return, files
<1>h. ASSUME CallRecord(p) \/ CallRepository(p) \/ CallEntry(p) PROVE Goal
  BY <1>h, <1>d, <1>f, AskedOne DEF files
<1>1. CASE CallRecord(p)
  BY <1>1, <1>h
<1>2. CASE CallRepository(p)
  BY <1>2, <1>h
<1>3. CASE CallEntry(p)
  BY <1>3, <1>h
<1>4. CASE Kill(p)
  BY <1>4, <1>d, <1>e DEF Kill, files
<1>5. CASE EnsureLock(p)
  <2>1. /\ cmd'[p].op = "ensure" /\ cmd'[p].at \in {"main", "sub"}
        /\ cmd'[p].seen = yaml' /\ yaml' \in {yaml, Founded} /\ yaml'.made
    BY <1>5, <1>b DEF EnsureLock, At, Goto, Commands, Founded, NoRecord
  <2>2. Holds(cmd[p])'
    BY <2>1 DEF Holds, Making, Copies, Merging
  <2>. QED  BY <2>1, <2>2 DEF Founding
<1>6. CASE EnsureMain(p)
  <2>1. /\ cmd'[p].op = "ensure" /\ cmd'[p].at = "sub" /\ yaml' = yaml
        /\ cmd'[p].seen = cmd[p].seen /\ cmd[p].op = "ensure" /\ cmd[p].at = "main"
    BY <1>6, <1>b DEF EnsureMain, At, Onward, Goto, Commands
  <2>2. Holds(cmd[p])'
    BY <2>1, <1>a DEF Holds, Making, Copies, Merging
  <2>. QED  BY <2>1, <2>2, <1>d
<1>7. CASE EnsureSub(p)
  <2>1. CASE Fail(p)
    BY <2>1, <1>g
  <2>2. CASE ~Fail(p)
    <3>1. /\ cmd[p].op = "ensure" /\ cmd[p].at = "sub" /\ yaml' = yaml
          /\ cmd[p].name # Main /\ NewName(cmd[p].seen, cmd[p].name)
          /\ doc' = [doc EXCEPT ![Md(cmd[p].name)] = Stub]
          /\ cmd' = [cmd EXCEPT ![p] = [cmd[p] EXCEPT !.at = "yaml",
                         !.seen = With(@, cmd[p].name, Regular(cmd[p].name))]]
      BY <1>7, <2>2 DEF EnsureSub, At, Goto
    <3>2. cmd[p].seen = yaml /\ yaml.made /\ cmd[p].name \in Names
      BY <3>1, <1>a, <1>b DEF Holds, Copies, Commands, Targets
    <3>3. /\ cmd'[p].op = "ensure" /\ cmd'[p].at = "yaml" /\ cmd'[p].name = cmd[p].name
          /\ cmd'[p].seen = With(yaml, cmd[p].name, Regular(cmd[p].name))
      BY <3>1, <3>2, <1>b DEF Commands
    <3>4. doc'[Md(cmd[p].name)] # NoDoc
      BY <3>1, <3>2, <1>c, Values
    <3>5. Holds(cmd[p])'
      BY <3>1, <3>2, <3>3, <3>4 DEF Holds, Making, Copies, Merging, New, NewName
    <3>. QED  BY <3>1, <3>5, <1>d
  <2>. QED  BY <2>1, <2>2
<1>8. CASE AddLook(p)
  <2>1. CASE Fail(p)
    BY <2>1, <1>g
  <2>2. CASE Onward(p, "select") /\ UNCHANGED files
    <3>1. cmd'[p].op = "add" /\ cmd'[p].at = "select"
      BY <1>8, <2>2, <1>b DEF AddLook, At, Onward, Goto, Commands
    <3>. QED  BY <3>1, <2>2, <1>d, <1>f DEF files
  <2>3. CASE ~Fail(p) /\ ~(Onward(p, "select") /\ UNCHANGED files)
    <3>1. /\ cmd[p].op = "add" /\ yaml' = yaml /\ yaml.made /\ NewName(yaml, cmd[p].name)
          /\ cmd' = [cmd EXCEPT ![p] = [cmd[p] EXCEPT !.at = "md", !.was = yaml,
                         !.seen = With(yaml, cmd[p].name, Regular(cmd[p].name))]]
      BY <1>8, <2>3 DEF AddLook, At, Goto, files
    <3>2. cmd[p].name \in Names
      BY <3>1, <1>b DEF Shape
    <3>3. /\ cmd'[p].op = "add" /\ cmd'[p].at = "md" /\ cmd'[p].name = cmd[p].name
          /\ cmd'[p].seen = With(yaml, cmd[p].name, Regular(cmd[p].name))
          /\ cmd'[p].was = yaml
      BY <3>1, <1>b DEF Commands
    <3>4. Holds(cmd[p])'
      BY <3>1, <3>2, <3>3 DEF Holds, Making, Copies, Merging, New, NewName
    <3>. QED  BY <3>1, <3>4, <1>d
  <2>. QED  BY <2>1, <2>2, <2>3
<1>9. CASE BranchLook(p)
  <2>1. CASE Fail(p)
    BY <2>1, <1>g
  <2>2. CASE ~Fail(p)
    <3>. DEFINE e == Branch(cmd[p].name, cmd[p].to, cmd[p].repo)
    <3>1. /\ cmd[p].op = "branch" /\ yaml' = yaml /\ yaml.made /\ ~Has(yaml, cmd[p].name)
          /\ cmd' = [cmd EXCEPT ![p] = [cmd[p] EXCEPT !.at = "md", !.was = yaml,
                         !.seen = With(yaml, cmd[p].name, e)]]
      BY <1>9, <2>2 DEF BranchLook, At, Goto, files, Resolves
    <3>2. cmd[p].name \in Names
      BY <3>1, <1>b DEF Shape
    <3>3. /\ cmd'[p].op = "branch" /\ cmd'[p].at = "md" /\ cmd'[p].name = cmd[p].name
          /\ cmd'[p].to = cmd[p].to /\ cmd'[p].repo = cmd[p].repo
          /\ cmd'[p].seen = With(yaml, cmd[p].name, e) /\ cmd'[p].was = yaml
      BY <3>1, <1>b DEF Commands
    <3>4. Holds(cmd[p])'
      BY <3>1, <3>2, <3>3 DEF Holds, Making, Copies, Merging, New
    <3>. QED  BY <3>1, <3>4, <1>d
  <2>. QED  BY <2>1, <2>2
<1>10. CASE CreateMd(p)
  <2>1. CASE Fail(p)
    BY <2>1, <1>g
  <2>2. CASE ~Fail(p)
    <3>1. /\ cmd[p].op \in {"add", "branch"} /\ cmd[p].at = "md" /\ yaml' = yaml
          /\ doc' = [doc EXCEPT ![Md(cmd[p].name)] = Stub]
          /\ cmd' = [cmd EXCEPT ![p] = [cmd[p] EXCEPT !.at = "yaml"]]
      BY <1>10, <2>2 DEF CreateMd, Onward, Goto
    <3>2. /\ cmd[p].name \in Names /\ ~Has(yaml, cmd[p].name) /\ yaml.made
          /\ cmd[p].seen = With(yaml, cmd[p].name, New(cmd[p])) /\ cmd[p].was = yaml
      BY <3>1, <1>a DEF Holds, Making
    <3>3. /\ cmd'[p].op = cmd[p].op /\ cmd'[p].at = "yaml" /\ cmd'[p].name = cmd[p].name
          /\ cmd'[p].to = cmd[p].to /\ cmd'[p].repo = cmd[p].repo
          /\ cmd'[p].seen = cmd[p].seen /\ cmd'[p].was = cmd[p].was
      BY <3>1, <1>b DEF Commands
    <3>4. doc'[Md(cmd[p].name)] # NoDoc
      BY <3>1, <3>2, <1>c, Values
    <3>5. New(cmd'[p]) = New(cmd[p])
      BY <3>3 DEF New
    <3>6. Holds(cmd[p])'
      BY <3>1, <3>2, <3>3, <3>4, <3>5 DEF Holds, Making, Copies, Merging
    <3>. QED  BY <3>1, <3>6, <1>d
  <2>. QED  BY <2>1, <2>2
<1>11. CASE CreateYaml(p)
  <2>1. yaml'.made
    <3>1. /\ cmd[p].name \in Names /\ yaml.made /\ yaml' = With(yaml, cmd[p].name, New(cmd[p]))
      BY <1>11, <1>a DEF CreateYaml, Holds, Making
    <3>. QED  BY <3>1, <1>c DEF With, Records
  <2>2. Holds(cmd[p])'
    <3>1. CASE Return(p)
      BY <3>1, <1>e DEF Return
    <3>2. CASE ~Return(p)
      <4>1. cmd'[p].op = "add" /\ cmd'[p].at = "select"
        BY <1>11, <3>2, <1>b DEF CreateYaml, Goto, Commands
      <4>. QED  BY <4>1, <1>f
    <3>. QED  BY <3>1, <3>2
  <2>. QED  BY <2>1, <2>2 DEF Founding
<1>12. CASE CreateFail(p)
  <2>1. yaml' = yaml
    BY <1>12, <1>a DEF CreateFail, Holds, Making
  <2>. QED  BY <1>12, <2>1, <1>d, <1>e DEF CreateFail, Return
<1>13. CASE SelectLook(p)
  <2>1. CASE Fail(p)
    BY <2>1, <1>g
  <2>2. CASE ~Fail(p)
    <3>1. yaml' = yaml /\ cmd'[p].op \in {"add", "set"} /\ cmd'[p].at = "point"
      BY <1>13, <2>2, <1>b DEF SelectLook, At, Goto, Commands, files
    <3>. QED  BY <3>1, <1>d, <1>f
  <2>. QED  BY <2>1, <2>2
<1>14. CASE SelectPoint(p)
  BY <1>14, <1>d, <1>e DEF SelectPoint, Return
<1>15. CASE MergeLook(p)
  <2>1. CASE Fail(p)
    BY <2>1, <1>g
  <2>2. CASE ~Fail(p)
    <3>. DEFINE m == yaml.subs[cmd[p].name].parent
    <3>1. /\ cmd[p].op = "merge" /\ yaml' = yaml /\ yaml.made /\ Live(yaml, cmd[p].name)
          /\ Resolves(yaml, m)
          /\ cmd' = [cmd EXCEPT ![p] = [cmd[p] EXCEPT !.at = "lock", !.seen = yaml,
                                                     !.file = FileOf(yaml, m)]]
      BY <1>15, <2>2 DEF MergeLook, At, Goto, files
    <3>2. m \in Targets /\ (m = Main \/ Live(yaml, m))
      BY <3>1, <1>c DEF Live, Has, Records, Entries, Resolves
    <3>5. m # cmd[p].name
      <4>1. cmd[p].name # Main /\ Has(yaml, cmd[p].name)
        BY <3>1, NamesAssumption DEF Live, Has
      <4>2. m = cmd[p].name => Up(yaml, cmd[p].name) = cmd[p].name
        BY <4>1, NotOwnParent
      <4>3. m # Main => Up(yaml, m) = Main
        BY <3>1 DEF Resolves
      <4>. HIDE DEF m
      <4>. QED  BY <4>1, <4>2, <4>3
    <3>3. /\ cmd'[p].op = "merge" /\ cmd'[p].at = "lock" /\ cmd'[p].name = cmd[p].name
          /\ cmd'[p].seen = yaml /\ cmd'[p].file = FileOf(yaml, m)
      BY <3>1, <1>b DEF Commands
    <3>. HIDE DEF m
    <3>4. Holds(cmd[p])'
      BY <3>1, <3>2, <3>3, <3>5 DEF Holds, Making, Copies, Merging
    <3>. QED  BY <3>1, <3>4, <1>d
  <2>. QED  BY <2>1, <2>2
<1>16. CASE MergeLock(p)
  <2>1. /\ cmd[p].op = "merge" /\ cmd[p].at = "lock" /\ yaml' = yaml
        /\ cmd'[p].op = "merge" /\ cmd'[p].at \in {"lock", "read"}
        /\ cmd'[p].name = cmd[p].name /\ cmd'[p].seen = cmd[p].seen
        /\ cmd'[p].file = cmd[p].file
    BY <1>16, <1>b DEF MergeLock, At, Onward, Goto, files, Commands
  <2>2. Holds(cmd[p])'
    BY <2>1, <1>a DEF Holds, Making, Copies, Merging
  <2>. QED  BY <2>1, <2>2, <1>d
<1>17. CASE MergeRead(p)
  <2>1. CASE Fail(p)
    BY <2>1, <1>g
  <2>2. CASE ~Fail(p)
    <3>1. /\ cmd[p].op = "merge" /\ cmd[p].at = "read" /\ yaml' = yaml
          /\ cmd' = [cmd EXCEPT ![p] = [cmd[p] EXCEPT !.at = "archive", !.was = yaml,
                         !.text = doc[Merged(p).file], !.other = doc[cmd[p].file]]]
      BY <1>17, <2>2 DEF MergeRead, At, Goto, files
    <3>3. /\ cmd'[p].op = "merge" /\ cmd'[p].at = "archive" /\ cmd'[p].was = yaml
          /\ cmd'[p].name = cmd[p].name /\ cmd'[p].seen = cmd[p].seen
          /\ cmd'[p].file = cmd[p].file
      BY <3>1, <1>b DEF Commands
    <3>2. Holds(cmd[p])'
      BY <3>1, <3>3, <1>a DEF Holds, Making, Copies, Merging
    <3>. QED  BY <3>1, <3>2, <1>d
  <2>. QED  BY <2>1, <2>2
<1>18. CASE MergeArchive(p)
  <2>1. /\ cmd[p].op = "merge" /\ cmd[p].at = "archive" /\ yaml' = yaml
        /\ cmd'[p].op = "merge" /\ cmd'[p].at = "parent" /\ cmd'[p].was = cmd[p].was
        /\ cmd'[p].name = cmd[p].name /\ cmd'[p].seen = cmd[p].seen
        /\ cmd'[p].file = cmd[p].file
    BY <1>18, <1>b DEF MergeArchive, At, Onward, Goto, Commands
  <2>2. Holds(cmd[p])'
    BY <2>1, <1>a DEF Holds, Making, Copies, Merging
  <2>. QED  BY <2>1, <2>2, <1>d
<1>19. CASE MergeParent(p)
  <2>1. /\ cmd[p].op = "merge" /\ cmd[p].at = "parent" /\ yaml' = yaml
        /\ cmd'[p].op = "merge" /\ cmd'[p].at = "yaml" /\ cmd'[p].was = cmd[p].was
        /\ cmd'[p].name = cmd[p].name /\ cmd'[p].seen = cmd[p].seen
        /\ cmd'[p].file = cmd[p].file
    BY <1>19, <1>b DEF MergeParent, At, Onward, Goto, Commands
  <2>2. Holds(cmd[p])'
    BY <2>1, <1>a DEF Holds, Making, Copies, Merging
  <2>. QED  BY <2>1, <2>2, <1>d
<1>20. CASE MergeYaml(p)
  <2>1. /\ cmd[p].op = "merge" /\ cmd[p].at = "yaml"
        /\ yaml' = Closed(cmd[p].seen, cmd[p].name)
        /\ cmd'[p].op = "merge" /\ cmd'[p].at = "unlink" /\ cmd'[p].was = cmd[p].was
        /\ cmd'[p].name = cmd[p].name /\ cmd'[p].seen = cmd[p].seen
        /\ cmd'[p].file = cmd[p].file
    BY <1>20, <1>b DEF MergeYaml, Merged, Closed, At, Onward, Goto, Commands
  <2>2. Holds(cmd[p])'
    BY <2>1, <1>a DEF Holds, Making, Copies, Merging
  <2>3. yaml'.made
    <3>1. cmd[p].seen.made /\ cmd[p].seen \in Records
      BY <2>1, <1>a, <1>b DEF Holds, Merging, Commands
    <3>. QED  BY <2>1, <3>1 DEF Closed, With, Records
  <2>. QED  BY <2>2, <2>3 DEF Founding
<1>21. CASE MergeUnlink(p)
  BY <1>21, <1>d, <1>e DEF MergeUnlink, Return
<1>22. CASE MergeFail(p)
  <2>1. /\ cmd[p].op = "merge" /\ cmd[p].at \in {"archive", "parent", "yaml", "unlink"}
        /\ yaml' = yaml /\ cmd'[p].op = "merge" /\ cmd'[p].at = "restore"
        /\ cmd'[p].was = cmd[p].was /\ cmd'[p].name = cmd[p].name
        /\ cmd'[p].seen = cmd[p].seen /\ cmd'[p].file = cmd[p].file
    BY <1>22, <1>b DEF MergeFail, Onward, Goto, Commands
  <2>2. Holds(cmd[p])'
    BY <2>1, <1>a DEF Holds, Making, Copies, Merging
  <2>. QED  BY <2>1, <2>2, <1>d
<1>23. CASE MergeRestore(p)
  <2>1. /\ cmd[p].op = "merge" /\ cmd[p].at = "restore" /\ yaml' = yaml
        /\ cmd'[p].op = "merge" /\ cmd'[p].at = "revert" /\ cmd'[p].was = cmd[p].was
        /\ cmd'[p].name = cmd[p].name /\ cmd'[p].seen = cmd[p].seen
        /\ cmd'[p].file = cmd[p].file
    BY <1>23, <1>b DEF MergeRestore, At, Onward, Goto, Commands
  <2>2. Holds(cmd[p])'
    BY <2>1, <1>a DEF Holds, Making, Copies, Merging
  <2>. QED  BY <2>1, <2>2, <1>d
<1>24. CASE MergeRevert(p)
  <2>1. /\ cmd[p].op = "merge" /\ cmd[p].at = "revert" /\ yaml' = cmd[p].was
        /\ cmd'[p].op = "merge" /\ cmd'[p].at = "discard"
        /\ cmd'[p].was = cmd[p].was /\ cmd'[p].name = cmd[p].name
        /\ cmd'[p].seen = cmd[p].seen /\ cmd'[p].file = cmd[p].file
    BY <1>24, <1>b DEF MergeRevert, At, Onward, Goto, Commands
  <2>2. cmd[p].was = cmd[p].seen /\ cmd[p].seen.made
    BY <2>1, <1>a DEF Holds, Merging
  <2>3. Holds(cmd[p])'
    BY <2>1, <2>2, <1>a DEF Holds, Making, Copies, Merging
  <2>. QED  BY <2>1, <2>2, <2>3 DEF Founding
<1>25. CASE MergeDiscard(p)
  BY <1>25, <1>d, <1>e DEF MergeDiscard, Return
<1>26. CASE RenameLook(p)
  <2>1. CASE Fail(p)
    BY <2>1, <1>g
  <2>2. CASE ~Fail(p)
    <3>1. /\ yaml' = yaml /\ cmd[p].op = "rename"
          /\ cmd' = [cmd EXCEPT ![p] = [cmd[p] EXCEPT !.at = "md", !.seen = yaml]]
          /\ Has(yaml, cmd[p].name) /\ ~Has(yaml, cmd[p].to)
      BY <1>26, <2>2 DEF RenameLook, At, Goto, files
    <3>2. /\ cmd'[p].op = cmd[p].op /\ cmd'[p].at = "md"
          /\ cmd'[p].name = cmd[p].name /\ cmd'[p].to = cmd[p].to /\ cmd'[p].seen = yaml
      BY <3>1, <1>b DEF Commands
    <3>3. Holds(cmd[p])'
      BY <3>1, <3>2 DEF Holds, Making, Copies, Merging
    <3>. QED  BY <3>1, <3>3, <1>d
  <2>. QED  BY <2>1, <2>2
<1>27. CASE RenameMd(p)
  <2>1. CASE Fail(p)
    BY <2>1, <1>g
  <2>2. CASE ~Fail(p)
    <3>1. /\ cmd[p].op = "rename" /\ cmd[p].at = "md" /\ yaml' = yaml
          /\ \/ cmd' = [cmd EXCEPT ![p] = [cmd[p] EXCEPT !.at = "yaml",
                             !.seen.subs[cmd[p].name].file = Md(cmd[p].to)]]
             \/ cmd' = [cmd EXCEPT ![p] = [cmd[p] EXCEPT !.at = "yaml"]]
      BY <1>27, <2>2 DEF RenameMd, At, Onward, Goto, files
    <3>2. /\ cmd[p].seen = yaml /\ Has(yaml, cmd[p].name) /\ ~Has(yaml, cmd[p].to)
          /\ cmd[p].name \in Names
      BY <3>1, <1>a DEF Holds, Copies, Has
    <3>3. [cmd[p].seen EXCEPT !.subs[cmd[p].name].file = Md(cmd[p].to)]
             = Moved(yaml, cmd[p].name, cmd[p].to)
      BY <3>2, <1>c DEF Moved, With
    <3>0. [cmd[p] EXCEPT !.at = "yaml", !.seen.subs[cmd[p].name].file = Md(cmd[p].to)]
             = [cmd[p] EXCEPT !.at = "yaml", !.seen = Moved(yaml, cmd[p].name, cmd[p].to)]
      BY <3>2, <3>3 DEF Commands
    <3>4. /\ cmd'[p].op = "rename" /\ cmd'[p].at = "yaml" /\ cmd'[p].name = cmd[p].name
          /\ cmd'[p].to = cmd[p].to
          /\ cmd'[p].seen \in {yaml, Moved(yaml, cmd[p].name, cmd[p].to)}
      <4>1. CASE cmd' = [cmd EXCEPT ![p] = [cmd[p] EXCEPT !.at = "yaml"]]
        BY <4>1, <3>1, <3>2, <1>b DEF Commands
      <4>2. CASE cmd' = [cmd EXCEPT ![p] = [cmd[p] EXCEPT !.at = "yaml",
                            !.seen.subs[cmd[p].name].file = Md(cmd[p].to)]]
        <5>1. cmd'[p] = [cmd[p] EXCEPT !.at = "yaml",
                                       !.seen = Moved(yaml, cmd[p].name, cmd[p].to)]
          BY <4>2, <3>0, <1>b
        <5>. QED  BY <5>1, <3>1, <1>b DEF Commands
      <4>. QED  BY <4>1, <4>2, <3>1
    <3>5. Holds(cmd[p])'
      BY <3>1, <3>2, <3>4 DEF Holds, Making, Copies, Merging
    <3>. QED  BY <3>1, <3>5, <1>d
  <2>. QED  BY <2>1, <2>2
<1>28. CASE RenameYaml(p)
  <2>1. /\ cmd[p].op = "rename" /\ cmd[p].at = "yaml"
        /\ cmd'[p].op = "rename" /\ cmd'[p].at = "sessions"
        /\ yaml' = Renamed(cmd[p].seen, cmd[p].name, cmd[p].to)
    BY <1>28, <1>b DEF RenameYaml, At, Onward, Goto, Commands
  <2>2. /\ Has(yaml, cmd[p].name) /\ ~Has(yaml, cmd[p].to)
        /\ cmd[p].seen \in {yaml, Moved(yaml, cmd[p].name, cmd[p].to)}
        /\ cmd[p].name \in Names /\ cmd[p].to \in Names /\ cmd[p].seen \in Records
    BY <2>1, <1>a, <1>b DEF Holds, Shape, Commands
  <2>3. yaml.made
    BY <2>2, <1>a DEF Founding
  <2>4. cmd[p].seen.made
    BY <2>2, <2>3, <1>c DEF Moved, With, Records
  <2>5. yaml'.made
    BY <2>1, <2>2, <2>4, RenamedOne
  <2>. QED  BY <2>1, <2>5, <1>f DEF Founding
<1>29. CASE RenameSessions(p)
  BY <1>29, <1>d, <1>e DEF RenameSessions, Return
<1>30. CASE RemoveLook(p)
  <2>1. CASE Fail(p)
    BY <2>1, <1>g
  <2>2. CASE ~Fail(p)
    <3>1. /\ yaml' = yaml /\ cmd[p].op = "remove"
          /\ cmd' = [cmd EXCEPT ![p] = [cmd[p] EXCEPT !.at = "md", !.seen = yaml]]
          /\ Has(yaml, cmd[p].name)
      BY <1>30, <2>2 DEF RemoveLook, At, Goto, files
    <3>2. /\ cmd'[p].op = cmd[p].op /\ cmd'[p].at = "md"
          /\ cmd'[p].name = cmd[p].name /\ cmd'[p].to = cmd[p].to /\ cmd'[p].seen = yaml
      BY <3>1, <1>b DEF Commands
    <3>3. Holds(cmd[p])'
      BY <3>1, <3>2 DEF Holds, Making, Copies, Merging
    <3>. QED  BY <3>1, <3>3, <1>d
  <2>. QED  BY <2>1, <2>2
<1>31. CASE RemoveMd(p)
  <2>1. /\ yaml' = yaml /\ cmd[p].op = "remove" /\ cmd[p].at = "md"
        /\ cmd'[p].op = "remove" /\ cmd'[p].at = "yaml"
        /\ cmd'[p].seen = cmd[p].seen /\ cmd'[p].name = cmd[p].name
    BY <1>31, <1>b DEF RemoveMd, At, Onward, Goto, Commands
  <2>2. Holds(cmd[p])'
    BY <2>1, <1>a DEF Holds, Making, Copies, Merging
  <2>. QED  BY <2>1, <2>2, <1>d
<1>32. CASE RemoveYaml(p)
  <2>1. /\ cmd[p].seen = yaml /\ Has(yaml, cmd[p].name) /\ yaml.made
        /\ yaml' = With(yaml, cmd[p].name, NoEntry)
    BY <1>32, <1>a DEF RemoveYaml, At, Holds, Copies, Founding, Has
  <2>2. yaml'.made
    BY <2>1, <1>c DEF With, Records
  <2>. QED  BY <1>32, <2>2, <1>e DEF RemoveYaml, Return, Founding
<1>33. CASE AddRepository(p)
  BY <1>33, <1>d, <1>e DEF AddRepository, Return
<1>34. CASE FoundRegister(p)
  <2>1. CASE Fail(p)
    BY <2>1, <1>g
  <2>2. CASE ~Fail(p)
    <3>1. yaml' = yaml /\ cmd'[p].op = "found" /\ cmd'[p].at = "read"
      BY <1>34, <2>2, <1>b DEF FoundRegister, At, Onward, Goto, Commands, files
    <3>. QED  BY <3>1, <1>d, <1>f
  <2>. QED  BY <2>1, <2>2
<1>35. CASE FoundRead(p)
  <2>1. /\ yaml' = yaml /\ cmd[p].op = "found"
        /\ cmd' = [cmd EXCEPT ![p] = [cmd[p] EXCEPT !.at = "yaml", !.seen = yaml]]
    BY <1>35 DEF FoundRead, At, Goto, files
  <2>2. /\ cmd'[p].op = cmd[p].op /\ cmd'[p].at = "yaml"
        /\ cmd'[p].name = cmd[p].name /\ cmd'[p].to = cmd[p].to /\ cmd'[p].seen = yaml
    BY <2>1, <1>b DEF Commands
  <2>3. Holds(cmd[p])'
    BY <2>1, <2>2 DEF Holds, Making, Copies, Merging
  <2>. QED  BY <2>1, <2>3, <1>d
<1>36. CASE LinkRead(p)
  <2>1. CASE Fail(p)
    BY <2>1, <1>g
  <2>2. CASE ~Fail(p)
    <3>1. /\ yaml' = yaml /\ cmd[p].op \in {"link", "unlink"}
          /\ cmd' = [cmd EXCEPT ![p] = [cmd[p] EXCEPT !.at = "yaml", !.seen = yaml]]
      BY <1>36, <2>2 DEF LinkRead, Goto, files
    <3>2. /\ cmd'[p].op = cmd[p].op /\ cmd'[p].at = "yaml"
          /\ cmd'[p].name = cmd[p].name /\ cmd'[p].to = cmd[p].to /\ cmd'[p].seen = yaml
      BY <3>1, <1>b DEF Commands
    <3>3. Holds(cmd[p])'
      BY <3>1, <3>2 DEF Holds, Making, Copies, Merging
    <3>. QED  BY <3>1, <3>3, <1>d
  <2>. QED  BY <2>1, <2>2
<1>37. CASE LinkWrite(p)
  <2>1. cmd[p].seen = yaml /\ cmd[p].seen \in Records
    BY <1>37, <1>a, <1>b DEF LinkWrite, Holds, Copies, Commands
  <2>2. yaml'.made = yaml.made /\ yaml'.subs = yaml.subs
    BY <1>37, <2>1 DEF LinkWrite, Records
  <2>. QED  BY <1>37, <2>2, <1>a, <1>e DEF LinkWrite, Return, Founding, Has
<1>38. CASE DropLook(p)
  <2>1. CASE Fail(p)
    BY <2>1, <1>g
  <2>2. CASE ~Fail(p)
    <3>1. yaml' = yaml /\ cmd'[p].op = "drop" /\ cmd'[p].at = "file"
      BY <1>38, <2>2, <1>b DEF DropLook, At, Onward, Goto, Commands, files
    <3>. QED  BY <3>1, <1>d, <1>f
  <2>. QED  BY <2>1, <2>2
<1>39. CASE DropRemove(p)
  BY <1>39, <1>d, <1>e DEF DropRemove, Return
<1>40. CASE RelinkMove(p)
  <2>1. CASE Fail(p)
    BY <2>1, <1>g
  <2>2. CASE ~Fail(p)
    <3>1. yaml' = yaml /\ cmd'[p].op = "relink" /\ cmd'[p].at = "file"
      BY <1>40, <2>2, <1>b DEF RelinkMove, At, Onward, Goto, Commands, files
    <3>. QED  BY <3>1, <1>d, <1>f
  <2>. QED  BY <2>1, <2>2
<1>41. CASE RelinkFile(p)
  <2>1. yaml' = yaml /\ cmd'[p].op = "relink" /\ cmd'[p].at = "read"
    BY <1>41, <1>b DEF RelinkFile, At, Onward, Goto, Commands, files
  <2>. QED  BY <2>1, <1>d, <1>f
<1>42. CASE RelinkRead(p)
  <2>. DEFINE new == Relinked(yaml, cmd[p].repo, cmd[p].new)
  <2>1. /\ yaml' = yaml /\ cmd'[p].op = "relink" /\ cmd'[p].at \in {"yaml", "sessions"}
        /\ cmd'[p].seen = new /\ cmd'[p].repo = cmd[p].repo /\ cmd'[p].new = cmd[p].new
    BY <1>42, <1>b DEF RelinkRead, At, Goto, files, Commands
  <2>2. Holds(cmd[p])'
    BY <2>1 DEF Holds, Making, Copies, Merging
  <2>. QED  BY <2>1, <2>2, <1>d
<1>43. CASE RelinkYaml(p)
  <2>1. /\ cmd'[p].op = "relink" /\ cmd'[p].at = "sessions"
        /\ cmd[p].repo \in Repos /\ cmd[p].new \in Repos
        /\ yaml' = Relinked(yaml, cmd[p].repo, cmd[p].new)
    BY <1>43, <1>a, <1>b DEF RelinkYaml, At, Onward, Goto, Commands, Holds, Shape
  <2>2. /\ yaml'.made = yaml.made
        /\ \A n \in Names : Has(yaml', n) <=> Has(yaml, n)
    BY <2>1, <1>c, RelinkedOne DEF Has
  <2>. QED  BY <2>1, <2>2, <1>a, <1>f DEF Founding
<1>44. CASE RelinkSessions(p)
  BY <1>44, <1>d, <1>e DEF RelinkSessions, Return
<1>45. CASE Target(p)
  <2>1. CASE Fail(p)
    BY <2>1, <1>g
  <2>2. CASE ~Fail(p)
    <3>1. yaml' = yaml /\ cmd'[p].op \in Writers /\ cmd'[p].at = "read"
      BY <1>45, <2>2, <1>b DEF Target, Goto, Commands, files
    <3>. QED  BY <3>1, <1>d, <1>f DEF Writers
  <2>. QED  BY <2>1, <2>2
<1>46. CASE Read(p)
  <2>1. CASE Fail(p)
    BY <2>1, <1>g
  <2>2. CASE ~Fail(p)
    <3>1. yaml' = yaml /\ cmd'[p].op \in Writers /\ cmd'[p].at = "write"
      BY <1>46, <2>2, <1>b DEF Read, Goto, Commands, files
    <3>. QED  BY <3>1, <1>d, <1>f DEF Writers
  <2>. QED  BY <2>1, <2>2
<1>47. CASE GoalWrite(p)
  <2>1. CASE Fail(p)
    BY <2>1, <1>g
  <2>2. CASE ~Fail(p)
    <3>1. yaml' = yaml /\ cmd'[p].op = "goal" /\ cmd'[p].at = "touch"
      BY <1>47, <2>2, <1>b DEF GoalWrite, At, Stamping, Goto, Commands, files
    <3>. QED  BY <3>1, <1>d, <1>f
  <2>. QED  BY <2>1, <2>2
<1>48. CASE DecisionWrite(p)
  <2>1. yaml' = yaml /\ cmd'[p].op = "decision" /\ cmd'[p].at = "touch"
    BY <1>48, <1>b DEF DecisionWrite, At, Stamping, Goto, Commands, files
  <2>. QED  BY <2>1, <1>d, <1>f
<1>49. CASE ReportTruncate(p)
  <2>1. yaml' = yaml /\ cmd'[p].op = "report" /\ cmd'[p].at = "fill"
    BY <1>49, <1>b DEF ReportTruncate, At, Onward, Goto, Commands, files
  <2>. QED  BY <2>1, <1>d, <1>f
<1>50. CASE ReportFill(p)
  <2>1. yaml' = yaml /\ cmd'[p].op = "report" /\ cmd'[p].at = "touch"
    BY <1>50, <1>b DEF ReportFill, At, Stamping, Goto, Commands, files
  <2>. QED  BY <2>1, <1>d, <1>f
<1>51. CASE TouchRead(p)
  <2>1. CASE Fail(p)
    BY <2>1, <1>g
  <2>2. CASE ~Fail(p)
    <3>1. /\ yaml' = yaml /\ cmd[p].op \in {"goal", "decision", "report"}
          /\ cmd' = [cmd EXCEPT ![p] = [cmd[p] EXCEPT !.at = "stamp", !.seen = yaml]]
      BY <1>51, <2>2 DEF TouchRead, Goto, files, Writers
    <3>2. /\ cmd'[p].op = cmd[p].op /\ cmd'[p].at = "stamp"
          /\ cmd'[p].name = cmd[p].name /\ cmd'[p].to = cmd[p].to /\ cmd'[p].seen = yaml
      BY <3>1, <1>b DEF Commands
    <3>3. Holds(cmd[p])'
      BY <3>1, <3>2 DEF Holds, Making, Copies, Merging, Writers
    <3>. QED  BY <3>1, <3>3, <1>d
  <2>. QED  BY <2>1, <2>2
<1>52. CASE RiskRead(p)
  <2>1. CASE Fail(p)
    BY <2>1, <1>g
  <2>2. CASE ~Fail(p)
    <3>1. /\ yaml' = yaml /\ cmd[p].op = "risk"
          /\ cmd' = [cmd EXCEPT ![p] = [cmd[p] EXCEPT !.at = "stamp", !.seen = yaml]]
      BY <1>52, <2>2 DEF RiskRead, At, Goto, files
    <3>2. /\ cmd'[p].op = cmd[p].op /\ cmd'[p].at = "stamp"
          /\ cmd'[p].name = cmd[p].name /\ cmd'[p].to = cmd[p].to /\ cmd'[p].seen = yaml
      BY <3>1, <1>b DEF Commands
    <3>3. Holds(cmd[p])'
      BY <3>1, <3>2 DEF Holds, Making, Copies, Merging, Writers
    <3>. QED  BY <3>1, <3>3, <1>d
  <2>. QED  BY <2>1, <2>2
<1>53. CASE Stamp(p)
  <2>1. yaml' = yaml
    BY <1>53, <1>a DEF Stamp, Holds, Copies
  <2>. QED  BY <1>53, <2>1, <1>d, <1>e DEF Stamp, Return
<1>. QED
  BY <1>1, <1>2, <1>3, <1>4, <1>5, <1>6, <1>7, <1>8, <1>9, <1>10, <1>11, <1>12, <1>13,
     <1>14, <1>15, <1>16, <1>17, <1>18, <1>19, <1>20, <1>21, <1>22, <1>23, <1>24, <1>25,
     <1>26, <1>27, <1>28, <1>29, <1>30, <1>31, <1>32, <1>33, <1>34, <1>35, <1>36, <1>37,
     <1>38, <1>39, <1>40, <1>41, <1>42, <1>43, <1>44, <1>45, <1>46, <1>47, <1>48, <1>49,
     <1>50, <1>51, <1>52, <1>53
  DEF Acts, Step, Create, Select, Merge, Move, Repository, Entry

(* Nobody runs beside a command without a lock that was not counted.        *)
LEMMA AloneKept ==
    ASSUME TypeInv, HoldInv, ~overlap', NEW p \in Procs, Acts(p)
    PROVE  Alone'
<1>1. ~overlap /\ Alone
  <2>1. ~overlap
    BY Course, Zenon DEF Call
  <2>. QED  BY <2>1 DEF HoldInv
<1>2. CASE cmd'[p].op \in {cmd[p].op, "none"}
  BY <1>1, <1>2, Course DEF Alone, Busy
<1>3. ASSUME NEW c \in Commands, Call(p, c) PROVE Alone'
  <2>1. /\ ~Busy(p)
        /\ \A q \in Procs \ {p} : cmd'[q] = cmd[q] 
                                   /\ (Busy(q) => /\ c.op \notin Unlocked
                                                   /\ cmd[q].op \notin Unlocked)
    BY <1>3, Course, Zenon DEF Call
  <2>2. cmd'[p].op = c.op
    BY <1>3 DEF Call, Commands, TypeInv, TypeOK
  <2>. QED  BY <1>1, <2>1, <2>2 DEF Alone, Busy
<1>. QED  BY <1>2, <1>3, Course

(* As long as no command without a lock ran beside another, what every      *)
(* command has in hand is true of the record.                               *)
LEMMA HoldsKept ==
    ASSUME TypeInv, LockInv, HoldInv, NEW p \in Procs, Acts(p)
    PROVE  HoldInv'
<1>. SUFFICES ASSUME ~overlap' PROVE (Founding /\ Alone /\ \A q \in Procs : Holds(cmd[q]))'
  BY DEF HoldInv
<1>1. \A q \in Procs : Holds(cmd[q])'
  BY HoldsElsewhere, HoldsHere
<1>. QED  BY <1>1, HoldsHere, AloneKept

-----------------------------------------------------------------------------
(* Every document has one name.                                             *)
LEMMA NamesApart ==
    \A n, m : /\ Md(n) # Archive(m)
              /\ Md(n) = Md(m) => n = m
              /\ Archive(n) = Archive(m) => n = m
BY DEF Md, Archive

(* What the other commands keep of the documents.                           *)
LEMMA KeptElsewhere ==
    ASSUME TypeInv, LockInv, HoldInv, ~overlap', NEW p \in Procs, Acts(p),
           NEW q \in Procs, q # p, Kept(cmd[q])
    PROVE  Kept(cmd[q])'
<1>1. CASE Recording(cmd[q]) \/ cmd[q].op \in Unlocked
  <2>1. /\ yaml' = yaml /\ \A f \in Files : doc[f] # NoDoc => doc'[f] # NoDoc
        /\ cmd'[q] = cmd[q]
    BY <1>1, Undisturbed
  <2>2. /\ cmd[q].name \in Targets /\ cmd[q].to \in Targets
        /\ \A n \in Targets : Md(n) \in Files /\ Archive(n) \in Files
    BY Here, Values DEF Commands
  <2>. QED  BY <2>1, <2>2 DEF Kept
<1>2. CASE ~(Recording(cmd[q]) \/ cmd[q].op \in Unlocked)
  <2>1. cmd'[q] = cmd[q]
    BY Course
  <2>2. cmd[q].op # "rename" /\ ~(cmd[q].op = "merge" /\ cmd[q].at \in Merging)
    BY <1>2 DEF Recording, Unlocked, Merging
  <2>. QED  BY <2>1, <2>2 DEF Kept, Merging
<1>. QED  BY <1>1, <1>2

(* The entries keep their documents, and the command that goes on what it   *)
(* needs of them.                                                           *)
LEMMA DocsHere ==
    ASSUME TypeInv, LockInv, HoldInv, DocInv, NEW p \in Procs, Acts(p),
           ~overlap', killed' \intersect {"rename", "remove"} = {}
    PROVE  /\ Owned(yaml)'
           /\ \A n \in Names : Has(yaml, n)' /\ ~Halfway(n)' => (doc[yaml.subs[n].file] # NoDoc)'
           /\ Kept(cmd[p])'
<1>. DEFINE Goal == /\ Owned(yaml)'
                    /\ \A n \in Names : Has(yaml, n)' /\ ~Halfway(n)'
                                           => (doc[yaml.subs[n].file] # NoDoc)'
                    /\ Kept(cmd[p])'
<1>. DEFINE Grow == yaml' = yaml /\ \A f \in Files : doc[f] # NoDoc => doc'[f] # NoDoc
<1>. SUFFICES Goal  OBVIOUS
<1>a. /\ ~overlap /\ Founding /\ Alone /\ Holds(cmd[p])
      /\ killed \intersect {"rename", "remove"} = {}
  <2>1. ~overlap
    BY Course, Zenon DEF Call
  <2>2. killed \subseteq killed'
    BY Course
  <2>. QED  BY <2>1, <2>2 DEF HoldInv
<1>d. /\ Owned(yaml) /\ Kept(cmd[p])
      /\ \A n \in Names : Has(yaml, n) /\ ~Halfway(n) => doc[yaml.subs[n].file] # NoDoc
  BY <1>a DEF DocInv
<1>b. cmd \in [Procs -> Commands] /\ cmd[p] \in Commands /\ Shape(cmd[p])
  BY Here DEF TypeInv, TypeOK
<1>c. /\ yaml \in Records /\ doc \in [Files -> Docs \union {NoDoc}]
      /\ NoEntry \notin Entries /\ NoDoc \notin Docs /\ Stub \in Docs
      /\ \A n \in Targets : Md(n) \in Files /\ Archive(n) \in Files
      /\ \A n \in Names : /\ n \in Targets
                          /\ Has(yaml, n) => yaml.subs[n] \in Entries /\ yaml.subs[n].file \in Files
  BY Values, NothingAssumption DEF TypeInv, TypeOK, Records, Entries, Has
<1>e. \A q \in Procs \ {p} : cmd'[q] = cmd[q]
  BY Course
<1>f. ASSUME Busy(p), ~(cmd[p].op \in {"rename", "remove"} /\ cmd[p].at = "yaml"), NEW n \in Names
      PROVE  ~Halfway(n) /\ (Has(yaml, n) => doc[yaml.subs[n].file] # NoDoc)
  <2>1. ~Halfway(n)
    BY <1>a, <1>f DEF Halfway, Alone, Busy, Unlocked
  <2>. QED  BY <2>1, <1>d
<1>g. ASSUME cmd[p].op \in {"rename", "remove"}, NEW n \in Names, n # cmd[p].name
      PROVE  ~Halfway(n) /\ (Has(yaml, n) => doc[yaml.subs[n].file] # NoDoc)
  <2>1. ~Halfway(n)
    BY <1>a, <1>g DEF Halfway, Alone, Busy, Unlocked
  <2>. QED  BY <2>1, <1>d
<1>h. ASSUME /\ cmd'[p].op # "merge" \/ cmd'[p].at \notin Merging
             /\ cmd'[p].op # "rename" \/ cmd'[p].at # "yaml"
      PROVE  Kept(cmd[p])'
  BY <1>h DEF Kept, Merging
<1>i. ASSUME Leave(p) PROVE Kept(cmd[p])'
  BY <1>b, <1>h, <1>i DEF Leave, Idle
<1>j. ASSUME Grow, \A n : Halfway(n) => Halfway(n)', Kept(cmd[p])' PROVE Goal
  BY <1>c, <1>d, <1>j DEF Owned, Has
<1>k. ASSUME Grow, Busy(p), ~(cmd[p].op \in {"rename", "remove"} /\ cmd[p].at = "yaml"),
             Kept(cmd[p])' PROVE Goal
  BY <1>c, <1>d, <1>f, <1>k DEF Owned, Has
<1>l. ASSUME Grow, Busy(p), cmd[p].op \notin {"merge", "rename", "remove"} PROVE Goal
  <2>1. cmd'[p].op \in {cmd[p].op, "none"}
    BY <1>l, Course DEF Call
  <2>. QED  BY <1>h, <1>k, <1>l, <2>1
<1>m. ASSUME UNCHANGED files PROVE Grow
  BY <1>m DEF files
<1>o. ASSUME Fail(p), Busy(p), ~(cmd[p].op \in {"rename", "remove"} /\ cmd[p].at = "yaml")
      PROVE  Goal
  BY <1>i, <1>k, <1>m, <1>o DEF Fail, Return
<1>p. ASSUME CallRecord(p) \/ CallRepository(p) \/ CallEntry(p) PROVE Goal
  <2>1. cmd'[p].at = "go" /\ Grow /\ ~Busy(p)
    BY <1>m, <1>p, AskedOne, Asked DEF Call
  <2>2. \A n : Halfway(n) => Halfway(n)'
    BY <2>1, <1>e DEF Halfway, Busy
  <2>. QED  BY <1>h, <1>j, <2>1, <2>2 DEF Merging
<1>. HIDE DEF Goal
<1>1. CASE CallRecord(p)
  BY <1>1, <1>p
<1>2. CASE CallRepository(p)
  BY <1>2, <1>p
<1>3. CASE CallEntry(p)
  BY <1>3, <1>p
<1>4. CASE Kill(p)
  <2>1. cmd[p].op \notin {"rename", "remove"}
    BY <1>4 DEF Kill
  <2>. QED  BY <2>1, <1>4, <1>i, <1>k, <1>m DEF Kill
<1>5. CASE EnsureLock(p)
  <2>1. /\ cmd[p].op = "ensure" /\ doc' = doc /\ yaml' \in {yaml, Founded}
        /\ cmd'[p].op = "ensure"
    BY <1>5, <1>b DEF EnsureLock, At, Goto, Commands
  <2>2. CASE yaml' = yaml
    BY <2>1, <2>2, <1>l DEF Busy
  <2>3. CASE yaml' = Founded
    <3>1. \A n \in Names : yaml'.subs[n] = NoEntry
      BY <2>3 DEF Founded, NoRecord
    <3>. QED  BY <2>1, <3>1, <1>h DEF Goal, Owned, Has
  <2>. QED  BY <2>1, <2>2, <2>3
<1>6. CASE EnsureMain(p)
  <2>1. Grow
    BY <1>6, <1>c, <1>m DEF EnsureMain, Main
  <2>. QED  BY <1>6, <2>1, <1>l DEF EnsureMain, At, Busy
<1>7. CASE EnsureSub(p)
  <2>1. Grow
    BY <1>7, <1>c, <1>m DEF EnsureSub, Fail, Main
  <2>. QED  BY <1>7, <2>1, <1>l DEF EnsureSub, At, Busy
<1>8. CASE AddLook(p)
  BY <1>8, <1>l, <1>m DEF AddLook, At, Fail, Busy
<1>9. CASE BranchLook(p)
  BY <1>9, <1>l, <1>m DEF BranchLook, At, Fail, Busy
<1>10. CASE CreateMd(p)
  <2>1. Grow
    BY <1>10, <1>c, <1>m DEF CreateMd, Fail, Main
  <2>. QED  BY <1>10, <2>1, <1>l DEF CreateMd, Busy
<1>11. CASE CreateYaml(p)
  <2>. DEFINE k == cmd[p].name
             e == New(cmd[p])
  <2>1. /\ k \in Names /\ yaml' = With(yaml, k, e) /\ doc[Md(k)] # NoDoc
        /\ doc' = doc /\ cmd[p].op \in {"ensure", "add", "branch"}
    BY <1>11, <1>a DEF CreateYaml, Holds, Making
  <2>2. e \in Entries /\ e.file = Md(k) /\ ~e.archived
    BY <2>1, <1>b, <1>c, Values DEF New, Branch, Regular, Entries, Commands
  <2>3. /\ \A n \in Names : yaml'.subs[n] = IF n = k THEN e ELSE yaml.subs[n]
        /\ \A n : Has(yaml', n) <=> IF n = k THEN e # NoEntry ELSE Has(yaml, n)
    BY <2>1, <2>2, <1>c, WithOne
  <2>4. Kept(cmd[p])'
    BY <2>1, <1>h, Course DEF Call, Busy
  <2>. HIDE DEF e, k
  <2>5. Owned(yaml)'
    BY <2>1, <2>2, <2>3, <1>d DEF Owned
  <2>6. \A n \in Names : Has(yaml', n) => doc'[yaml'.subs[n].file] # NoDoc
    BY <2>1, <2>2, <2>3, <1>f DEF Busy
  <2>. QED  BY <2>4, <2>5, <2>6 DEF Goal
<1>12. CASE CreateFail(p)
  <2>1. /\ cmd[p].name \in Names /\ ~Has(yaml, cmd[p].name) /\ yaml' = yaml /\ Leave(p)
        /\ doc' = [doc EXCEPT ![Md(cmd[p].name)] = NoDoc] /\ cmd[p].op \in {"add", "branch"}
    BY <1>12, <1>a DEF CreateFail, Holds, Making, Return
  <2>2. \A n \in Names : Has(yaml, n) => yaml.subs[n].file # Md(cmd[p].name)
    BY <2>1, <1>d, NamesApart DEF Owned
  <2>3. \A n \in Names : Has(yaml, n) => doc'[yaml.subs[n].file] # NoDoc
    BY <2>1, <2>2, <1>c, <1>f DEF Busy
  <2>. QED  BY <2>1, <2>3, <1>d, <1>i DEF Goal, Owned, Has
<1>13. CASE SelectLook(p)
  BY <1>13, <1>l, <1>m DEF SelectLook, At, Fail, Busy
<1>14. CASE SelectPoint(p)
  <2>1. UNCHANGED <<yaml, doc>> /\ cmd[p].at = "point" /\ Leave(p)
    BY <1>14 DEF SelectPoint, Return
  <2>2. Busy(p)
    BY <2>1, <1>a DEF Holds, Busy
  <2>. QED  BY <2>1, <2>2, <1>i, <1>k
<1>15. CASE MergeLook(p)
  <2>1. CASE Fail(p)
    BY <2>1, <1>15, <1>o DEF MergeLook, At, Busy
  <2>2. CASE ~Fail(p)
    <3>1. /\ cmd[p].op = "merge" /\ UNCHANGED files /\ Live(yaml, cmd[p].name)
          /\ \E f : cmd' = [cmd EXCEPT ![p] = [cmd[p] EXCEPT !.at = "lock", !.seen = yaml,
                                                            !.file = f]]
      BY <1>15, <2>2 DEF MergeLook, At, Goto
    <3>2. /\ cmd'[p].op = "merge" /\ cmd'[p].at = "lock" /\ cmd'[p].name = cmd[p].name
          /\ cmd'[p].seen = yaml
      BY <3>1, <1>b DEF Commands
    <3>3. yaml.subs[cmd[p].name].file = Md(cmd[p].name)
      BY <3>1, <1>d DEF Owned, Live, Has
    <3>4. Kept(cmd[p])'
      BY <3>2, <3>3 DEF Kept
    <3>. QED  BY <3>1, <3>4, <1>k, <1>m DEF Busy
  <2>. QED  BY <2>1, <2>2
<1>16. CASE MergeLock(p)
  <2>1. /\ cmd[p].op = "merge" /\ cmd[p].at = "lock" /\ UNCHANGED files
        /\ cmd'[p].op = "merge" /\ cmd'[p].at \in {"lock", "read"}
        /\ cmd'[p].name = cmd[p].name /\ cmd'[p].seen = cmd[p].seen
    BY <1>16, <1>b DEF MergeLock, At, Onward, Goto, Commands
  <2>2. Kept(cmd[p])'
    BY <2>1, <1>d DEF Kept, Merging
  <2>. QED  BY <2>1, <2>2, <1>k, <1>m DEF Busy
<1>17. CASE MergeRead(p)
  <2>1. CASE Fail(p)
    BY <2>1, <1>17, <1>o DEF MergeRead, At, Busy
  <2>2. CASE ~Fail(p)
    <3>1. /\ cmd[p].op = "merge" /\ cmd[p].at = "read" /\ UNCHANGED files
          /\ cmd' = [cmd EXCEPT ![p] = [cmd[p] EXCEPT !.at = "archive", !.was = yaml,
                         !.text = doc[Merged(p).file], !.other = doc[cmd[p].file]]]
      BY <1>17, <2>2 DEF MergeRead, At, Goto
    <3>2. /\ cmd'[p].op = "merge" /\ cmd'[p].at = "archive"
          /\ cmd'[p].name = cmd[p].name /\ cmd'[p].seen = cmd[p].seen
      BY <3>1, <1>b DEF Commands
    <3>3. Kept(cmd[p])'
      BY <3>1, <3>2, <1>d DEF Kept, Merging
    <3>. QED  BY <3>1, <3>3, <1>k, <1>m DEF Busy
  <2>. QED  BY <2>1, <2>2
<1>18. CASE MergeArchive(p)
  <2>1. /\ cmd[p].op = "merge" /\ cmd[p].at = "archive" /\ yaml' = yaml
        /\ doc' = [doc EXCEPT ![Archive(cmd[p].name)] = cmd[p].text] /\ cmd[p].text \in Docs
        /\ cmd'[p].op = "merge" /\ cmd'[p].at = "parent"
        /\ cmd'[p].name = cmd[p].name /\ cmd'[p].seen = cmd[p].seen
        /\ cmd[p].name \in Targets
    BY <1>18, <1>b DEF MergeArchive, At, Onward, Goto, Commands
  <2>2. Grow /\ doc'[Archive(cmd[p].name)] # NoDoc
    BY <2>1, <1>c
  <2>3. Kept(cmd[p])'
    BY <2>1, <2>2, <1>d DEF Kept, Merging
  <2>. QED  BY <2>1, <2>2, <2>3, <1>k DEF Busy
<1>19. CASE MergeParent(p)
  <2>1. /\ cmd[p].op = "merge" /\ cmd[p].at = "parent" /\ yaml' = yaml
        /\ doc' = [doc EXCEPT ![cmd[p].file] =
              [cmd[p].other EXCEPT !.open = @ \union Pending(cmd[p].text, cmd[p].other)]]
        /\ cmd'[p].op = "merge" /\ cmd'[p].at = "yaml"
        /\ cmd'[p].name = cmd[p].name /\ cmd'[p].seen = cmd[p].seen
    BY <1>19, <1>b DEF MergeParent, At, Onward, Goto, Commands
  <2>2. [cmd[p].other EXCEPT !.open = @ \union Pending(cmd[p].text, cmd[p].other)] \in Docs
    BY <1>b DEF Commands, Docs, Pending
  <2>3. Grow
    BY <2>1, <2>2, <1>c
  <2>4. cmd[p].name \in Targets
    BY <1>b DEF Commands
  <2>5. Kept(cmd[p])'
    BY <2>1, <2>3, <2>4, <1>c, <1>d DEF Kept, Merging
  <2>. QED  BY <2>1, <2>3, <2>5, <1>k DEF Busy
<1>20. CASE MergeYaml(p)
  <2>. DEFINE k == cmd[p].name
             e == [yaml.subs[k] EXCEPT !.archived = TRUE, !.file = Archive(k)]
  <2>1. /\ cmd[p].op = "merge" /\ cmd[p].at = "yaml" /\ doc' = doc
        /\ yaml' = Closed(cmd[p].seen, k)
        /\ cmd'[p].op = "merge" /\ cmd'[p].at = "unlink"
        /\ cmd'[p].name = k /\ cmd'[p].seen = cmd[p].seen
    BY <1>20, <1>b DEF MergeYaml, Merged, Closed, At, Onward, Goto, Commands
  <2>2. /\ cmd[p].seen = yaml /\ Has(yaml, k) /\ k \in Names
        /\ doc[Archive(k)] # NoDoc /\ yaml.subs[k].file = Md(k)
    BY <2>1, <1>a, <1>d DEF Holds, Copies, Merging, Kept, Live, Has
  <2>3. e \in Entries /\ e.file = Archive(k) /\ e.archived
    BY <2>2, <1>c DEF Entries
  <2>4. /\ \A n \in Names : yaml'.subs[n] = IF n = k THEN e ELSE yaml.subs[n]
        /\ \A n : Has(yaml', n) <=> IF n = k THEN e # NoEntry ELSE Has(yaml, n)
    <3>1. yaml' = With(yaml, k, e)
      BY <2>1, <2>2 DEF Closed
    <3>. HIDE DEF e, k
    <3>. QED  BY <3>1, <2>2, <2>3, <1>c, WithOne
  <2>5. doc[Md(k)] # NoDoc
    BY <2>1, <2>2, <1>f DEF Busy
  <2>6. Kept(cmd[p])'
    BY <2>1, <2>2, <2>5 DEF Kept
  <2>. HIDE DEF e, k
  <2>7. Owned(yaml)'
    BY <2>3, <2>4, <1>d DEF Owned
  <2>8. \A n \in Names : Has(yaml', n) => doc'[yaml'.subs[n].file] # NoDoc
    BY <2>1, <2>2, <2>3, <2>4, <1>f DEF Busy
  <2>. QED  BY <2>6, <2>7, <2>8 DEF Goal
<1>21. CASE MergeUnlink(p)
  <2>. DEFINE k == cmd[p].name
  <2>1. /\ cmd[p].op = "merge" /\ cmd[p].at = "unlink" /\ yaml' = yaml /\ Leave(p)
        /\ doc' = [doc EXCEPT ![cmd[p].seen.subs[k].file] = NoDoc]
    BY <1>21 DEF MergeUnlink, Merged, At, Return
  <2>2. cmd[p].seen.subs[k].file = Md(k) /\ k \in Names /\ cmd[p].seen.subs[k] \in Entries
    BY <2>1, <1>b, <1>d DEF Kept, Merging, Shape
  <2>3. yaml = Closed(cmd[p].seen, k) /\ cmd[p].seen \in Records
    BY <2>1, <1>a, <1>b DEF Holds, Merging, Commands
  <2>4. yaml.subs[k].file = Archive(k)
    <3>. DEFINE e == [cmd[p].seen.subs[k] EXCEPT !.archived = TRUE, !.file = Archive(k)]
    <3>1. e \in Entries /\ e.file = Archive(k)
      BY <2>2, <1>c DEF Entries
    <3>2. yaml = With(cmd[p].seen, k, e)
      BY <2>3 DEF Closed
    <3>. HIDE DEF e, k
    <3>. QED  BY <2>2, <2>3, <3>1, <3>2, WithOne
  <2>5. \A n \in Names : Has(yaml, n) => yaml.subs[n].file # Md(k)
    BY <2>4, <1>d, NamesApart DEF Owned
  <2>6. \A n \in Names : Has(yaml, n) => doc'[yaml.subs[n].file] # NoDoc
    BY <2>1, <2>2, <2>5, <1>c, <1>f DEF Busy
  <2>. QED  BY <2>1, <2>6, <1>d, <1>i DEF Goal, Owned, Has
<1>22. CASE MergeFail(p)
  <2>1. /\ cmd[p].op = "merge" /\ cmd[p].at \in {"archive", "parent", "yaml", "unlink"}
        /\ yaml' = yaml
        /\ doc' = doc \/ doc' = [doc EXCEPT ![Archive(cmd[p].name)] = Blank]
        /\ cmd'[p].op = "merge" /\ cmd'[p].at = "restore"
        /\ cmd'[p].name = cmd[p].name /\ cmd'[p].seen = cmd[p].seen
        /\ cmd[p].name \in Names
    BY <1>22, <1>b DEF MergeFail, Onward, Goto, Commands, Shape
  <2>2. Grow
    BY <2>1, <1>c, Values
  <2>3. cmd[p].seen.subs[cmd[p].name].file = Md(cmd[p].name)
    BY <2>1, <1>d DEF Kept, Merging
  <2>4. doc[Md(cmd[p].name)] # NoDoc
    <3>1. CASE cmd[p].at = "unlink"
      BY <2>1, <3>1, <1>d DEF Kept
    <3>2. CASE cmd[p].at # "unlink"
      <4>1. cmd[p].seen = yaml /\ Has(yaml, cmd[p].name)
        BY <2>1, <3>2, <1>a DEF Holds, Copies, Merging, Live
      <4>. QED  BY <4>1, <2>1, <2>3, <1>f DEF Busy
    <3>. QED  BY <3>1, <3>2
  <2>5. Kept(cmd[p])'
    BY <2>1, <2>2, <2>3, <2>4, <1>c DEF Kept
  <2>. QED  BY <2>1, <2>2, <2>5, <1>k DEF Busy
<1>23. CASE MergeRestore(p)
  <2>1. /\ cmd[p].op = "merge" /\ cmd[p].at = "restore" /\ yaml' = yaml
        /\ doc' = [doc EXCEPT ![cmd[p].file] = cmd[p].other] /\ cmd[p].other \in Docs
        /\ cmd'[p].op = "merge" /\ cmd'[p].at = "revert"
        /\ cmd'[p].name = cmd[p].name /\ cmd'[p].seen = cmd[p].seen
        /\ cmd[p].name \in Targets
    BY <1>23, <1>b DEF MergeRestore, At, Onward, Goto, Commands
  <2>2. Grow
    BY <2>1, <1>c
  <2>3. Kept(cmd[p])'
    BY <2>1, <2>2, <1>c, <1>d DEF Kept, Merging
  <2>. QED  BY <2>1, <2>2, <2>3, <1>k DEF Busy
<1>24. CASE MergeRevert(p)
  <2>. DEFINE k == cmd[p].name
             seen == cmd[p].seen
  <2>1. /\ cmd[p].op = "merge" /\ cmd[p].at = "revert" /\ doc' = doc
        /\ yaml' = seen /\ seen \in Records
        /\ cmd'[p].op = "merge" /\ cmd'[p].at = "discard" /\ cmd'[p].name = k
        /\ cmd'[p].seen = seen
    BY <1>24, <1>a, <1>b DEF MergeRevert, At, Onward, Goto, Holds, Merging, Commands
  <2>2. /\ seen.subs[k].file = Md(k) /\ k \in Names /\ Live(seen, k)
        /\ seen.subs[k] \in Entries /\ doc[Md(k)] # NoDoc
    BY <2>1, <1>a, <1>b, <1>d DEF Kept, Holds, Merging, Shape
  <2>3. \A n \in Names : n # k => seen.subs[n] = yaml.subs[n]
    <3>. SUFFICES ASSUME yaml # seen
                  PROVE  \A n \in Names : n # k => seen.subs[n] = yaml.subs[n]
      BY Zenon
    <3>. DEFINE e == [seen.subs[k] EXCEPT !.archived = TRUE, !.file = Archive(k)]
    <3>1. e \in Entries
      BY <2>2, <1>c DEF Entries
    <3>2. yaml = With(seen, k, e)
      BY <2>1, <1>a DEF Holds, Merging, Closed
    <3>. HIDE DEF e, k, seen
    <3>. QED  BY <2>1, <2>2, <3>1, <3>2, WithOne
  <2>. HIDE DEF k, seen
  <2>4. Owned(seen)
    BY <2>2, <2>3, <1>d DEF Owned, Live, Has
  <2>5. \A n \in Names : Has(seen, n) => doc[seen.subs[n].file] # NoDoc
    BY <2>1, <2>2, <2>3, <1>f DEF Has, Busy
  <2>6. Kept(cmd[p])'
    BY <2>1, <2>2 DEF Kept
  <2>. QED  BY <2>1, <2>4, <2>5, <2>6 DEF Goal, Owned, Has
<1>25. CASE MergeDiscard(p)
  <2>. DEFINE k == cmd[p].name
  <2>1. /\ cmd[p].op = "merge" /\ cmd[p].at = "discard" /\ yaml' = yaml /\ Leave(p)
        /\ doc' = [doc EXCEPT ![Archive(k)] = NoDoc] /\ k \in Names
    BY <1>25, <1>b DEF MergeDiscard, At, Return, Shape
  <2>2. yaml.subs[k].file = Md(k)
    BY <2>1, <1>a, <1>d DEF Kept, Holds, Copies, Merging
  <2>3. \A n \in Names : Has(yaml, n) => yaml.subs[n].file # Archive(k)
    BY <2>1, <2>2, <1>d, NamesApart DEF Owned
  <2>4. \A n \in Names : Has(yaml, n) => doc'[yaml.subs[n].file] # NoDoc
    BY <2>1, <2>3, <1>c, <1>f DEF Busy
  <2>. QED  BY <2>1, <2>4, <1>d, <1>i DEF Goal, Owned, Has
<1>26. CASE RenameLook(p)
  <2>1. CASE Fail(p)
    BY <2>1, <1>26, <1>o DEF RenameLook, At, Busy
  <2>2. CASE ~Fail(p)
    <3>1. /\ cmd[p].op = "rename" /\ cmd[p].at = "go" /\ UNCHANGED files
          /\ cmd' = [cmd EXCEPT ![p] = [cmd[p] EXCEPT !.at = "md", !.seen = yaml]]
      BY <1>26, <2>2 DEF RenameLook, At, Goto
    <3>2. cmd'[p].op = "rename" /\ cmd'[p].at = "md"
      BY <3>1, <1>b DEF Commands
    <3>. QED  BY <3>1, <3>2, <1>h, <1>k, <1>m DEF Busy
  <2>. QED  BY <2>1, <2>2
<1>27. CASE RenameMd(p)
  <2>. DEFINE k == cmd[p].name
             f == yaml.subs[k].file
             g == Md(cmd[p].to)
  <2>1. cmd[p].op = "rename" /\ cmd[p].at = "md"
    BY <1>27 DEF RenameMd, At
  <2>2. /\ cmd[p].seen = yaml /\ Has(yaml, k) /\ ~Has(yaml, cmd[p].to) /\ k \in Names
        /\ cmd[p].to \in Names
    BY <2>1, <1>a, <1>b DEF Holds, Copies, Shape
  <2>3. /\ doc[f] # NoDoc /\ f # g /\ f \in {Md(k), Archive(k)} /\ f \in Files /\ g \in Files
    BY <2>1, <2>2, <1>c, <1>d, <1>f, NamesApart DEF Busy, Owned
  <2>4. CASE Fail(p)
    BY <2>1, <2>4, <1>o DEF Busy
  <2>5. CASE ~Fail(p)
    <3>1. /\ yaml' = yaml /\ doc[g] = NoDoc /\ doc' = [doc EXCEPT ![g] = doc[f], ![f] = NoDoc]
          /\ cmd'[p] = [cmd[p] EXCEPT !.at = "yaml", !.seen.subs[k].file = g]
      BY <1>27, <2>2, <2>3, <2>5, <1>b DEF RenameMd, Merged, Goto, files
    <3>2. [yaml EXCEPT !.subs[k].file = g] = Moved(yaml, k, cmd[p].to)
      BY <2>2, <1>c DEF Moved, With
    <3>3. cmd'[p] = [cmd[p] EXCEPT !.at = "yaml", !.seen = Moved(yaml, k, cmd[p].to)]
      BY <3>1, <3>2, <2>2, <1>b DEF Commands
    <3>. HIDE DEF f, g
    <3>4. /\ cmd'[p].op = "rename" /\ cmd'[p].at = "yaml" /\ cmd'[p].name = k
          /\ cmd'[p].to = cmd[p].to /\ cmd'[p].seen = Moved(yaml, k, cmd[p].to)
      BY <3>3, <2>1, <1>b DEF Commands
    <3>5. doc'[g] # NoDoc /\ \A h \in Files : h # f /\ doc[h] # NoDoc => doc'[h] # NoDoc
      BY <3>1, <2>3, <1>c
    <3>6. Kept(cmd[p])'
      BY <3>1, <3>4, <3>5 DEF Kept, g
    <3>7. \A n : n = k => Halfway(n)'
      BY <3>4 DEF Halfway
    <3>8. ASSUME NEW n \in Names, n # k, Has(yaml, n) PROVE doc'[yaml.subs[n].file] # NoDoc
      <4>1. yaml.subs[n].file # f
        BY <3>8, <2>3, <1>d, NamesApart DEF Owned
      <4>2. doc[yaml.subs[n].file] # NoDoc /\ yaml.subs[n].file \in Files
        BY <3>8, <2>1, <1>c, <1>g
      <4>. QED  BY <4>1, <4>2, <3>5
    <3>9. \A n \in Names : Has(yaml, n)' /\ ~Halfway(n)' => (doc[yaml.subs[n].file] # NoDoc)'
      BY <3>1, <3>7, <3>8 DEF Has
    <3>. QED  BY <3>1, <3>6, <3>9, <1>d DEF Goal, Owned, Has
  <2>. QED  BY <2>4, <2>5
<1>28. CASE RenameYaml(p)
  <2>. DEFINE k == cmd[p].name
             m == cmd[p].to
             e == [yaml.subs[k] EXCEPT !.file = Md(m)]
  <2>1. /\ cmd[p].op = "rename" /\ cmd[p].at = "yaml" /\ doc' = doc
        /\ yaml' = Renamed(cmd[p].seen, k, m)
        /\ cmd'[p].op = "rename" /\ cmd'[p].at = "sessions"
    BY <1>28, <1>b DEF RenameYaml, At, Onward, Goto, Commands
  <2>2. /\ Has(yaml, k) /\ ~Has(yaml, m) /\ k \in Names /\ m \in Names /\ k # m
        /\ cmd[p].seen = With(yaml, k, e) /\ doc[Md(m)] # NoDoc
    BY <2>1, <1>a, <1>b, <1>d DEF Holds, Shape, Kept, Moved
  <2>3. e \in Entries /\ e.file = Md(m)
    BY <2>2, <1>c DEF Entries
  <2>. HIDE DEF e, k, m
  <2>4. \A n \in Names : With(yaml, k, e).subs[n] = IF n = k THEN e ELSE yaml.subs[n]
    BY <2>2, <2>3, <1>c, WithOne
  <2>5. \A n \in Names :
           IF n = k THEN yaml'.subs[n] = NoEntry
           ELSE IF n = m THEN yaml'.subs[n] # NoEntry /\ yaml'.subs[n].file = Md(m)
           ELSE IF yaml.subs[n] = NoEntry THEN yaml'.subs[n] = NoEntry
           ELSE /\ yaml'.subs[n].file = yaml.subs[n].file
                /\ yaml'.subs[n].archived = yaml.subs[n].archived
    <3>1. With(yaml, k, e) \in Records
      BY <2>2, <2>3, <1>c, WithOne
    <3>. QED  BY <3>1, <2>1, <2>2, <2>3, <2>4, <1>c, RenamedOne
  <2>6. Owned(yaml)'
    BY <2>2, <2>5, <1>d DEF Owned, Has
  <2>7. ASSUME NEW n \in Names, Has(yaml', n) PROVE doc'[yaml'.subs[n].file] # NoDoc
    <3>1. CASE n = m
      BY <3>1, <2>1, <2>2, <2>5
    <3>2. CASE n # m
      <4>1. n # k /\ Has(yaml, n) /\ yaml'.subs[n].file = yaml.subs[n].file
        BY <3>2, <2>5, <2>7 DEF Has
      <4>. QED  BY <4>1, <2>1, <1>g DEF k
    <3>. QED  BY <3>1, <3>2
  <2>. QED  BY <2>1, <2>6, <2>7, <1>h DEF Goal
<1>29. CASE RenameSessions(p)
  <2>1. /\ UNCHANGED <<yaml, doc>> /\ Leave(p) /\ cmd[p].op = "rename" /\ cmd[p].at = "sessions"
    BY <1>29 DEF RenameSessions, At, Return
  <2>. QED  BY <2>1, <1>i, <1>k DEF Busy
<1>30. CASE RemoveLook(p)
  <2>1. CASE Fail(p)
    BY <2>1, <1>30, <1>o DEF RemoveLook, At, Busy
  <2>2. CASE ~Fail(p)
    <3>1. /\ cmd[p].op = "remove" /\ cmd[p].at = "go" /\ UNCHANGED files
          /\ cmd' = [cmd EXCEPT ![p] = [cmd[p] EXCEPT !.at = "md", !.seen = yaml]]
      BY <1>30, <2>2 DEF RemoveLook, At, Goto
    <3>2. cmd'[p].op = "remove" /\ cmd'[p].at = "md"
      BY <3>1, <1>b DEF Commands
    <3>. QED  BY <3>1, <3>2, <1>h, <1>k, <1>m DEF Busy
  <2>. QED  BY <2>1, <2>2
<1>31. CASE RemoveMd(p)
  <2>. DEFINE k == cmd[p].name
             f == yaml.subs[k].file
  <2>1. /\ cmd[p].op = "remove" /\ cmd[p].at = "md" /\ yaml' = yaml
        /\ cmd'[p].op = "remove" /\ cmd'[p].at = "yaml" /\ cmd'[p].name = k
        /\ doc' = [doc EXCEPT ![cmd[p].seen.subs[k].file] = NoDoc]
    BY <1>31, <1>b DEF RemoveMd, Merged, At, Onward, Goto, Commands
  <2>2. cmd[p].seen = yaml /\ Has(yaml, k) /\ k \in Names
    BY <2>1, <1>a DEF Holds, Copies, Has
  <2>3. f \in {Md(k), Archive(k)}
    BY <2>2, <1>d DEF Owned
  <2>. HIDE DEF k
  <2>4. \A n : n = k => Halfway(n)'
    BY <2>1 DEF Halfway
  <2>5. ASSUME NEW n \in Names, n # k, Has(yaml, n) PROVE doc'[yaml.subs[n].file] # NoDoc
    <3>1. yaml.subs[n].file # f
      BY <2>3, <2>5, <1>d, NamesApart DEF Owned
    <3>2. doc[yaml.subs[n].file] # NoDoc /\ yaml.subs[n].file \in Files
      BY <2>1, <2>5, <1>c, <1>g DEF k
    <3>3. doc' = [doc EXCEPT ![f] = NoDoc]
      BY <2>1, <2>2
    <3>. QED  BY <3>1, <3>2, <3>3, <1>c
  <2>6. \A n \in Names : Has(yaml, n)' /\ ~Halfway(n)' => (doc[yaml.subs[n].file] # NoDoc)'
    BY <2>1, <2>4, <2>5 DEF Has
  <2>7. Kept(cmd[p])'
    BY <2>1, <1>h
  <2>. QED  BY <2>1, <2>6, <2>7, <1>d DEF Goal, Owned, Has
<1>32. CASE RemoveYaml(p)
  <2>. DEFINE k == cmd[p].name
  <2>1. /\ cmd[p].op = "remove" /\ cmd[p].at = "yaml" /\ doc' = doc /\ Leave(p)
        /\ yaml' = With(cmd[p].seen, k, NoEntry)
    BY <1>32 DEF RemoveYaml, At, Return
  <2>2. cmd[p].seen = yaml /\ k \in Names
    BY <2>1, <1>a DEF Holds, Copies, Has
  <2>3. \A n \in Names : yaml'.subs[n] = IF n = k THEN NoEntry ELSE yaml.subs[n]
    BY <2>1, <2>2, <1>c, WithOne
  <2>4. Owned(yaml)'
    BY <2>3, <1>d DEF Owned, Has
  <2>5. \A n \in Names : Has(yaml', n) => doc'[yaml'.subs[n].file] # NoDoc
    BY <2>1, <2>3, <1>g DEF Has
  <2>. QED  BY <2>1, <2>4, <2>5, <1>i DEF Goal
<1>33. CASE AddRepository(p)
  BY <1>33, <1>l, <1>m DEF AddRepository, At, Busy
<1>34. CASE FoundRegister(p)
  BY <1>34, <1>l, <1>m DEF FoundRegister, At, Fail, Busy
<1>35. CASE FoundRead(p)
  BY <1>35, <1>l, <1>m DEF FoundRead, At, Busy
<1>36. CASE LinkRead(p)
  BY <1>36, <1>l, <1>m DEF LinkRead, Fail, Busy
<1>37. CASE LinkWrite(p)
  <2>1. /\ cmd[p].op \in {"found", "link", "unlink"} /\ cmd[p].seen = yaml /\ doc' = doc
        /\ Leave(p)
    BY <1>37, <1>a DEF LinkWrite, Holds, Copies, Return
  <2>2. yaml'.subs = yaml.subs
    BY <1>37, <2>1, <1>c DEF LinkWrite, Records
  <2>. QED  BY <2>1, <2>2, <1>d, <1>f, <1>i DEF Goal, Owned, Has, Busy
<1>38. CASE DropLook(p)
  BY <1>38, <1>l, <1>m DEF DropLook, At, Fail, Busy
<1>39. CASE DropRemove(p)
  BY <1>39, <1>l, <1>m DEF DropRemove, At, Busy
<1>40. CASE RelinkMove(p)
  BY <1>40, <1>l, <1>m DEF RelinkMove, At, Fail, Busy
<1>41. CASE RelinkFile(p)
  BY <1>41, <1>l, <1>m DEF RelinkFile, At, Busy
<1>42. CASE RelinkRead(p)
  BY <1>42, <1>l, <1>m DEF RelinkRead, At, Busy
<1>43. CASE RelinkYaml(p)
  <2>1. /\ cmd[p].op = "relink" /\ cmd'[p].op = "relink" /\ doc' = doc
        /\ cmd[p].repo \in Repos /\ cmd[p].new \in Repos
        /\ yaml' = Relinked(yaml, cmd[p].repo, cmd[p].new)
    BY <1>43, <1>a, <1>b DEF RelinkYaml, At, Onward, Goto, Commands, Holds, Shape
  <2>2. \A n \in Names :
           IF yaml.subs[n] = NoEntry THEN yaml'.subs[n] = NoEntry
           ELSE /\ yaml'.subs[n] # NoEntry
                /\ yaml'.subs[n].file = yaml.subs[n].file
                /\ yaml'.subs[n].archived = yaml.subs[n].archived
    BY <2>1, <1>c, RelinkedOne
  <2>3. Owned(yaml)'
    BY <2>2, <1>d DEF Owned, Has
  <2>4. \A n \in Names : Has(yaml', n) => doc'[yaml'.subs[n].file] # NoDoc
    BY <2>1, <2>2, <1>f DEF Has, Busy
  <2>. QED  BY <2>1, <2>3, <2>4, <1>h DEF Goal
<1>44. CASE RelinkSessions(p)
  BY <1>44, <1>l, <1>m DEF RelinkSessions, At, Busy
<1>45. CASE Target(p)
  BY <1>45, <1>l, <1>m DEF Target, Fail, Busy, Writers
<1>46. CASE Read(p)
  BY <1>46, <1>l, <1>m DEF Read, Fail, Busy, Writers
<1>47. CASE GoalWrite(p)
  <2>1. CASE Fail(p)
    BY <2>1, <1>47, <1>o DEF GoalWrite, At, Busy
  <2>2. CASE ~Fail(p)
    <3>1. PICK e \in Edited(cmd[p].text, cmd[p].edit, cmd[p].goal) :
             doc' = [doc EXCEPT ![cmd[p].file] = e] /\ yaml' = yaml
      BY <1>47, <2>2 DEF GoalWrite, Stamping
    <3>2. cmd[p].op = "goal" /\ cmd[p].goal \in Goals /\ cmd[p].text \in Docs
      BY <1>47, <1>b DEF GoalWrite, At, Shape, Commands
    <3>3. e \in Docs
      BY <3>1, <3>2, <1>b, EditedTyped DEF Commands
    <3>4. Grow
      BY <3>1, <3>3, <1>c
    <3>. QED  BY <3>2, <3>4, <1>l DEF Busy
  <2>. QED  BY <2>1, <2>2
<1>48. CASE DecisionWrite(p)
  <2>1. Blank \in Docs /\ cmd[p].text \in Docs
    BY Values, <1>b DEF Commands
  <2>2. Grow
    BY <1>48, <1>c, <2>1 DEF DecisionWrite, Stamping
  <2>. QED  BY <1>48, <2>2, <1>l DEF DecisionWrite, At, Busy
<1>49. CASE ReportTruncate(p)
  <2>1. Blank \in Docs /\ cmd[p].text \in Docs
    BY Values, <1>b DEF Commands
  <2>2. Grow
    BY <1>49, <1>c, <2>1 DEF ReportTruncate
  <2>. QED  BY <1>49, <2>2, <1>l DEF ReportTruncate, At, Busy
<1>50. CASE ReportFill(p)
  <2>1. Blank \in Docs /\ cmd[p].text \in Docs
    BY Values, <1>b DEF Commands
  <2>2. Grow
    BY <1>50, <1>c, <2>1 DEF ReportFill, Stamping
  <2>. QED  BY <1>50, <2>2, <1>l DEF ReportFill, At, Busy
<1>51. CASE TouchRead(p)
  BY <1>51, <1>l, <1>m DEF TouchRead, Fail, Busy, Writers
<1>52. CASE RiskRead(p)
  BY <1>52, <1>l, <1>m DEF RiskRead, At, Fail, Busy
<1>53. CASE Stamp(p)
  <2>1. yaml' = yaml /\ doc' = doc
    BY <1>53, <1>a DEF Stamp, Holds, Copies
  <2>2. Busy(p) /\ cmd[p].op \notin {"merge", "rename", "remove"}
    BY <1>53, <1>a DEF Stamp, Holds, Busy, Writers
  <2>. QED  BY <2>1, <2>2, <1>l
<1>. QED
  BY <1>1, <1>2, <1>3, <1>4, <1>5, <1>6, <1>7, <1>8, <1>9, <1>10, <1>11, <1>12, <1>13,
     <1>14, <1>15, <1>16, <1>17, <1>18, <1>19, <1>20, <1>21, <1>22, <1>23, <1>24, <1>25,
     <1>26, <1>27, <1>28, <1>29, <1>30, <1>31, <1>32, <1>33, <1>34, <1>35, <1>36, <1>37,
     <1>38, <1>39, <1>40, <1>41, <1>42, <1>43, <1>44, <1>45, <1>46, <1>47, <1>48, <1>49,
     <1>50, <1>51, <1>52, <1>53
  DEF Acts, Step, Create, Select, Merge, Move, Repository, Entry

(* The projects there may be at the start, one by one.                      *)
LEMMA StartKinds ==
    ASSUME NEW i \in Start
    PROVE  \/ i = [yaml |-> NoRecord, docs |-> {}, sub |-> Main, killed |-> {}]
           \/ \E r \in Repos :
                 i = [yaml |-> [Founded EXCEPT !.repos = {r}], docs |-> {Md(Main)},
                      sub |-> Main, killed |-> {}]
           \/ \E n \in Names, r \in Repos :
                 i = [yaml |-> [With(Founded, n, Branch(n, Main, r)) EXCEPT !.repos = {r}],
                      docs |-> {Md(Main), Md(n)}, sub |-> n, killed |-> {}]
           \/ \E n \in Names, m \in Names, r \in Repos :
                 i = [yaml |-> [With(Founded, n, [Regular(n) EXCEPT !.file = Md(m)])
                                   EXCEPT !.repos = {r}],
                      docs |-> {Md(Main), Md(n)}, sub |-> n, killed |-> {"rename"}]
BY DEF Start

(* The record a project starts with: no subproject, or an open branch, or   *)
(* what a killed rename left.                                               *)
LEMMA StartsAs ==
    ASSUME Init
    PROVE  \/ \A n \in Names : yaml.subs[n] = NoEntry
           \/ /\ yaml.made
              /\ \E m \in Names, r \in Repos :
                    /\ \A n \in Names : yaml.subs[n] = IF n = m THEN Branch(m, Main, r) ELSE NoEntry
                    /\ doc[Md(m)] = Stub
           \/ yaml.made /\ killed = {"rename"}
<1>1. PICK i \in Start :
         /\ yaml = i.yaml /\ killed = i.killed
         /\ doc = [f \in Files |-> IF f \in i.docs THEN Stub ELSE NoDoc]
  BY DEF Init
<1>2. CASE i = [yaml |-> NoRecord, docs |-> {}, sub |-> Main, killed |-> {}]
  BY <1>1, <1>2 DEF NoRecord
<1>3. CASE \E r \in Repos :
              i = [yaml |-> [Founded EXCEPT !.repos = {r}], docs |-> {Md(Main)},
                   sub |-> Main, killed |-> {}]
  <2>1. PICK r \in Repos :
           i = [yaml |-> [Founded EXCEPT !.repos = {r}], docs |-> {Md(Main)},
                sub |-> Main, killed |-> {}]
    BY <1>3
  <2>2. Founded \in Records /\ \A n \in Names : Founded.subs[n] = NoEntry
    BY Values DEF Founded, NoRecord
  <2>3. yaml = [Founded EXCEPT !.repos = {r}]
    BY <1>1, <2>1
  <2>. QED  BY <2>2, <2>3 DEF Records
<1>4. ASSUME NEW n \in Names, NEW r \in Repos,
             i = [yaml |-> [With(Founded, n, Branch(n, Main, r)) EXCEPT !.repos = {r}],
                  docs |-> {Md(Main), Md(n)}, sub |-> n, killed |-> {}]
      PROVE  /\ yaml.made /\ doc[Md(n)] = Stub
             /\ \A k \in Names : yaml.subs[k] = IF k = n THEN Branch(n, Main, r) ELSE NoEntry
  <2>1. /\ Founded \in Records /\ Branch(n, Main, r) \in Entries /\ Md(n) \in Files
        /\ Founded.made /\ \A k \in Names : Founded.subs[k] = NoEntry
    BY Values DEF Founded, NoRecord
  <2>2. LET y == With(Founded, n, Branch(n, Main, r))
        IN /\ y \in Records /\ y.made
           /\ \A k \in Names : y.subs[k] = IF k = n THEN Branch(n, Main, r) ELSE NoEntry
    BY <2>1, WithOne
  <2>3. /\ yaml.subs = With(Founded, n, Branch(n, Main, r)).subs
        /\ yaml.made = With(Founded, n, Branch(n, Main, r)).made
    BY <1>1, <1>4, <2>2 DEF Records
  <2>4. doc[Md(n)] = Stub
    BY <1>1, <1>4, <2>1
  <2>. QED  BY <2>2, <2>3, <2>4
<1>5. ASSUME NEW n \in Names, NEW m \in Names, NEW r \in Repos,
             i = [yaml |-> [With(Founded, n, [Regular(n) EXCEPT !.file = Md(m)])
                               EXCEPT !.repos = {r}],
                  docs |-> {Md(Main), Md(n)}, sub |-> n, killed |-> {"rename"}]
      PROVE  yaml.made /\ killed = {"rename"}
  <2>1. [Regular(n) EXCEPT !.file = Md(m)] \in Entries /\ Founded \in Records /\ Founded.made
    BY Values DEF Entries, Founded, NoRecord
  <2>2. /\ With(Founded, n, [Regular(n) EXCEPT !.file = Md(m)]) \in Records
        /\ With(Founded, n, [Regular(n) EXCEPT !.file = Md(m)]).made
    BY <2>1, WithOne
  <2>. QED  BY <1>1, <1>5, <2>2 DEF Records
<1>6. CASE \E n \in Names, r \in Repos :
              i = [yaml |-> [With(Founded, n, Branch(n, Main, r)) EXCEPT !.repos = {r}],
                   docs |-> {Md(Main), Md(n)}, sub |-> n, killed |-> {}]
  <2>1. PICK n \in Names, r \in Repos :
           i = [yaml |-> [With(Founded, n, Branch(n, Main, r)) EXCEPT !.repos = {r}],
                docs |-> {Md(Main), Md(n)}, sub |-> n, killed |-> {}]
    BY <1>6
  <2>2. /\ yaml.made /\ doc[Md(n)] = Stub
        /\ \A k \in Names : yaml.subs[k] = IF k = n THEN Branch(n, Main, r) ELSE NoEntry
    BY <1>4, <2>1
  <2>. QED  BY <2>2
<1>7. CASE \E n \in Names, m \in Names, r \in Repos :
              i = [yaml |-> [With(Founded, n, [Regular(n) EXCEPT !.file = Md(m)])
                                EXCEPT !.repos = {r}],
                   docs |-> {Md(Main), Md(n)}, sub |-> n, killed |-> {"rename"}]
  <2>1. yaml.made /\ killed = {"rename"}
    BY <1>5, <1>7
  <2>. QED  BY <2>1
<1>. QED  BY <1>2, <1>3, <1>6, <1>7, StartKinds

(* So no command without a lock runs beside another unnoticed, and what     *)
(* every command has in hand is true of the record.                         *)
LEMMA CommandsHold == Spec => []HoldInv
<1>1. Init => HoldInv
  <2>. SUFFICES ASSUME Init PROVE HoldInv
    OBVIOUS
  <2>1. \A p \in Procs : cmd[p] = Idle
    BY DEF Init
  <2>2. Alone
    BY <2>1 DEF Alone, Busy, Idle
  <2>3. \A p \in Procs : Holds(cmd[p])
    BY <2>1 DEF Holds, Making, Copies, Merging, Idle
  <2>4. Founding
    BY StartsAs DEF Founding, Has
  <2>. QED  BY <2>2, <2>3, <2>4 DEF HoldInv
<1>2. TypeInv /\ LockInv /\ HoldInv /\ [Next]_vars => HoldInv'
  <2>. SUFFICES ASSUME TypeInv, LockInv, HoldInv, [Next]_vars PROVE HoldInv'
    OBVIOUS
  <2>1. CASE UNCHANGED vars
    BY <2>1 DEF HoldInv, Founding, Alone, Busy, Holds, Making, Copies, vars, files, history
  <2>2. CASE Next
    <3>1. PICK p \in Procs : Acts(p)
      BY <2>2 DEF Next, Acts
    <3>. QED  BY <3>1, HoldsKept
  <2>. QED  BY <2>1, <2>2
<1>. QED  BY <1>1, <1>2, TypesHold, LocksHold, PTL DEF Spec

LEMMA DocumentsHold == Spec => []DocInv
<1>1. Init /\ TypeInv => DocInv
  <2>. SUFFICES ASSUME Init, TypeInv PROVE DocInv
    OBVIOUS
  <2>1. \A p \in Procs : cmd[p] = Idle
    BY DEF Init
  <2>2. \A p \in Procs : Kept(cmd[p])
    BY <2>1 DEF Kept, Idle
  <2>. SUFFICES ASSUME killed # {"rename"} PROVE DocInv
    BY Zenon DEF DocInv
  <2>4. Owned(yaml) /\ \A n \in Names : Has(yaml, n) => doc[yaml.subs[n].file] # NoDoc
    <3>1. Stub # NoDoc
      BY Values, NothingAssumption
    <3>2. \A m, r : Branch(m, Main, r).file = Md(m)
      BY DEF Branch
    <3>. QED  BY <3>1, <3>2, StartsAs DEF Owned, Has
  <2>. QED  BY <2>2, <2>4 DEF DocInv
<1>2. TypeInv /\ LockInv /\ HoldInv /\ DocInv /\ [Next]_vars => DocInv'
  <2>. SUFFICES ASSUME TypeInv, LockInv, HoldInv, DocInv, [Next]_vars PROVE DocInv'
    OBVIOUS
  <2>1. CASE UNCHANGED vars
    BY <2>1 DEF DocInv, Owned, Halfway, Kept, Has, vars, files, history
  <2>2. CASE Next
    <3>1. PICK p \in Procs : Acts(p)
      BY <2>2 DEF Next, Acts
    <3>. SUFFICES ASSUME ~overlap', killed' \intersect {"rename", "remove"} = {}
                  PROVE  DocInv'
      BY Zenon DEF DocInv
    <3>2. ~overlap /\ killed \intersect {"rename", "remove"} = {}
      <4>1. ~overlap
        BY <3>1, Course, Zenon DEF Call
      <4>. QED  BY <3>1, <4>1, Course
    <3>3. \A q \in Procs : Kept(cmd[q])
      BY <3>2 DEF DocInv
    <3>4. \A q \in Procs : Kept(cmd[q])'
      BY <3>1, <3>3, KeptElsewhere, DocsHere
    <3>5. /\ Owned(yaml)'
          /\ \A n \in Names : Has(yaml, n)' /\ ~Halfway(n)' => (doc[yaml.subs[n].file] # NoDoc)'
      BY <3>1, DocsHere
    <3>. QED  BY <3>4, <3>5 DEF DocInv
  <2>. QED  BY <2>1, <2>2
<1>. QED  BY <1>1, <1>2, TypesHold, LocksHold, CommandsHold, PTL DEF Spec

(* Whatever creates, merges, rolls back or is killed in between, every      *)
(* subproject of the record has its document, for any number of commands,   *)
(* names and repositories: a command writes what it holds true into the     *)
(* record, and takes away only documents that are the entry's it works on,  *)
(* named after it.                                                          *)
THEOREM SubprojectsHaveDocuments == Spec => []EntriesHaveDocs
<1>1. DocInv => EntriesHaveDocs
  BY DEF DocInv, EntriesHaveDocs, Under, Halfway
<1>. QED  BY <1>1, DocumentsHold, PTL

(* Commands that wait for each other in a circle, for any number of         *)
(* commands, names and documents: there are none but a merge that waits for *)
(* itself, and none of that as long as no rename and no remove was killed   *)
(* half way or ran beside another command, since every entry's document is  *)
(* then its own and a branch is not its own parent.                         *)
THEOREM NobodyWaitsInACircle == Spec => []NoneWaitInACircle
<1>1. TypeInv /\ LockInv /\ HoldInv /\ DocInv => NoneWaitInACircle
  <2>. SUFFICES ASSUME TypeInv, LockInv, HoldInv, DocInv,
                       NEW C \in SUBSET Procs, Circle(C)
                PROVE  /\ \E p \in C : WaitsFor(p, p)
                       /\ overlap \/ killed \intersect {"rename", "remove"} # {}
    BY DEF NoneWaitInACircle
  <2>1. PICK p \in C : /\ WaitsFor(p, p) /\ At(p, "merge", "lock")
                       /\ Merged(p).file = cmd[p].file
    BY CirclesAreSelves
  <2>2. overlap \/ killed \intersect {"rename", "remove"} # {}
    <3>. SUFFICES ASSUME ~overlap, killed \intersect {"rename", "remove"} = {} PROVE FALSE
      BY Zenon
    <3>1. /\ Holds(cmd[p]) /\ Kept(cmd[p]) /\ Owned(yaml)
          /\ cmd[p].op = "merge" /\ cmd[p].at = "lock" /\ cmd[p].at \in Merging
      BY <2>1 DEF HoldInv, DocInv, At, Merging
    <3>2. /\ cmd[p].seen = yaml /\ cmd[p].file = Md(cmd[p].name)
          /\ Live(yaml, cmd[p].name)
      BY <2>1, <3>1 DEF Holds, Copies, Kept, Merged
    <3>3. PICK m \in Targets : /\ m # cmd[p].name /\ (m = Main \/ Live(yaml, m))
                              /\ cmd[p].file = FileOf(yaml, m)
      BY <3>1, <3>2 DEF Holds
    <3>4. FileOf(yaml, m) = Md(m)
      BY <3>1, <3>3 DEF FileOf, Owned, Live, Has
    <3>. QED  BY <3>2, <3>3, <3>4, NamesApart
  <2>. QED  BY <2>1, <2>2
<1>. QED
  BY <1>1, TypesHold, LocksHold, CommandsHold, DocumentsHold, PTL

-----------------------------------------------------------------------------
(* A command that other commands may run beside only adds to the catalog    *)
(* and to the record's subprojects, links what it found, and points a       *)
(* session where it looked.                                                 *)
LEMMA OnlyAdds ==
    ASSUME TypeInv, HoldInv, ~overlap, NEW p \in Procs, Acts(p), cmd[p].op \notin Unlocked
    PROVE  /\ catalog \subseteq catalog'
           /\ \A n \in Names : Has(yaml, n) => Has(yaml, n)'
           /\ \A r \in yaml'.repos \ yaml.repos : At(p, "found", "yaml") /\ r = cmd[p].repo
           /\ \/ sess' = sess
              \/ /\ cmd[p].at = "point"
                 /\ sess' = [sess EXCEPT ![cmd[p].on] =
                                 [sub |-> cmd[p].name, repos |-> cmd[p].seen.repos]]
<1>. DEFINE Links == \A r \in yaml'.repos \ yaml.repos : At(p, "found", "yaml") /\ r = cmd[p].repo
            Goal == /\ catalog \subseteq catalog'
                    /\ \A n \in Names : Has(yaml, n) => Has(yaml, n)'
                    /\ Links
                    /\ \/ sess' = sess
                       \/ /\ cmd[p].at = "point"
                          /\ sess' = [sess EXCEPT ![cmd[p].on] =
                                          [sub |-> cmd[p].name, repos |-> cmd[p].seen.repos]]
<1>. SUFFICES Goal  OBVIOUS
<1>a. Founding /\ Holds(cmd[p]) /\ cmd[p] \in Commands /\ Shape(cmd[p])
  BY Here DEF HoldInv
<1>b. yaml \in Records /\ NoEntry \notin Entries
  BY NothingAssumption DEF TypeInv, TypeOK
<1>c. ASSUME UNCHANGED <<yaml, sess>>, catalog \subseteq catalog' PROVE Goal
  BY <1>c DEF Has
<1>d. ASSUME UNCHANGED files PROVE Goal
  BY <1>c, <1>d DEF files
<1>e. ASSUME UNCHANGED <<catalog, sess>>, Links,
             \A n \in Names : Has(yaml, n) => Has(yaml, n)' PROVE Goal
  BY <1>e
<1>f. ASSUME CallRecord(p) \/ CallRepository(p) \/ CallEntry(p) PROVE Goal
  BY <1>d, <1>f, AskedOne
<1>. HIDE DEF Goal
<1>1. CASE CallRecord(p)
  BY <1>1, <1>f
<1>2. CASE CallRepository(p)
  BY <1>2, <1>f
<1>3. CASE CallEntry(p)
  BY <1>3, <1>f
<1>4. CASE Kill(p)
  BY <1>4, <1>c, <1>d DEF Kill
<1>5. CASE EnsureLock(p)
  <2>1. UNCHANGED <<catalog, sess>> /\ yaml' = IF yaml.made THEN yaml ELSE Founded
    BY <1>5 DEF EnsureLock
  <2>2. Founded.repos = {}
    BY DEF Founded, NoRecord
  <2>3. ~yaml.made => \A n \in Names : ~Has(yaml, n)
    BY <1>a DEF Founding
  <2>4. CASE yaml.made
    BY <2>1, <2>4, <1>c
  <2>5. CASE ~yaml.made
    BY <2>1, <2>2, <2>3, <2>5, <1>e DEF Has
  <2>. QED  BY <2>4, <2>5
<1>6. CASE EnsureMain(p)
  BY <1>6, <1>c, <1>d DEF EnsureMain
<1>7. CASE EnsureSub(p)
  BY <1>7, <1>c, <1>d DEF EnsureSub, Fail
<1>8. CASE AddLook(p)
  BY <1>8, <1>c, <1>d DEF AddLook, Fail
<1>9. CASE BranchLook(p)
  BY <1>9, <1>c, <1>d DEF BranchLook, Fail
<1>10. CASE CreateMd(p)
  BY <1>10, <1>c, <1>d DEF CreateMd, Fail
<1>11. CASE CreateYaml(p)
  <2>1. /\ cmd[p].name \in Names /\ ~Has(yaml, cmd[p].name) /\ UNCHANGED <<catalog, sess>>
        /\ yaml' = With(yaml, cmd[p].name, New(cmd[p]))
    BY <1>11, <1>a DEF CreateYaml, Holds, Making
  <2>2. New(cmd[p]) \in Entries
    BY <2>1, <1>a, Values DEF New, Branch, Regular, Entries, Commands
  <2>3. yaml'.repos = yaml.repos /\ \A n \in Names : Has(yaml, n) => Has(yaml', n)
    BY <2>1, <2>2, <1>b, WithOne
  <2>. QED  BY <2>1, <2>3, <1>e DEF Has
<1>12. CASE CreateFail(p)
  <2>1. yaml' = yaml /\ UNCHANGED <<catalog, sess>>
    BY <1>12, <1>a DEF CreateFail, Holds, Making
  <2>. QED  BY <2>1, <1>c
<1>13. CASE SelectLook(p)
  BY <1>13, <1>c, <1>d DEF SelectLook, Fail
<1>14. CASE SelectPoint(p)
  BY <1>14 DEF SelectPoint, Goal, Has
<1>15. CASE MergeLook(p)
  BY <1>15, <1>c, <1>d DEF MergeLook, Fail
<1>16. CASE MergeLock(p)
  BY <1>16, <1>c, <1>d DEF MergeLock
<1>17. CASE MergeRead(p)
  BY <1>17, <1>c, <1>d DEF MergeRead, Fail
<1>18. CASE MergeArchive(p)
  BY <1>18, <1>c, <1>d DEF MergeArchive
<1>19. CASE MergeParent(p)
  BY <1>19, <1>c, <1>d DEF MergeParent
<1>20. CASE MergeYaml(p)
  <2>. DEFINE k == cmd[p].name
             e == [yaml.subs[k] EXCEPT !.archived = TRUE, !.file = Archive(k)]
  <2>1. /\ cmd[p].seen = yaml /\ Has(yaml, k) /\ k \in Names
        /\ yaml' = With(yaml, k, e) /\ UNCHANGED <<catalog, sess>>
    BY <1>20, <1>a DEF MergeYaml, Merged, At, Holds, Copies, Merging, Live, Has
  <2>2. e \in Entries
    <3>1. yaml.subs[k] \in Entries /\ Archive(k) \in Files
      BY <2>1, <1>b, Values DEF Records, Has
    <3>. QED  BY <3>1 DEF Entries
  <2>. HIDE DEF e, k
  <2>3. yaml'.repos = yaml.repos /\ \A n \in Names : Has(yaml, n) => Has(yaml', n)
    BY <2>1, <2>2, <1>b, WithOne
  <2>. QED  BY <2>1, <2>3, <1>e DEF Has
<1>21. CASE MergeUnlink(p)
  BY <1>21, <1>c, <1>d DEF MergeUnlink
<1>22. CASE MergeFail(p)
  BY <1>22, <1>c, <1>d DEF MergeFail
<1>23. CASE MergeRestore(p)
  BY <1>23, <1>c, <1>d DEF MergeRestore
<1>24. CASE MergeRevert(p)
  <2>. DEFINE k == cmd[p].name
             seen == cmd[p].seen
  <2>1. /\ yaml' = seen /\ UNCHANGED <<catalog, sess>> /\ Live(seen, k) /\ seen \in Records
        /\ yaml \in {seen, Closed(seen, k)}
    BY <1>24, <1>a DEF MergeRevert, At, Holds, Merging, Commands
  <2>2. CASE yaml = Closed(seen, k)
    <3>. DEFINE e == [seen.subs[k] EXCEPT !.archived = TRUE, !.file = Archive(k)]
    <3>1. k \in Names /\ yaml = With(seen, k, e) /\ Has(seen, k)
      BY <2>1, <2>2 DEF Live, Has, Closed
    <3>3. e \in Entries
      <4>1. seen.subs[k] \in Entries /\ Archive(k) \in Files
        BY <2>1, <3>1, Values DEF Records, Has
      <4>. QED  BY <4>1 DEF Entries
    <3>. HIDE DEF e, k, seen
    <3>2. yaml'.repos = yaml.repos /\ \A n \in Names : Has(yaml, n) => Has(yaml', n)
      BY <2>1, <3>1, <3>3, WithOne
    <3>. QED  BY <2>1, <3>2, <1>e DEF Has
  <2>3. CASE yaml = seen
    BY <2>1, <2>3, <1>c
  <2>. QED  BY <2>1, <2>2, <2>3
<1>25. CASE MergeDiscard(p)
  BY <1>25, <1>c, <1>d DEF MergeDiscard
<1>26. CASE RenameLook(p)
  BY <1>26 DEF RenameLook, At, Unlocked
<1>27. CASE RenameMd(p)
  BY <1>27 DEF RenameMd, At, Unlocked
<1>28. CASE RenameYaml(p)
  BY <1>28 DEF RenameYaml, At, Unlocked
<1>29. CASE RenameSessions(p)
  BY <1>29 DEF RenameSessions, At, Unlocked
<1>30. CASE RemoveLook(p)
  BY <1>30 DEF RemoveLook, At, Unlocked
<1>31. CASE RemoveMd(p)
  BY <1>31 DEF RemoveMd, At, Unlocked
<1>32. CASE RemoveYaml(p)
  BY <1>32 DEF RemoveYaml, At, Unlocked
<1>33. CASE AddRepository(p)
  BY <1>33, <1>c, <1>d DEF AddRepository
<1>34. CASE FoundRegister(p)
  BY <1>34, <1>c, <1>d DEF FoundRegister, Fail
<1>35. CASE FoundRead(p)
  BY <1>35, <1>c, <1>d DEF FoundRead
<1>36. CASE LinkRead(p)
  BY <1>36 DEF LinkRead, Unlocked
<1>37. CASE LinkWrite(p)
  <2>1. cmd[p].op = "found" /\ cmd[p].at = "yaml" /\ cmd[p].seen = yaml
    BY <1>37, <1>a DEF LinkWrite, Holds, Copies, Unlocked
  <2>2. UNCHANGED <<catalog, sess>> /\ yaml' = [yaml EXCEPT !.repos = @ \union {cmd[p].repo}]
    BY <1>37, <2>1 DEF LinkWrite
  <2>3. yaml'.subs = yaml.subs /\ yaml'.repos = yaml.repos \union {cmd[p].repo}
    BY <2>2, <1>b DEF Records
  <2>. QED  BY <2>1, <2>2, <2>3, <1>e DEF Has, At
<1>38. CASE DropLook(p)
  BY <1>38 DEF DropLook, At, Unlocked
<1>39. CASE DropRemove(p)
  BY <1>39 DEF DropRemove, At, Unlocked
<1>40. CASE RelinkMove(p)
  BY <1>40 DEF RelinkMove, At, Unlocked
<1>41. CASE RelinkFile(p)
  BY <1>41 DEF RelinkFile, At, Unlocked
<1>42. CASE RelinkRead(p)
  BY <1>42 DEF RelinkRead, At, Unlocked
<1>43. CASE RelinkYaml(p)
  BY <1>43 DEF RelinkYaml, At, Unlocked
<1>44. CASE RelinkSessions(p)
  BY <1>44 DEF RelinkSessions, At, Unlocked
<1>45. CASE Target(p)
  BY <1>45, <1>c, <1>d DEF Target, Fail
<1>46. CASE Read(p)
  BY <1>46, <1>c, <1>d DEF Read, Fail
<1>47. CASE GoalWrite(p)
  BY <1>47, <1>c, <1>d DEF GoalWrite, Fail, Stamping
<1>48. CASE DecisionWrite(p)
  BY <1>48, <1>c, <1>d DEF DecisionWrite, Stamping
<1>49. CASE ReportTruncate(p)
  BY <1>49, <1>c, <1>d DEF ReportTruncate
<1>50. CASE ReportFill(p)
  BY <1>50, <1>c, <1>d DEF ReportFill, Stamping
<1>51. CASE TouchRead(p)
  BY <1>51, <1>c, <1>d DEF TouchRead, Fail
<1>52. CASE RiskRead(p)
  BY <1>52, <1>c, <1>d DEF RiskRead, Fail
<1>53. CASE Stamp(p)
  <2>1. UNCHANGED <<yaml, catalog, sess>>
    BY <1>53, <1>a DEF Stamp, Holds, Copies
  <2>. QED  BY <2>1, <1>c
<1>. QED
  BY <1>1, <1>2, <1>3, <1>4, <1>5, <1>6, <1>7, <1>8, <1>9, <1>10, <1>11, <1>12, <1>13,
     <1>14, <1>15, <1>16, <1>17, <1>18, <1>19, <1>20, <1>21, <1>22, <1>23, <1>24, <1>25,
     <1>26, <1>27, <1>28, <1>29, <1>30, <1>31, <1>32, <1>33, <1>34, <1>35, <1>36, <1>37,
     <1>38, <1>39, <1>40, <1>41, <1>42, <1>43, <1>44, <1>45, <1>46, <1>47, <1>48, <1>49,
     <1>50, <1>51, <1>52, <1>53
  DEF Acts, Step, Create, Select, Merge, Move, Repository, Entry

(* A found repository is registered, the record read, and it is linked.     *)
LEMMA FoundSteps ==
    ASSUME NEW p \in Procs, Acts(p), Holds(cmd[p]), cmd[p].op = "found"
    PROVE  FoundRegister(p) \/ FoundRead(p) \/ Leave(p)
<1>a. cmd[p].at # "stamp"
  BY DEF Holds, Writers
<1>1. CASE CallRecord(p)
  BY <1>1 DEF CallRecord, Call, Busy
<1>2. CASE CallRepository(p)
  BY <1>2 DEF CallRepository, Call, Busy
<1>3. CASE CallEntry(p)
  BY <1>3 DEF CallEntry, Call, Busy
<1>4. CASE Kill(p)
  BY <1>4, <1>a DEF Kill
<1>5. CASE EnsureLock(p)
  BY <1>5 DEF EnsureLock, At
<1>6. CASE EnsureMain(p)
  BY <1>6 DEF EnsureMain, At
<1>7. CASE EnsureSub(p)
  BY <1>7 DEF EnsureSub, At
<1>8. CASE AddLook(p)
  BY <1>8 DEF AddLook, At
<1>9. CASE BranchLook(p)
  BY <1>9 DEF BranchLook, At
<1>10. CASE CreateMd(p)
  BY <1>10 DEF CreateMd
<1>11. CASE CreateYaml(p)
  BY <1>11 DEF CreateYaml
<1>12. CASE CreateFail(p)
  BY <1>12 DEF CreateFail
<1>13. CASE SelectLook(p)
  BY <1>13 DEF SelectLook, At
<1>14. CASE SelectPoint(p)
  BY <1>14, <1>a DEF SelectPoint, Return
<1>15. CASE MergeLook(p)
  BY <1>15 DEF MergeLook, At
<1>16. CASE MergeLock(p)
  BY <1>16 DEF MergeLock, At
<1>17. CASE MergeRead(p)
  BY <1>17 DEF MergeRead, At
<1>18. CASE MergeArchive(p)
  BY <1>18 DEF MergeArchive, At
<1>19. CASE MergeParent(p)
  BY <1>19 DEF MergeParent, At
<1>20. CASE MergeYaml(p)
  BY <1>20 DEF MergeYaml, At
<1>21. CASE MergeUnlink(p)
  BY <1>21 DEF MergeUnlink, At
<1>22. CASE MergeFail(p)
  BY <1>22 DEF MergeFail
<1>23. CASE MergeRestore(p)
  BY <1>23 DEF MergeRestore, At
<1>24. CASE MergeRevert(p)
  BY <1>24 DEF MergeRevert, At
<1>25. CASE MergeDiscard(p)
  BY <1>25 DEF MergeDiscard, At
<1>26. CASE RenameLook(p)
  BY <1>26 DEF RenameLook, At
<1>27. CASE RenameMd(p)
  BY <1>27 DEF RenameMd, At
<1>28. CASE RenameYaml(p)
  BY <1>28 DEF RenameYaml, At
<1>29. CASE RenameSessions(p)
  BY <1>29 DEF RenameSessions, At
<1>30. CASE RemoveLook(p)
  BY <1>30 DEF RemoveLook, At
<1>31. CASE RemoveMd(p)
  BY <1>31 DEF RemoveMd, At
<1>32. CASE RemoveYaml(p)
  BY <1>32 DEF RemoveYaml, At
<1>33. CASE AddRepository(p)
  BY <1>33 DEF AddRepository, At
<1>34. CASE FoundRegister(p)
  BY <1>34
<1>35. CASE FoundRead(p)
  BY <1>35
<1>36. CASE LinkRead(p)
  BY <1>36 DEF LinkRead
<1>37. CASE LinkWrite(p)
  BY <1>37, <1>a DEF LinkWrite, Return
<1>38. CASE DropLook(p)
  BY <1>38 DEF DropLook, At
<1>39. CASE DropRemove(p)
  BY <1>39 DEF DropRemove, At
<1>40. CASE RelinkMove(p)
  BY <1>40 DEF RelinkMove, At
<1>41. CASE RelinkFile(p)
  BY <1>41 DEF RelinkFile, At
<1>42. CASE RelinkRead(p)
  BY <1>42 DEF RelinkRead, At
<1>43. CASE RelinkYaml(p)
  BY <1>43 DEF RelinkYaml, At
<1>44. CASE RelinkSessions(p)
  BY <1>44 DEF RelinkSessions, At
<1>45. CASE Target(p)
  BY <1>45 DEF Target, Writers
<1>46. CASE Read(p)
  BY <1>46 DEF Read, Writers
<1>47. CASE GoalWrite(p)
  BY <1>47 DEF GoalWrite, At
<1>48. CASE DecisionWrite(p)
  BY <1>48 DEF DecisionWrite, At
<1>49. CASE ReportTruncate(p)
  BY <1>49 DEF ReportTruncate, At
<1>50. CASE ReportFill(p)
  BY <1>50 DEF ReportFill, At
<1>51. CASE TouchRead(p)
  BY <1>51 DEF TouchRead, Writers
<1>52. CASE RiskRead(p)
  BY <1>52 DEF RiskRead, At
<1>53. CASE Stamp(p)
  BY <1>53, <1>a DEF Stamp, Return
<1>. QED
  BY <1>1, <1>2, <1>3, <1>4, <1>5, <1>6, <1>7, <1>8, <1>9, <1>10, <1>11, <1>12, <1>13,
     <1>14, <1>15, <1>16, <1>17, <1>18, <1>19, <1>20, <1>21, <1>22, <1>23, <1>24, <1>25,
     <1>26, <1>27, <1>28, <1>29, <1>30, <1>31, <1>32, <1>33, <1>34, <1>35, <1>36, <1>37,
     <1>38, <1>39, <1>40, <1>41, <1>42, <1>43, <1>44, <1>45, <1>46, <1>47, <1>48, <1>49,
     <1>50, <1>51, <1>52, <1>53
  DEF Acts, Step, Create, Select, Merge, Move, Repository, Entry

(* The repository a dispatch found is in the catalog when it goes on to     *)
(* link it.                                                                 *)
LEMMA FoundHere ==
    ASSUME TypeInv, HoldInv, ~overlap, NEW p \in Procs, Acts(p), Reaches(cmd[p]),
           cmd'[p].op = "found", cmd'[p].at \in {"read", "yaml"}
    PROVE  cmd'[p].repo \in catalog'
<1>1. cmd \in [Procs -> Commands] /\ cmd[p] \in Commands /\ Holds(cmd[p])
  BY Here DEF TypeInv, TypeOK, HoldInv
<1>2. cmd[p].op = "found"
  <2>1. ASSUME NEW c \in Commands, Call(p, c) PROVE cmd'[p].at = "go"
    BY <2>1, <1>1 DEF Call, Commands
  <2>. QED  BY <2>1, Course
<1>3. ~Leave(p)
  BY <1>1 DEF Leave, Idle
<1>4. FoundRegister(p) \/ FoundRead(p)
  BY <1>1, <1>2, <1>3, FoundSteps
<1>5. CASE FoundRegister(p)
  <2>1. /\ catalog' = catalog \union {cmd[p].repo}
        /\ cmd' = [cmd EXCEPT ![p] = [cmd[p] EXCEPT !.at = "read"]]
    BY <1>3, <1>5 DEF FoundRegister, Fail, Return, Onward, Goto
  <2>. QED  BY <2>1, <1>1 DEF Commands
<1>6. CASE FoundRead(p)
  <2>1. /\ catalog' = catalog /\ cmd[p].at = "read"
        /\ cmd' = [cmd EXCEPT ![p] = [cmd[p] EXCEPT !.at = "yaml", !.seen = yaml]]
    BY <1>6 DEF FoundRead, At, Goto, files
  <2>. QED  BY <2>1, <1>1, <1>2 DEF Commands, Reaches
<1>. QED  BY <1>4, <1>5, <1>6

(* What the other commands rely on stays.                                   *)
LEMMA ReachesElsewhere ==
    ASSUME TypeInv, LockInv, HoldInv, ~overlap', NEW p \in Procs, Acts(p),
           NEW q \in Procs, q # p, Reaches(cmd[q])
    PROVE  Reaches(cmd[q])'
<1>1. cmd'[q] = cmd[q] /\ ~overlap
  BY Course, Zenon DEF Call
<1>2. CASE cmd[q].op \in Unlocked
  <2>1. UNCHANGED files
    BY <1>2, Undisturbed
  <2>. QED  BY <1>1, <2>1 DEF Reaches, Has, files
<1>3. CASE Busy(q) /\ cmd[q].op \notin Unlocked
  <2>1. cmd[p].op \notin Unlocked
    BY <1>1, <1>3 DEF HoldInv, Alone, Busy, Unlocked
  <2>2. catalog \subseteq catalog' /\ \A n \in Names : Has(yaml, n) => Has(yaml, n)'
    BY <1>1, <2>1, OnlyAdds
  <2>3. \A n : Has(yaml, n) => n \in Names
    BY DEF Has
  <2>. QED  BY <1>1, <1>3, <2>2, <2>3 DEF Reaches, Unlocked
<1>4. CASE ~Busy(q)
  BY <1>1, <1>4 DEF Reaches, Busy, HoldInv, Holds
<1>. QED  BY <1>2, <1>3, <1>4

(* What the record links and the sessions target, as the sum of what exists *)
(* and what a command without a lock is moving.                             *)
Linked == yaml.repos \subseteq catalog \union Relinking({"file", "read", "yaml"})
Targeted ==
    \A s \in Sessions :
       /\ sess[s].repos \subseteq catalog \union Relinking({"file", "read", "yaml", "sessions"})
       /\ sess[s].sub = Main \/ Has(yaml, sess[s].sub) \/ Renaming(sess[s].sub)

(* A command that others may run beside keeps both.                         *)
LEMMA TargetsBeside ==
    ASSUME TypeInv, LockInv, HoldInv, ~overlap', NEW p \in Procs, Acts(p),
           cmd[p].op \notin Unlocked, Linked, Targeted, Reaches(cmd[p])
    PROVE  Linked' /\ Targeted' /\ Reaches(cmd[p])'
<1>1. ~overlap /\ Holds(cmd[p]) /\ \A q \in Procs \ {p} : cmd'[q] = cmd[q]
  <2>1. ~overlap
    BY Course, Zenon DEF Call
  <2>. QED  BY <2>1, Course DEF HoldInv
<1>2. /\ catalog \subseteq catalog'
      /\ \A n \in Names : Has(yaml, n) => Has(yaml, n)'
      /\ \A r \in yaml'.repos \ yaml.repos : At(p, "found", "yaml") /\ r = cmd[p].repo
      /\ \/ sess' = sess
         \/ /\ cmd[p].at = "point"
            /\ sess' = [sess EXCEPT ![cmd[p].on] =
                            [sub |-> cmd[p].name, repos |-> cmd[p].seen.repos]]
  BY <1>1, OnlyAdds
<1>3. \A A : Relinking(A) \subseteq Relinking(A)'
  <2>. SUFFICES ASSUME NEW A, NEW q \in Procs, cmd[q].op = "relink", cmd[q].at \in A
                PROVE  cmd'[q].op = "relink" /\ cmd'[q].at \in A /\ cmd'[q].repo = cmd[q].repo
    BY DEF Relinking
  <2>. QED  BY <1>1 DEF Unlocked
<1>4. \A n : Renaming(n) => Renaming(n)'
  BY <1>1 DEF Renaming, At, Unlocked
<1>5. Linked'
  BY <1>2, <1>3 DEF Linked, Reaches, At
<1>6. Targeted'
  <2>. SUFFICES ASSUME NEW s \in Sessions
                PROVE  /\ sess'[s].repos \subseteq
                             catalog' \union Relinking({"file", "read", "yaml", "sessions"})'
                       /\ \/ sess'[s].sub = Main \/ Has(yaml, sess[s].sub)'
                          \/ Renaming(sess[s].sub)'
    BY DEF Targeted
  <2>1. /\ sess[s].repos \subseteq catalog' \union Relinking({"file", "read", "yaml", "sessions"})'
        /\ sess[s].sub = Main \/ Has(yaml', sess[s].sub) \/ Renaming(sess[s].sub)
    BY <1>2, <1>3 DEF Targeted, Has
  <2>2. CASE sess'[s] = sess[s]
    BY <2>1, <2>2, <1>4
  <2>3. CASE cmd[p].at = "point" /\ sess'[s] = [sub |-> cmd[p].name, repos |-> cmd[p].seen.repos]
    <3>1. cmd[p].seen.repos \subseteq catalog /\ (cmd[p].name = Main \/ Has(yaml', cmd[p].name))
      BY <2>3, <1>2 DEF Reaches, Has
    <3>. QED  BY <2>3, <3>1, <1>2
  <2>. QED  BY <2>2, <2>3, <1>2 DEF TypeInv, TypeOK
<1>7. Reaches(cmd[p])'
  <2>1. CASE SelectLook(p) /\ cmd'[p].at = "point"
    <3>1. ~Fail(p)
      BY <2>1 DEF Fail, Return, Leave, Idle, TypeInv, TypeOK
    <3>2. /\ cmd[p].op \in {"add", "set"} /\ Resolves(yaml, cmd[p].name) /\ UNCHANGED files
          /\ cmd' = [cmd EXCEPT ![p] = [cmd[p] EXCEPT !.at = "point", !.seen = yaml]]
      BY <2>1, <3>1 DEF SelectLook, At, Goto
    <3>3. /\ cmd'[p].op = cmd[p].op /\ cmd'[p].seen = yaml /\ cmd'[p].name = cmd[p].name
          /\ cmd'[p].at = "point"
      BY <3>2, Here DEF Commands, TypeInv, TypeOK
    <3>. QED  BY <3>2, <3>3 DEF Reaches, Resolves, Live, Has, files
  <2>2. CASE cmd'[p].op = "found" /\ cmd'[p].at \in {"read", "yaml"}
    <3>1. cmd'[p].repo \in catalog'
      BY <1>1, <1>2, <2>2, FoundHere
    <3>. QED  BY <2>2, <3>1 DEF Reaches
  <2>3. CASE cmd'[p].at # "point" /\ ~(cmd'[p].op = "found" /\ cmd'[p].at \in {"read", "yaml"})
    <3>1. cmd'[p].op \notin Unlocked \/ cmd'[p].at = "go"
      <4>1. CASE cmd'[p].op \in {cmd[p].op, "none"}
        BY <4>1 DEF Unlocked
      <4>2. ASSUME NEW c \in Commands, Call(p, c) PROVE cmd'[p].at = "go"
        BY <4>2 DEF Call, Commands, TypeInv, TypeOK
      <4>. QED  BY <4>1, <4>2, Course
    <3>. QED  BY <2>3, <3>1 DEF Reaches, Unlocked
  <2>. QED  BY <2>1, <2>2, <2>3, Course
<1>. QED  BY <1>5, <1>6, <1>7

(* What a command without a lock does.                                      *)
LEMMA UnlockedSteps ==
    ASSUME NEW p \in Procs, Acts(p), Holds(cmd[p]), Reaches(cmd[p]), cmd[p].op \in Unlocked
    PROVE  \/ RenameLook(p) \/ RenameMd(p) \/ RenameYaml(p) \/ RenameSessions(p)
           \/ RemoveLook(p) \/ RemoveMd(p) \/ RemoveYaml(p) \/ LinkRead(p)
           \/ LinkWrite(p) \/ DropLook(p) \/ DropRemove(p) \/ RelinkMove(p)
           \/ RelinkFile(p) \/ RelinkRead(p) \/ RelinkYaml(p) \/ RelinkSessions(p)
           \/ Kill(p)
<1>a. /\ cmd[p].at = "stamp" => cmd[p].op \in {"goal", "decision", "report", "risk"}
      /\ cmd[p].at # "point"
      /\ cmd[p].op \in {"rename", "remove", "link", "unlink", "relink", "drop"}
  BY DEF Holds, Reaches, Writers, Unlocked
<1>1. CASE CallRecord(p)
  BY <1>1, <1>a DEF CallRecord, Call, Busy
<1>2. CASE CallRepository(p)
  BY <1>2, <1>a DEF CallRepository, Call, Busy
<1>3. CASE CallEntry(p)
  BY <1>3, <1>a DEF CallEntry, Call, Busy
<1>4. CASE Kill(p)
  BY <1>4
<1>5. CASE EnsureLock(p)
  BY <1>5, <1>a DEF EnsureLock, At
<1>6. CASE EnsureMain(p)
  BY <1>6, <1>a DEF EnsureMain, At
<1>7. CASE EnsureSub(p)
  BY <1>7, <1>a DEF EnsureSub, At
<1>8. CASE AddLook(p)
  BY <1>8, <1>a DEF AddLook, At
<1>9. CASE BranchLook(p)
  BY <1>9, <1>a DEF BranchLook, At
<1>10. CASE CreateMd(p)
  BY <1>10, <1>a DEF CreateMd
<1>11. CASE CreateYaml(p)
  BY <1>11, <1>a DEF CreateYaml
<1>12. CASE CreateFail(p)
  BY <1>12, <1>a DEF CreateFail
<1>13. CASE SelectLook(p)
  BY <1>13, <1>a DEF SelectLook, At
<1>14. CASE SelectPoint(p)
  BY <1>14, <1>a DEF SelectPoint
<1>15. CASE MergeLook(p)
  BY <1>15, <1>a DEF MergeLook, At
<1>16. CASE MergeLock(p)
  BY <1>16, <1>a DEF MergeLock, At
<1>17. CASE MergeRead(p)
  BY <1>17, <1>a DEF MergeRead, At
<1>18. CASE MergeArchive(p)
  BY <1>18, <1>a DEF MergeArchive, At
<1>19. CASE MergeParent(p)
  BY <1>19, <1>a DEF MergeParent, At
<1>20. CASE MergeYaml(p)
  BY <1>20, <1>a DEF MergeYaml, At
<1>21. CASE MergeUnlink(p)
  BY <1>21, <1>a DEF MergeUnlink, At
<1>22. CASE MergeFail(p)
  BY <1>22, <1>a DEF MergeFail
<1>23. CASE MergeRestore(p)
  BY <1>23, <1>a DEF MergeRestore, At
<1>24. CASE MergeRevert(p)
  BY <1>24, <1>a DEF MergeRevert, At
<1>25. CASE MergeDiscard(p)
  BY <1>25, <1>a DEF MergeDiscard, At
<1>26. CASE RenameLook(p)
  BY <1>26
<1>27. CASE RenameMd(p)
  BY <1>27
<1>28. CASE RenameYaml(p)
  BY <1>28
<1>29. CASE RenameSessions(p)
  BY <1>29
<1>30. CASE RemoveLook(p)
  BY <1>30
<1>31. CASE RemoveMd(p)
  BY <1>31
<1>32. CASE RemoveYaml(p)
  BY <1>32
<1>33. CASE AddRepository(p)
  BY <1>33, <1>a DEF AddRepository, At
<1>34. CASE FoundRegister(p)
  BY <1>34, <1>a DEF FoundRegister, At
<1>35. CASE FoundRead(p)
  BY <1>35, <1>a DEF FoundRead, At
<1>36. CASE LinkRead(p)
  BY <1>36
<1>37. CASE LinkWrite(p)
  BY <1>37
<1>38. CASE DropLook(p)
  BY <1>38
<1>39. CASE DropRemove(p)
  BY <1>39
<1>40. CASE RelinkMove(p)
  BY <1>40
<1>41. CASE RelinkFile(p)
  BY <1>41
<1>42. CASE RelinkRead(p)
  BY <1>42
<1>43. CASE RelinkYaml(p)
  BY <1>43
<1>44. CASE RelinkSessions(p)
  BY <1>44
<1>45. CASE Target(p)
  BY <1>45, <1>a DEF Target, Writers
<1>46. CASE Read(p)
  BY <1>46, <1>a DEF Read, Writers
<1>47. CASE GoalWrite(p)
  BY <1>47, <1>a DEF GoalWrite, At
<1>48. CASE DecisionWrite(p)
  BY <1>48, <1>a DEF DecisionWrite, At
<1>49. CASE ReportTruncate(p)
  BY <1>49, <1>a DEF ReportTruncate, At
<1>50. CASE ReportFill(p)
  BY <1>50, <1>a DEF ReportFill, At
<1>51. CASE TouchRead(p)
  BY <1>51, <1>a DEF TouchRead, Writers
<1>52. CASE RiskRead(p)
  BY <1>52, <1>a DEF RiskRead, At
<1>53. CASE Stamp(p)
  BY <1>53, <1>a DEF Stamp
<1>. QED
  BY <1>1, <1>2, <1>3, <1>4, <1>5, <1>6, <1>7, <1>8, <1>9, <1>10, <1>11, <1>12, <1>13,
     <1>14, <1>15, <1>16, <1>17, <1>18, <1>19, <1>20, <1>21, <1>22, <1>23, <1>24, <1>25,
     <1>26, <1>27, <1>28, <1>29, <1>30, <1>31, <1>32, <1>33, <1>34, <1>35, <1>36, <1>37,
     <1>38, <1>39, <1>40, <1>41, <1>42, <1>43, <1>44, <1>45, <1>46, <1>47, <1>48, <1>49,
     <1>50, <1>51, <1>52, <1>53
  DEF Acts, Step, Create, Select, Merge, Move, Repository, Entry

(* A command that runs alone keeps both, as nobody else is moving anything. *)
LEMMA TargetsAlone ==
    ASSUME TypeInv, LockInv, HoldInv, ~overlap', killed' = {}, NEW p \in Procs, Acts(p),
           cmd[p].op \in Unlocked, Linked, Targeted, Reaches(cmd[p])
    PROVE  Linked' /\ Targeted' /\ Reaches(cmd[p])'
<1>. DEFINE Goal == Linked' /\ Targeted' /\ Reaches(cmd[p])'
            Moving == \/ cmd[p].op = "relink" /\ cmd[p].at \in {"file", "read", "yaml", "sessions"}
                      \/ cmd[p].op = "rename" /\ cmd[p].at = "sessions"
            Good(y, c, z) == /\ y.repos \subseteq c
                             /\ \A s \in Sessions :
                                   /\ z[s].repos \subseteq c
                                   /\ z[s].sub = Main \/ Has(y, z[s].sub)
<1>. SUFFICES Goal  OBVIOUS
<1>a. /\ ~overlap /\ Alone /\ Holds(cmd[p]) /\ Busy(p)
      /\ \A q \in Procs \ {p} : cmd'[q] = cmd[q]
  <2>1. ~overlap
    BY Course, Zenon DEF Call
  <2>. QED  BY <2>1, Course DEF HoldInv, Busy, Unlocked
<1>b. cmd \in [Procs -> Commands] /\ cmd[p] \in Commands /\ Shape(cmd[p])
  BY Here DEF TypeInv, TypeOK
<1>c. /\ yaml \in Records /\ sess \in [Sessions -> [sub : Targets, repos : SUBSET Repos]]
      /\ NoEntry \notin Entries
  BY NothingAssumption DEF TypeInv, TypeOK
<1>d. \A q \in Procs \ {p} : ~Busy(q)
  BY <1>a DEF Alone
<1>e. ASSUME NEW A, NEW r \in Relinking(A)
      PROVE  cmd[p].op = "relink" /\ cmd[p].at \in A /\ cmd[p].repo = r
  BY <1>d, <1>e DEF Relinking, Busy
<1>f. ASSUME NEW n, Renaming(n)
      PROVE  cmd[p].op = "rename" /\ cmd[p].at = "sessions" /\ cmd[p].name = n
  BY <1>d, <1>f DEF Renaming, At, Busy
<1>g. ASSUME ~Moving PROVE Good(yaml, catalog, sess)
  BY <1>e, <1>f, <1>g DEF Linked, Targeted
<1>h. ASSUME Good(yaml', catalog', sess'), Reaches(cmd[p])' PROVE Goal
  BY <1>h DEF Linked, Targeted, Has
<1>i. ASSUME Leave(p) PROVE Reaches(cmd[p])'
  <2>1. cmd'[p] = Idle
    BY <1>b, <1>i DEF Leave
  <2>. QED  BY <2>1 DEF Reaches, Idle
<1>j. ASSUME UNCHANGED <<yaml, catalog, sess>>, ~Moving, Reaches(cmd[p])' PROVE Goal
  BY <1>g, <1>h, <1>j
<1>k. ASSUME Fail(p), ~Moving PROVE Goal
  BY <1>i, <1>j, <1>k DEF Fail, Return, files
<1>. HIDE DEF Goal
<1>1. CASE RenameLook(p)
  <2>1. CASE Fail(p)
    BY <2>1, <1>1, <1>k DEF RenameLook, At
  <2>2. CASE ~Fail(p)
    <3>1. /\ cmd[p].op = "rename" /\ cmd[p].at = "go" /\ UNCHANGED files
          /\ cmd' = [cmd EXCEPT ![p] = [cmd[p] EXCEPT !.at = "md", !.seen = yaml]]
      BY <1>1, <2>2 DEF RenameLook, At, Goto
    <3>2. cmd'[p].op = "rename" /\ cmd'[p].at = "md"
      BY <3>1, <1>b DEF Commands
    <3>3. Reaches(cmd[p])'
      BY <3>2 DEF Reaches
    <3>. QED  BY <3>1, <3>3, <1>j DEF files
  <2>. QED  BY <2>1, <2>2
<1>2. CASE RenameMd(p)
  <2>1. CASE Fail(p)
    BY <2>1, <1>2, <1>k DEF RenameMd, At
  <2>2. CASE ~Fail(p)
    <3>1. /\ cmd[p].op = "rename" /\ cmd[p].at = "md" /\ UNCHANGED <<yaml, catalog, sess>>
      BY <1>2, <2>2 DEF RenameMd, At, files
    <3>2. cmd'[p].op = "rename" /\ cmd'[p].at = "yaml"
      <4>1. /\ cmd[p].op = "rename"
            /\ \/ cmd' = [cmd EXCEPT ![p] = [cmd[p] EXCEPT !.at = "yaml",
                               !.seen.subs[cmd[p].name].file = Md(cmd[p].to)]]
               \/ cmd' = [cmd EXCEPT ![p] = [cmd[p] EXCEPT !.at = "yaml"]]
        BY <1>2, <2>2 DEF RenameMd, At, Onward, Goto
      <4>2. CASE cmd' = [cmd EXCEPT ![p] = [cmd[p] EXCEPT !.at = "yaml"]]
        BY <4>1, <4>2, <1>b DEF Commands
      <4>3. CASE cmd' = [cmd EXCEPT ![p] = [cmd[p] EXCEPT !.at = "yaml",
                           !.seen.subs[cmd[p].name].file = Md(cmd[p].to)]]
        <5>1. cmd'[p] = [cmd[p] EXCEPT !.at = "yaml",
                           !.seen.subs[cmd[p].name].file = Md(cmd[p].to)]
          BY <4>3, <1>b
        <5>2. \A s : LET c == [cmd[p] EXCEPT !.at = "yaml", !.seen = s]
                     IN c.op = cmd[p].op /\ c.at = "yaml"
          BY <1>b DEF Commands
        <5>. QED  BY <5>1, <5>2, <4>1
      <4>. QED  BY <4>1, <4>2, <4>3
    <3>3. Reaches(cmd[p])'
      BY <3>2 DEF Reaches
    <3>. QED  BY <3>1, <3>3, <1>j
  <2>. QED  BY <2>1, <2>2
<1>3. CASE RenameYaml(p)
  <2>. DEFINE k == cmd[p].name
             m == cmd[p].to
             y == cmd[p].seen
  <2>1. /\ cmd[p].op = "rename" /\ cmd[p].at = "yaml" /\ UNCHANGED <<catalog, sess>>
        /\ yaml' = Renamed(y, k, m)
        /\ cmd'[p].op = "rename" /\ cmd'[p].at = "sessions" /\ cmd'[p].name = k
        /\ cmd'[p].to = m
    BY <1>3, <1>b DEF RenameYaml, At, Onward, Goto, Commands
  <2>2. /\ Has(yaml, k) /\ ~Has(yaml, m) /\ k \in Names /\ m \in Names /\ k # m
        /\ y \in {yaml, Moved(yaml, k, m)} /\ y \in Records
    BY <2>1, <1>a, <1>b DEF Holds, Shape, Commands
  <2>. HIDE DEF k, m, y
  <2>3. y.repos = yaml.repos /\ \A n \in Names : Has(yaml, n) <=> Has(y, n)
    <3>1. CASE y = yaml
      BY <3>1
    <3>2. CASE y = Moved(yaml, k, m)
      <4>. DEFINE e == [yaml.subs[k] EXCEPT !.file = Md(m)]
      <4>1. e \in Entries
        <5>1. yaml.subs[k] \in Entries /\ Md(m) \in Files
          BY <2>2, <1>c, Values DEF Records, Has
        <5>. QED  BY <5>1 DEF Entries
      <4>2. y = With(yaml, k, e)
        BY <3>2 DEF Moved
      <4>. HIDE DEF e
      <4>. QED  BY <4>1, <4>2, <2>2, <1>c, WithOne
    <3>. QED  BY <2>2, <3>1, <3>2
  <2>4. /\ yaml'.repos = yaml.repos /\ Has(yaml', m)
        /\ \A n \in Names : n # k /\ Has(yaml, n) => Has(yaml', n)
    BY <2>1, <2>2, <2>3, <1>c, RenamedOne DEF Has
  <2>5. Reaches(cmd[p])'
    BY <2>1, <2>4 DEF Reaches, Has
  <2>6. Good(yaml, catalog, sess)
    BY <2>1, <1>g
  <2>7. \A n : n = k => Renaming(n)'
    BY <2>1 DEF Renaming, At
  <2>8. Linked'
    BY <2>1, <2>4, <2>6 DEF Linked
  <2>9. Targeted'
    BY <2>1, <2>4, <2>6, <2>7 DEF Targeted, Has
  <2>. QED  BY <2>5, <2>8, <2>9 DEF Goal
<1>4. CASE RenameSessions(p)
  <2>. DEFINE k == cmd[p].name
             m == cmd[p].to
  <2>1. /\ cmd[p].op = "rename" /\ cmd[p].at = "sessions" /\ UNCHANGED <<yaml, catalog>>
        /\ sess' = [s \in Sessions |-> IF sess[s].sub = k THEN [sess[s] EXCEPT !.sub = m]
                                       ELSE sess[s]]
        /\ Leave(p)
    BY <1>4 DEF RenameSessions, At, Return
  <2>2. Has(yaml, m)
    BY <2>1 DEF Reaches
  <2>3. yaml.repos \subseteq catalog /\ \A s \in Sessions : sess[s].repos \subseteq catalog
    BY <2>1, <1>e DEF Linked, Targeted
  <2>4. ASSUME NEW s \in Sessions
        PROVE  sess'[s].repos = sess[s].repos
               /\ sess'[s].sub = IF sess[s].sub = k THEN m ELSE sess[s].sub
    BY <2>1, <1>c
  <2>5. \A s \in Sessions : sess[s].sub = k \/ sess[s].sub = Main \/ Has(yaml, sess[s].sub)
    BY <1>f DEF Targeted
  <2>. HIDE DEF k, m
  <2>. QED  BY <2>1, <2>2, <2>3, <2>4, <2>5, <1>h, <1>i
<1>5. CASE RemoveLook(p)
  <2>1. CASE Fail(p)
    BY <2>1, <1>5, <1>k DEF RemoveLook, At
  <2>2. CASE ~Fail(p)
    <3>1. /\ cmd[p].op = "remove" /\ cmd[p].at = "go" /\ UNCHANGED files
          /\ \A s \in Sessions : sess[s].sub # cmd[p].name
          /\ cmd' = [cmd EXCEPT ![p] = [cmd[p] EXCEPT !.at = "md", !.seen = yaml]]
      BY <1>5, <2>2 DEF RemoveLook, At, Goto
    <3>2. cmd'[p].op = "remove" /\ cmd'[p].at = "md" /\ cmd'[p].name = cmd[p].name
      BY <3>1, <1>b DEF Commands
    <3>3. Reaches(cmd[p])'
      BY <3>1, <3>2 DEF Reaches, files
    <3>. QED  BY <3>1, <3>3, <1>j DEF files
  <2>. QED  BY <2>1, <2>2
<1>6. CASE RemoveMd(p)
  <2>1. /\ cmd[p].op = "remove" /\ cmd[p].at = "md" /\ UNCHANGED <<yaml, catalog, sess>>
        /\ cmd'[p].op = "remove" /\ cmd'[p].at = "yaml" /\ cmd'[p].name = cmd[p].name
    BY <1>6, <1>b DEF RemoveMd, At, Onward, Goto, Commands
  <2>2. Reaches(cmd[p])'
    BY <2>1 DEF Reaches
  <2>. QED  BY <2>1, <2>2, <1>j
<1>7. CASE RemoveYaml(p)
  <2>. DEFINE k == cmd[p].name
  <2>1. /\ cmd[p].op = "remove" /\ cmd[p].at = "yaml" /\ UNCHANGED <<catalog, sess>> /\ Leave(p)
        /\ yaml' = With(cmd[p].seen, k, NoEntry)
    BY <1>7 DEF RemoveYaml, At, Return
  <2>2. cmd[p].seen = yaml /\ k \in Names /\ \A s \in Sessions : sess[s].sub # k
    BY <2>1, <1>a DEF Holds, Copies, Has, Reaches
  <2>3. yaml'.repos = yaml.repos /\ \A n \in Names : n # k /\ Has(yaml, n) => Has(yaml', n)
    BY <2>1, <2>2, <1>c, WithOne
  <2>4. Good(yaml, catalog, sess)
    BY <2>1, <1>g
  <2>. HIDE DEF k
  <2>. QED  BY <2>1, <2>2, <2>3, <2>4, <1>h, <1>i DEF Has
<1>8. CASE LinkRead(p)
  <2>1. CASE Fail(p)
    BY <2>1, <1>8, <1>k DEF LinkRead
  <2>2. CASE ~Fail(p)
    <3>1. /\ cmd[p].op \in {"link", "unlink"} /\ cmd[p].at = "go" /\ UNCHANGED files
          /\ cmd[p].op = "link" => cmd[p].repo \in catalog
          /\ cmd' = [cmd EXCEPT ![p] = [cmd[p] EXCEPT !.at = "yaml", !.seen = yaml]]
      BY <1>8, <2>2 DEF LinkRead, Goto
    <3>2. cmd'[p].op = cmd[p].op /\ cmd'[p].at = "yaml" /\ cmd'[p].repo = cmd[p].repo
      BY <3>1, <1>b DEF Commands
    <3>3. Reaches(cmd[p])'
      BY <3>1, <3>2 DEF Reaches, files
    <3>. QED  BY <3>1, <3>3, <1>j DEF files
  <2>. QED  BY <2>1, <2>2
<1>9. CASE LinkWrite(p)
  <2>1. /\ cmd[p].op \in {"link", "unlink"} /\ cmd[p].at = "yaml" /\ cmd[p].seen = yaml
        /\ UNCHANGED <<catalog, sess>> /\ Leave(p)
    BY <1>9, <1>a DEF LinkWrite, Holds, Copies, Unlocked, Return
  <2>2. /\ yaml'.subs = yaml.subs
        /\ \/ yaml'.repos \subseteq yaml.repos
           \/ cmd[p].op = "link" /\ yaml'.repos = yaml.repos \union {cmd[p].repo}
    BY <1>9, <2>1, <1>c DEF LinkWrite, Records
  <2>3. Good(yaml, catalog, sess)
    BY <2>1, <1>g
  <2>4. cmd[p].op = "link" => cmd[p].repo \in catalog
    BY <2>1 DEF Reaches
  <2>. QED  BY <2>1, <2>2, <2>3, <2>4, <1>h, <1>i DEF Has
<1>10. CASE DropLook(p)
  <2>1. CASE Fail(p)
    BY <2>1, <1>10, <1>k DEF DropLook, At
  <2>2. CASE ~Fail(p)
    <3>1. /\ cmd[p].op = "drop" /\ cmd[p].at = "go" /\ UNCHANGED files
          /\ cmd[p].repo \notin yaml.repos /\ \A s \in Sessions : cmd[p].repo \notin sess[s].repos
          /\ cmd' = [cmd EXCEPT ![p] = [cmd[p] EXCEPT !.at = "file"]]
      BY <1>10, <2>2 DEF DropLook, At, Onward, Goto
    <3>2. cmd'[p].op = "drop" /\ cmd'[p].at = "file" /\ cmd'[p].repo = cmd[p].repo
      BY <3>1, <1>b DEF Commands
    <3>3. Reaches(cmd[p])'
      BY <3>1, <3>2 DEF Reaches, files
    <3>. QED  BY <3>1, <3>3, <1>j DEF files
  <2>. QED  BY <2>1, <2>2
<1>11. CASE DropRemove(p)
  <2>1. /\ cmd[p].op = "drop" /\ cmd[p].at = "file" /\ UNCHANGED <<yaml, sess>> /\ Leave(p)
        /\ catalog' = catalog \ {cmd[p].repo}
    BY <1>11 DEF DropRemove, At, Return
  <2>2. cmd[p].repo \notin yaml.repos /\ \A s \in Sessions : cmd[p].repo \notin sess[s].repos
    BY <2>1 DEF Reaches
  <2>3. Good(yaml, catalog, sess)
    BY <2>1, <1>g
  <2>. QED  BY <2>1, <2>2, <2>3, <1>h, <1>i
<1>12. CASE RelinkMove(p)
  <2>1. CASE Fail(p)
    BY <2>1, <1>12, <1>k DEF RelinkMove, At
  <2>2. CASE ~Fail(p)
    <3>1. /\ cmd[p].op = "relink" /\ cmd[p].at = "go" /\ UNCHANGED <<yaml, sess>>
          /\ catalog' = catalog \ {cmd[p].repo}
          /\ cmd' = [cmd EXCEPT ![p] = [cmd[p] EXCEPT !.at = "file"]]
      BY <1>12, <2>2 DEF RelinkMove, At, Onward, Goto
    <3>2. cmd'[p].op = "relink" /\ cmd'[p].at = "file" /\ cmd'[p].repo = cmd[p].repo
      BY <3>1, <1>b DEF Commands
    <3>3. Reaches(cmd[p])'
      BY <3>2 DEF Reaches
    <3>4. \A A : "file" \in A => cmd[p].repo \in Relinking(A)'
      BY <3>2 DEF Relinking
    <3>5. Good(yaml, catalog, sess)
      BY <3>1, <1>g
    <3>6. Linked'
      BY <3>1, <3>4, <3>5 DEF Linked
    <3>7. Targeted'
      BY <3>1, <3>4, <3>5 DEF Targeted
    <3>. QED  BY <3>3, <3>6, <3>7 DEF Goal
  <2>. QED  BY <2>1, <2>2
<1>13. CASE RelinkFile(p)
  <2>1. /\ cmd[p].op = "relink" /\ cmd[p].at = "file" /\ UNCHANGED <<yaml, sess>>
        /\ catalog' = catalog \union {cmd[p].new}
        /\ cmd'[p].op = "relink" /\ cmd'[p].at = "read" /\ cmd'[p].repo = cmd[p].repo
        /\ cmd'[p].new = cmd[p].new
    BY <1>13, <1>b DEF RelinkFile, At, Onward, Goto, Commands
  <2>2. Reaches(cmd[p])'
    BY <2>1 DEF Reaches
  <2>3. \A A : "read" \in A => cmd[p].repo \in Relinking(A)'
    BY <2>1 DEF Relinking
  <2>4. \A r \in yaml.repos : r \in catalog \/ r = cmd[p].repo
    BY <1>e DEF Linked
  <2>5. \A s \in Sessions : /\ \A r \in sess[s].repos : r \in catalog \/ r = cmd[p].repo
                            /\ sess[s].sub = Main \/ Has(yaml, sess[s].sub)
    BY <2>1, <1>e, <1>f DEF Targeted
  <2>6. Linked'
    BY <2>1, <2>3, <2>4 DEF Linked
  <2>7. Targeted'
    BY <2>1, <2>3, <2>5 DEF Targeted
  <2>. QED  BY <2>2, <2>6, <2>7 DEF Goal
<1>14. CASE RelinkRead(p)
  <2>. DEFINE new == Relinked(yaml, cmd[p].repo, cmd[p].new)
  <2>1. /\ cmd[p].op = "relink" /\ cmd[p].at = "read" /\ UNCHANGED <<yaml, catalog, sess>>
        /\ cmd' = [cmd EXCEPT ![p] = [cmd[p] EXCEPT
                       !.at = IF new = yaml THEN "sessions" ELSE "yaml", !.seen = new]]
    BY <1>14 DEF RelinkRead, At, Goto, files
  <2>2. /\ cmd'[p].op = "relink" /\ cmd'[p].at = IF new = yaml THEN "sessions" ELSE "yaml"
        /\ cmd'[p].repo = cmd[p].repo /\ cmd'[p].new = cmd[p].new
    BY <2>1, <1>b DEF Commands
  <2>3. cmd[p].new \in catalog /\ cmd[p].repo \in Repos /\ cmd[p].new \in Repos
    BY <2>1, <1>b DEF Reaches, Shape
  <2>4. \A r \in yaml.repos : r \in catalog \/ r = cmd[p].repo
    BY <1>e DEF Linked
  <2>5. \A s \in Sessions : /\ \A r \in sess[s].repos : r \in catalog \/ r = cmd[p].repo
                            /\ sess[s].sub = Main \/ Has(yaml, sess[s].sub)
    BY <2>1, <1>e, <1>f DEF Targeted
  <2>6. new = yaml => yaml.repos \subseteq catalog
    <3>1. new = yaml => Swapped(yaml.repos, cmd[p].repo, cmd[p].new) = yaml.repos
      BY <2>3, <1>c, RelinkedOne
    <3>. QED  BY <2>3, <2>4, <3>1 DEF Swapped
  <2>. HIDE DEF new
  <2>7. Reaches(cmd[p])'
    BY <2>1, <2>2, <2>3 DEF Reaches
  <2>8. \A A : (IF new = yaml THEN "sessions" ELSE "yaml") \in A => cmd[p].repo \in Relinking(A)'
    BY <2>2 DEF Relinking
  <2>9. Linked'
    BY <2>1, <2>4, <2>6, <2>8 DEF Linked
  <2>10. Targeted'
    BY <2>1, <2>5, <2>8 DEF Targeted
  <2>. QED  BY <2>7, <2>9, <2>10 DEF Goal
<1>15. CASE RelinkYaml(p)
  <2>1. /\ cmd[p].op = "relink" /\ cmd[p].at = "yaml" /\ UNCHANGED <<catalog, sess>>
        /\ yaml' = Relinked(yaml, cmd[p].repo, cmd[p].new)
        /\ cmd'[p].op = "relink" /\ cmd'[p].at = "sessions" /\ cmd'[p].repo = cmd[p].repo
        /\ cmd'[p].new = cmd[p].new
    BY <1>15, <1>a, <1>b DEF RelinkYaml, At, Onward, Goto, Commands, Holds
  <2>2. cmd[p].new \in catalog /\ cmd[p].repo \in Repos /\ cmd[p].new \in Repos
    BY <2>1, <1>b DEF Reaches, Shape
  <2>3. /\ yaml'.repos = Swapped(yaml.repos, cmd[p].repo, cmd[p].new)
        /\ \A n \in Names : Has(yaml, n) => Has(yaml', n)
    BY <2>1, <2>2, <1>c, RelinkedOne DEF Has
  <2>4. \A r \in yaml.repos : r \in catalog \/ r = cmd[p].repo
    BY <1>e DEF Linked
  <2>5. \A s \in Sessions : /\ \A r \in sess[s].repos : r \in catalog \/ r = cmd[p].repo
                            /\ sess[s].sub = Main \/ Has(yaml, sess[s].sub)
    BY <2>1, <1>e, <1>f DEF Targeted
  <2>6. Reaches(cmd[p])'
    BY <2>1, <2>2 DEF Reaches
  <2>7. \A A : "sessions" \in A => cmd[p].repo \in Relinking(A)'
    BY <2>1 DEF Relinking
  <2>8. Linked'
    BY <2>1, <2>2, <2>3, <2>4 DEF Linked, Swapped
  <2>9. Targeted'
    BY <2>1, <2>3, <2>5, <2>7 DEF Targeted, Has
  <2>. QED  BY <2>6, <2>8, <2>9 DEF Goal
<1>16. CASE RelinkSessions(p)
  <2>1. /\ cmd[p].op = "relink" /\ cmd[p].at = "sessions" /\ UNCHANGED <<yaml, catalog>> /\ Leave(p)
        /\ sess' = [s \in Sessions |->
                       [sess[s] EXCEPT !.repos = Swapped(@, cmd[p].repo, cmd[p].new)]]
    BY <1>16 DEF RelinkSessions, At, Return
  <2>2. cmd[p].new \in catalog
    BY <2>1 DEF Reaches
  <2>3. yaml.repos \subseteq catalog
    BY <2>1, <1>e DEF Linked
  <2>4. \A s \in Sessions : /\ \A r \in sess[s].repos : r \in catalog \/ r = cmd[p].repo
                            /\ sess[s].sub = Main \/ Has(yaml, sess[s].sub)
    BY <2>1, <1>e, <1>f DEF Targeted
  <2>5. \A s \in Sessions : /\ sess'[s].sub = sess[s].sub
                            /\ sess'[s].repos = Swapped(sess[s].repos, cmd[p].repo, cmd[p].new)
    BY <2>1, <1>c
  <2>6. \A s \in Sessions : sess'[s].repos \subseteq catalog
    BY <2>2, <2>4, <2>5 DEF Swapped
  <2>. QED  BY <2>1, <2>3, <2>4, <2>5, <2>6, <1>h, <1>i
<1>17. CASE Kill(p)
  BY <1>17 DEF Kill
<1>. QED
  BY <1>1, <1>2, <1>3, <1>4, <1>5, <1>6, <1>7, <1>8, <1>9, <1>10, <1>11, <1>12, <1>13,
     <1>14, <1>15, <1>16, <1>17, <1>a, UnlockedSteps

(* What a session targets exists, and so do the repositories the project    *)
(* links, for any number of commands, sessions and repositories, when no    *)
(* command is under way: one that takes something away runs alone, and is   *)
(* the only one that moves what it looked at.                               *)
THEOREM TargetsStayThere == Spec => []TargetsExist
<1>1. Init => TargetInv
  <2>. SUFFICES ASSUME Init PROVE TargetInv
    OBVIOUS
  <2>1. \A p \in Procs : Reaches(cmd[p])
    BY DEF Init, Reaches, Idle
  <2>2. PICK i \in Start : /\ yaml = i.yaml /\ catalog = i.yaml.repos /\ killed = i.killed
                           /\ sess = [s \in Sessions |-> [sub |-> i.sub, repos |-> i.yaml.repos]]
    BY DEF Init
  <2>3. i.killed # {} \/ i.sub = Main \/ Has(i.yaml, i.sub)
    <3>1. ASSUME NEW n \in Names, NEW r \in Repos,
                 i = [yaml |-> [With(Founded, n, Branch(n, Main, r)) EXCEPT !.repos = {r}],
                      docs |-> {Md(Main), Md(n)}, sub |-> n, killed |-> {}]
          PROVE  Has(i.yaml, i.sub)
      <4>1. Founded \in Records /\ Branch(n, Main, r) \in Entries
        BY Values
      <4>2. LET y == With(Founded, n, Branch(n, Main, r))
            IN y \in Records /\ y.subs[n] = Branch(n, Main, r)
        BY <4>1, WithOne
      <4>3. i.yaml.subs = With(Founded, n, Branch(n, Main, r)).subs
        BY <3>1, <4>2 DEF Records
      <4>. QED  BY <3>1, <4>1, <4>2, <4>3, NothingAssumption DEF Has
    <3>2. ASSUME i = [yaml |-> NoRecord, docs |-> {}, sub |-> Main, killed |-> {}]
          PROVE  i.sub = Main
      BY <3>2
    <3>3. ASSUME NEW r \in Repos,
                 i = [yaml |-> [Founded EXCEPT !.repos = {r}], docs |-> {Md(Main)},
                      sub |-> Main, killed |-> {}]
          PROVE  i.sub = Main
      BY <3>3
    <3>4. ASSUME NEW n \in Names, NEW m \in Names, NEW r \in Repos,
                 i = [yaml |-> [With(Founded, n, [Regular(n) EXCEPT !.file = Md(m)])
                                   EXCEPT !.repos = {r}],
                      docs |-> {Md(Main), Md(n)}, sub |-> n, killed |-> {"rename"}]
          PROVE  i.killed # {}
      BY <3>4
    <3>. QED  BY <3>1, <3>2, <3>3, <3>4, StartKinds
  <2>. QED  BY <2>1, <2>2, <2>3 DEF TargetInv
<1>2. TypeInv /\ LockInv /\ HoldInv /\ TargetInv /\ [Next]_vars => TargetInv'
  <2>. SUFFICES ASSUME TypeInv, LockInv, HoldInv, TargetInv, [Next]_vars PROVE TargetInv'
    OBVIOUS
  <2>1. CASE UNCHANGED vars
    BY <2>1 DEF TargetInv, Relinking, Renaming, At, Reaches, Has, vars, files, history
  <2>2. CASE Next
    <3>1. PICK p \in Procs : Acts(p)
      BY <2>2 DEF Next, Acts
    <3>. SUFFICES ASSUME ~overlap', killed' = {} PROVE TargetInv'
      BY Zenon DEF TargetInv
    <3>2. ~overlap /\ killed = {}
      <4>1. ~overlap
        BY <3>1, Course, Zenon DEF Call
      <4>. QED  BY <3>1, <4>1, Course
    <3>3. Linked /\ Targeted /\ \A q \in Procs : Reaches(cmd[q])
      BY <3>2 DEF TargetInv, Linked, Targeted
    <3>4. Linked' /\ Targeted' /\ Reaches(cmd[p])'
      BY <3>1, <3>3, TargetsBeside, TargetsAlone
    <3>5. \A q \in Procs : Reaches(cmd[q])'
      BY <3>1, <3>3, <3>4, ReachesElsewhere
    <3>. QED  BY <3>4, <3>5 DEF TargetInv, Linked, Targeted
  <2>. QED  BY <2>1, <2>2
<1>3. TargetInv => TargetsExist
  BY DEF TargetInv, TargetsExist, Relinking, Renaming, At, Busy
<1>. QED  BY <1>1, <1>2, <1>3, TypesHold, LocksHold, CommandsHold, PTL DEF Spec

-----------------------------------------------------------------------------
(* Where a goal is: a document lists it, or a report is about to fill it in *)
(* again; and whose documents count.                                        *)
OpenIn(f) == IF doc[f] = NoDoc THEN {} ELSE doc[f].open
Plain(n) == doc[Md(n)] = NoDoc \/ ~doc[Md(n)].section
Lists(n, g) ==
    \/ g \in OpenIn(Md(n))
    \/ \E p \in Procs : At(p, "report", "fill") /\ cmd[p].file = Md(n) /\ g \in cmd[p].text.open
Listed(n) == n = Main \/ Live(yaml, n)
Leaving == {"unlink", "restore", "revert"}
Going(n) == \E p \in Procs : cmd[p].op = "merge" /\ cmd[p].at \in Leaving /\ cmd[p].name = n
Coming(n) == \E p \in Procs : At(p, "rename", "yaml") /\ cmd[p].to = n /\ ~Merged(p).archived
Counts(n) == killed # {} \/ Listed(n) \/ Going(n) \/ Coming(n)

(* What a merge finds in the parent's document: its goals, with those it    *)
(* passes on, or without them again.                                        *)
Working == Merging \ {"lock", "read", "discard"}
Passed(c) ==
    LET more == c.other.open \union Pending(c.text, c.other)
    IN CASE c.at \in {"yaml", "unlink"} -> {more}
         [] c.at = "restore" -> {more, c.other.open}
         [] OTHER -> {c.other.open}

(* What a command that works on documents relies on.                        *)
Opens(c) == c.op \in Writers /\ c.at \in {"write", "fill"}
Aims(c) == c.op \in Writers /\ c.at \in {"read", "write", "fill"}
Fits(c, n) ==
    \/ killed # {} \/ Listed(n)
    \/ IF c.at = "read" THEN Plain(n) \/ Going(n) ELSE ~c.text.section
Keeps(p, c) ==
    /\ Aims(c) => /\ yaml.made
                  /\ \E n \in Targets : /\ c.file = Md(n) /\ (n = Main \/ Has(yaml, n))
                                        /\ Fits(c, n)
    /\ Opens(c) => /\ mlock[c.file] = p
                   /\ OpenIn(c.file) = IF c.at = "write" THEN c.text.open ELSE {}
    /\ c.op = "goal" /\ c.at = "write" => c.text.section
    /\ c.op = "merge" /\ c.at \in Merging =>
          \E m \in Targets : c.file = Md(m) /\ m # c.name /\ Listed(m)
    /\ c.op = "merge" /\ c.at \in Merging \ {"lock"} =>
          mlock[c.file] = p /\ mlock[Md(c.name)] = p
    /\ c.op = "merge" /\ c.at \in Working =>
          OpenIn(Md(c.name)) = c.text.open /\ OpenIn(c.file) \in Passed(c)
    /\ c.op = "ensure" /\ c.at = "main" =>
          /\ OpenIn(Md(Main)) = {} /\ Plain(Main)
          /\ \A q \in Procs : Opens(cmd[q]) /\ cmd[q].file = Md(Main) =>
                                 cmd[q].text.open = {} /\ ~cmd[q].text.section
    /\ Making(c) /\ c.at = "yaml" => OpenIn(Md(c.name)) = {}
    /\ c.op = "remove" /\ c.at = "yaml" => OpenIn(c.seen.subs[c.name].file) = {}
    /\ c.op = "rename" /\ c.at = "yaml" /\ ~c.seen.subs[c.name].archived =>
          OpenIn(Md(c.name)) = {}
Wants == \A g \in wanted : \E n \in Targets : Counts(n) /\ Lists(n, g)
GoalInv ==
    \/ overlap \/ killed \intersect {"rename", "remove", "report"} # {}
    \/ /\ Wants /\ (~yaml.made => doc[Md(Main)] = NoDoc)
       /\ \A p \in Procs : Keeps(p, cmd[p])

(* A step that is about no document, and where such a step cannot be.       *)
Loose(c) ==
    /\ ~Aims(c) /\ ~(c.op = "merge" /\ c.at \in Merging)
    /\ ~(c.op = "ensure" /\ c.at = "main")
    /\ ~(c.at = "yaml" /\ (Making(c) \/ c.op \in {"rename", "remove"}))
Pivot(c) == \/ c.op = "merge" /\ c.at \in Leaving
            \/ c.op = "rename" /\ c.at = "yaml"
            \/ c.op = "report" /\ c.at = "fill"
Quiet(p) == /\ UNCHANGED <<yaml, doc, wanted, killed>>
            /\ Loose(cmd[p])' /\ ~Pivot(cmd[p])

LEMMA QuietSteps ==
    ASSUME TypeInv, NEW p \in Procs, Acts(p), Holds(cmd[p])
    PROVE  \/ Quiet(p) \/ Kill(p)
           \/ EnsureLock(p) \/ EnsureMain(p) \/ EnsureSub(p) \/ CreateMd(p) \/ CreateYaml(p)
           \/ CreateFail(p) \/ MergeLook(p) \/ MergeLock(p) \/ MergeRead(p) \/ MergeArchive(p)
           \/ MergeParent(p) \/ MergeYaml(p) \/ MergeUnlink(p) \/ MergeFail(p) \/ MergeRestore(p)
           \/ MergeRevert(p) \/ MergeDiscard(p) \/ Target(p) \/ Read(p) \/ GoalWrite(p)
           \/ DecisionWrite(p) \/ ReportTruncate(p) \/ ReportFill(p) \/ LinkWrite(p) \/ Stamp(p)
           \/ RenameMd(p) \/ RenameYaml(p) \/ RemoveMd(p) \/ RemoveYaml(p) \/ RelinkYaml(p)
<1>b. cmd \in [Procs -> Commands] /\ cmd[p] \in Commands
  BY DEF TypeInv, TypeOK
<1>c. /\ cmd[p].op = "none" => cmd[p].at = "idle"
      /\ cmd[p].at = "stamp" => cmd[p].op \in {"goal", "decision", "report", "risk"}
      /\ cmd[p].at = "idle" => ~Pivot(cmd[p])
      /\ cmd[p].at \in {"go", "select", "point", "file", "read", "sessions", "touch"} =>
            ~Pivot(cmd[p])
  BY DEF Holds, Writers, Pivot, Leaving
<1>d. \A c : c.at \in {"go", "select", "point", "file", "md", "sessions", "touch", "stamp"} =>
               Loose(c)
  BY DEF Loose, Aims, Merging
<1>e. ASSUME Return(p), UNCHANGED <<yaml, doc, wanted>>, ~Pivot(cmd[p]) PROVE Quiet(p)
  <2>1. cmd'[p] = Idle /\ killed' = killed
    BY <1>e, <1>b DEF Return, Leave
  <2>2. Loose(Idle)
    BY DEF Idle, Loose, Aims, Merging, Making, Writers
  <2>. QED  BY <1>e, <2>1, <2>2 DEF Quiet
<1>f. ASSUME Fail(p), ~Pivot(cmd[p]) PROVE Quiet(p)
  BY <1>f, <1>e DEF Fail, files
<1>g. ASSUME CallRecord(p) \/ CallRepository(p) \/ CallEntry(p) PROVE Quiet(p)
  <2>1. PICK c : Call(p, c)
    BY <1>g, Asked
  <2>2. UNCHANGED <<yaml, doc, wanted, killed>> /\ cmd[p].at = "idle"
    BY <2>1, <1>c DEF Call, files, Busy
  <2>3. cmd'[p].at = "go"
    BY <1>g, AskedOne
  <2>. QED  BY <2>2, <2>3, <1>c, <1>d DEF Quiet
<1>1. CASE CallRecord(p)
  BY <1>1, <1>g
<1>2. CASE CallRepository(p)
  BY <1>2, <1>g
<1>3. CASE CallEntry(p)
  BY <1>3, <1>g
<1>4. CASE Kill(p)
  BY <1>4
<1>5. CASE EnsureLock(p)
  BY <1>5
<1>6. CASE EnsureMain(p)
  BY <1>6
<1>7. CASE EnsureSub(p)
  BY <1>7
<1>8. CASE AddLook(p)
  <2>1. CASE Fail(p)
    BY <2>1, <1>8, <1>c, <1>f DEF AddLook, At
  <2>2. CASE ~Fail(p)
    <3>1. UNCHANGED <<yaml, doc, wanted, killed>> /\ cmd[p].at = "go" /\ cmd[p].op = "add"
      BY <1>8, <2>2 DEF AddLook, At, Onward, Goto, files
    <3>2. cmd'[p].op = cmd[p].op /\ cmd'[p].at \in {"select", "md"}
      <4>. DEFINE c == [cmd[p] EXCEPT !.at = "md", !.was = yaml,
                              !.seen = With(yaml, cmd[p].name, Regular(cmd[p].name))]
      <4>1. Onward(p, "select") \/ Goto(p, c)
        BY <1>8, <2>2 DEF AddLook
      <4>2. c.op = cmd[p].op /\ c.at = "md"
        BY <1>b DEF Commands
      <4>. HIDE DEF c
      <4>3. Goto(p, c) => cmd'[p] = c
        BY <1>b DEF Goto
      <4>4. Onward(p, "select") => cmd'[p].op = cmd[p].op /\ cmd'[p].at = "select"
        BY <1>b DEF Onward, Goto, Commands
      <4>. QED  BY <4>1, <4>2, <4>3, <4>4
    <3>3. Loose(cmd[p])'
      BY <3>2, <1>d
    <3>. QED  BY <3>1, <3>3, <1>c DEF Quiet
  <2>. QED  BY <2>1, <2>2
<1>9. CASE BranchLook(p)
  <2>1. CASE Fail(p)
    BY <2>1, <1>9, <1>c, <1>f DEF BranchLook, At
  <2>2. CASE ~Fail(p)
    <3>1. UNCHANGED <<yaml, doc, wanted, killed>> /\ cmd[p].at = "go" /\ cmd[p].op = "branch"
      BY <1>9, <2>2 DEF BranchLook, At, Goto, files, Onward
    <3>2. cmd'[p].op = cmd[p].op /\ cmd'[p].at = "md"
      BY <1>9, <2>2, <1>b DEF BranchLook, At, Goto, Commands, Onward
    <3>3. Loose(cmd[p])'
      BY <3>2, <1>d
    <3>. QED  BY <3>1, <3>3, <1>c DEF Quiet
  <2>. QED  BY <2>1, <2>2
<1>10. CASE CreateMd(p)
  BY <1>10
<1>11. CASE CreateYaml(p)
  BY <1>11
<1>12. CASE CreateFail(p)
  BY <1>12
<1>13. CASE SelectLook(p)
  <2>1. CASE Fail(p)
    BY <2>1, <1>13, <1>c, <1>f DEF SelectLook, At
  <2>2. CASE ~Fail(p)
    <3>1. UNCHANGED <<yaml, doc, wanted, killed>> /\ cmd[p].at \in {"select", "go"}
      BY <1>13, <2>2 DEF SelectLook, At, Goto, files, Onward
    <3>2. cmd'[p].op = cmd[p].op /\ cmd'[p].at = "point"
      BY <1>13, <2>2, <1>b DEF SelectLook, At, Goto, Commands, Onward
    <3>3. Loose(cmd[p])'
      BY <3>2, <1>d
    <3>. QED  BY <3>1, <3>3, <1>c DEF Quiet
  <2>. QED  BY <2>1, <2>2
<1>14. CASE SelectPoint(p)
  BY <1>14, <1>c, <1>e DEF SelectPoint
<1>15. CASE MergeLook(p)
  BY <1>15
<1>16. CASE MergeLock(p)
  BY <1>16
<1>17. CASE MergeRead(p)
  BY <1>17
<1>18. CASE MergeArchive(p)
  BY <1>18
<1>19. CASE MergeParent(p)
  BY <1>19
<1>20. CASE MergeYaml(p)
  BY <1>20
<1>21. CASE MergeUnlink(p)
  BY <1>21
<1>22. CASE MergeFail(p)
  BY <1>22
<1>23. CASE MergeRestore(p)
  BY <1>23
<1>24. CASE MergeRevert(p)
  BY <1>24
<1>25. CASE MergeDiscard(p)
  BY <1>25
<1>26. CASE RenameLook(p)
  <2>1. CASE Fail(p)
    BY <2>1, <1>26, <1>c, <1>f DEF RenameLook, At
  <2>2. CASE ~Fail(p)
    <3>1. UNCHANGED <<yaml, doc, wanted, killed>> /\ cmd[p].at = "go" /\ cmd[p].op = "rename"
      BY <1>26, <2>2 DEF RenameLook, At, Goto, files, Onward
    <3>2. cmd'[p].op = cmd[p].op /\ cmd'[p].at = "md"
      <4>. DEFINE c == [cmd[p] EXCEPT !.at = "md", !.seen = yaml]
      <4>1. Goto(p, c)
        BY <1>26, <2>2 DEF RenameLook
      <4>2. c.op = cmd[p].op /\ c.at = "md"
        BY <1>b DEF Commands
      <4>. HIDE DEF c
      <4>3. Goto(p, c) => cmd'[p] = c
        BY <1>b DEF Goto
      <4>. QED  BY <4>1, <4>2, <4>3
    <3>3. Loose(cmd[p])'
      BY <3>2, <1>d
    <3>. QED  BY <3>1, <3>3, <1>c DEF Quiet
  <2>. QED  BY <2>1, <2>2
<1>27. CASE RenameMd(p)
  BY <1>27
<1>28. CASE RenameYaml(p)
  BY <1>28
<1>29. CASE RenameSessions(p)
  BY <1>29, <1>c, <1>e DEF RenameSessions, At
<1>30. CASE RemoveLook(p)
  <2>1. CASE Fail(p)
    BY <2>1, <1>30, <1>c, <1>f DEF RemoveLook, At
  <2>2. CASE ~Fail(p)
    <3>1. UNCHANGED <<yaml, doc, wanted, killed>> /\ cmd[p].at = "go" /\ cmd[p].op = "remove"
      BY <1>30, <2>2 DEF RemoveLook, At, Goto, files, Onward
    <3>2. cmd'[p].op = cmd[p].op /\ cmd'[p].at = "md"
      <4>. DEFINE c == [cmd[p] EXCEPT !.at = "md", !.seen = yaml]
      <4>1. Goto(p, c)
        BY <1>30, <2>2 DEF RemoveLook
      <4>2. c.op = cmd[p].op /\ c.at = "md"
        BY <1>b DEF Commands
      <4>. HIDE DEF c
      <4>3. Goto(p, c) => cmd'[p] = c
        BY <1>b DEF Goto
      <4>. QED  BY <4>1, <4>2, <4>3
    <3>3. Loose(cmd[p])'
      BY <3>2, <1>d
    <3>. QED  BY <3>1, <3>3, <1>c DEF Quiet
  <2>. QED  BY <2>1, <2>2
<1>31. CASE RemoveMd(p)
  BY <1>31
<1>32. CASE RemoveYaml(p)
  BY <1>32
<1>33. CASE AddRepository(p)
  BY <1>33, <1>c, <1>e DEF AddRepository, At
<1>34. CASE FoundRegister(p)
  <2>1. CASE Fail(p)
    BY <2>1, <1>34, <1>c, <1>f DEF FoundRegister, At
  <2>2. CASE ~Fail(p)
    <3>1. UNCHANGED <<yaml, doc, wanted, killed>> /\ cmd[p].at = "go" /\ cmd[p].op = "found"
      BY <1>34, <2>2 DEF FoundRegister, At, Onward, Goto, files
    <3>2. cmd'[p].op = cmd[p].op /\ cmd'[p].at = "read"
      BY <1>34, <2>2, <1>b DEF FoundRegister, At, Onward, Goto, Commands
    <3>3. Loose(cmd[p])'
      BY <3>1, <3>2, <1>d DEF Loose, Aims, Merging, Making, Writers
    <3>. QED  BY <3>1, <3>3, <1>c DEF Quiet
  <2>. QED  BY <2>1, <2>2
<1>35. CASE FoundRead(p)
  <2>1. UNCHANGED <<yaml, doc, wanted, killed>> /\ cmd[p].at = "read" /\ cmd[p].op = "found"
    BY <1>35 DEF FoundRead, At, Goto, files, Onward
  <2>2. cmd'[p].op = cmd[p].op /\ cmd'[p].at = "yaml"
    BY <1>35, <1>b DEF FoundRead, At, Goto, Commands, Onward
  <2>3. Loose(cmd[p])'
    BY <2>1, <2>2, <1>d DEF Loose, Aims, Merging, Making, Writers
  <2>. QED  BY <2>1, <2>3, <1>c DEF Quiet
<1>36. CASE LinkRead(p)
  <2>1. CASE Fail(p)
    BY <2>1, <1>36, <1>c, <1>f DEF LinkRead
  <2>2. CASE ~Fail(p)
    <3>1. UNCHANGED <<yaml, doc, wanted, killed>> /\ cmd[p].at = "go"
          /\ cmd[p].op \in {"link", "unlink"}
      BY <1>36, <2>2 DEF LinkRead, Goto, files, Onward
    <3>2. cmd'[p].op = cmd[p].op /\ cmd'[p].at = "yaml"
      <4>. DEFINE c == [cmd[p] EXCEPT !.at = "yaml", !.seen = yaml]
      <4>1. Goto(p, c)
        BY <1>36, <2>2 DEF LinkRead
      <4>2. c.op = cmd[p].op /\ c.at = "yaml"
        BY <1>b DEF Commands
      <4>. HIDE DEF c
      <4>3. Goto(p, c) => cmd'[p] = c
        BY <1>b DEF Goto
      <4>. QED  BY <4>1, <4>2, <4>3
    <3>3. Loose(cmd[p])'
      BY <3>1, <3>2, <1>d DEF Loose, Aims, Merging, Making, Writers
    <3>. QED  BY <3>1, <3>3, <1>c DEF Quiet
  <2>. QED  BY <2>1, <2>2
<1>37. CASE LinkWrite(p)
  BY <1>37
<1>38. CASE DropLook(p)
  <2>1. CASE Fail(p)
    BY <2>1, <1>38, <1>c, <1>f DEF DropLook, At
  <2>2. CASE ~Fail(p)
    <3>1. UNCHANGED <<yaml, doc, wanted, killed>> /\ cmd[p].at = "go" /\ cmd[p].op = "drop"
      BY <1>38, <2>2 DEF DropLook, At, Onward, Goto, files
    <3>2. cmd'[p].op = cmd[p].op /\ cmd'[p].at = "file"
      BY <1>38, <2>2, <1>b DEF DropLook, At, Onward, Goto, Commands
    <3>3. Loose(cmd[p])'
      BY <3>2, <1>d
    <3>. QED  BY <3>1, <3>3, <1>c DEF Quiet
  <2>. QED  BY <2>1, <2>2
<1>39. CASE DropRemove(p)
  BY <1>39, <1>c, <1>e DEF DropRemove, At
<1>40. CASE RelinkMove(p)
  <2>1. CASE Fail(p)
    BY <2>1, <1>40, <1>c, <1>f DEF RelinkMove, At
  <2>2. CASE ~Fail(p)
    <3>1. UNCHANGED <<yaml, doc, wanted, killed>> /\ cmd[p].at = "go" /\ cmd[p].op = "relink"
      BY <1>40, <2>2 DEF RelinkMove, At, Onward, Goto, files
    <3>2. cmd'[p].op = cmd[p].op /\ cmd'[p].at = "file"
      BY <1>40, <2>2, <1>b DEF RelinkMove, At, Onward, Goto, Commands
    <3>3. Loose(cmd[p])'
      BY <3>2, <1>d
    <3>. QED  BY <3>1, <3>3, <1>c DEF Quiet
  <2>. QED  BY <2>1, <2>2
<1>41. CASE RelinkFile(p)
  <2>1. UNCHANGED <<yaml, doc, wanted, killed>> /\ cmd[p].at = "file" /\ cmd[p].op = "relink"
    BY <1>41 DEF RelinkFile, At, Onward, Goto, files
  <2>2. cmd'[p].op = cmd[p].op /\ cmd'[p].at = "read"
    BY <1>41, <1>b DEF RelinkFile, At, Onward, Goto, Commands
  <2>3. Loose(cmd[p])'
    BY <2>1, <2>2, <1>d DEF Loose, Aims, Merging, Making, Writers
  <2>. QED  BY <2>1, <2>3, <1>c DEF Quiet
<1>42. CASE RelinkRead(p)
  <2>1. UNCHANGED <<yaml, doc, wanted, killed>> /\ cmd[p].at = "read" /\ cmd[p].op = "relink"
    BY <1>42 DEF RelinkRead, At, Goto, files, Onward
  <2>2. cmd'[p].op = cmd[p].op /\ cmd'[p].at \in {"yaml", "sessions"}
    BY <1>42, <1>b DEF RelinkRead, At, Goto, Commands, Onward
  <2>3. Loose(cmd[p])'
    BY <2>1, <2>2, <1>d DEF Loose, Aims, Merging, Making, Writers
  <2>. QED  BY <2>1, <2>3, <1>c DEF Quiet
<1>43. CASE RelinkYaml(p)
  BY <1>43
<1>44. CASE RelinkSessions(p)
  BY <1>44, <1>c, <1>e DEF RelinkSessions, At
<1>45. CASE Target(p)
  BY <1>45
<1>46. CASE Read(p)
  BY <1>46
<1>47. CASE GoalWrite(p)
  BY <1>47
<1>48. CASE DecisionWrite(p)
  BY <1>48
<1>49. CASE ReportTruncate(p)
  BY <1>49
<1>50. CASE ReportFill(p)
  BY <1>50
<1>51. CASE TouchRead(p)
  <2>1. CASE Fail(p)
    BY <2>1, <1>51, <1>c, <1>f DEF TouchRead
  <2>2. CASE ~Fail(p)
    <3>1. UNCHANGED <<yaml, doc, wanted, killed>> /\ cmd[p].at = "touch"
      BY <1>51, <2>2 DEF TouchRead, Goto, files, Onward
    <3>2. cmd'[p].op = cmd[p].op /\ cmd'[p].at = "stamp"
      <4>. DEFINE c == [cmd[p] EXCEPT !.at = "stamp", !.seen = yaml]
      <4>1. Goto(p, c)
        BY <1>51, <2>2 DEF TouchRead
      <4>2. c.op = cmd[p].op /\ c.at = "stamp"
        BY <1>b DEF Commands
      <4>. HIDE DEF c
      <4>3. Goto(p, c) => cmd'[p] = c
        BY <1>b DEF Goto
      <4>. QED  BY <4>1, <4>2, <4>3
    <3>3. Loose(cmd[p])'
      BY <3>2, <1>d
    <3>. QED  BY <3>1, <3>3, <1>c DEF Quiet
  <2>. QED  BY <2>1, <2>2
<1>52. CASE RiskRead(p)
  <2>1. CASE Fail(p)
    BY <2>1, <1>52, <1>c, <1>f DEF RiskRead, At
  <2>2. CASE ~Fail(p)
    <3>1. UNCHANGED <<yaml, doc, wanted, killed>> /\ cmd[p].at = "go" /\ cmd[p].op = "risk"
      BY <1>52, <2>2 DEF RiskRead, At, Goto, files, Onward
    <3>2. cmd'[p].op = cmd[p].op /\ cmd'[p].at = "stamp"
      <4>. DEFINE c == [cmd[p] EXCEPT !.at = "stamp", !.seen = yaml]
      <4>1. Goto(p, c)
        BY <1>52, <2>2 DEF RiskRead
      <4>2. c.op = cmd[p].op /\ c.at = "stamp"
        BY <1>b DEF Commands
      <4>. HIDE DEF c
      <4>3. Goto(p, c) => cmd'[p] = c
        BY <1>b DEF Goto
      <4>. QED  BY <4>1, <4>2, <4>3
    <3>3. Loose(cmd[p])'
      BY <3>2, <1>d
    <3>. QED  BY <3>1, <3>3, <1>c DEF Quiet
  <2>. QED  BY <2>1, <2>2
<1>53. CASE Stamp(p)
  BY <1>53
<1>. QED
  BY <1>1, <1>2, <1>3, <1>4, <1>5, <1>6, <1>7, <1>8, <1>9, <1>10, <1>11, <1>12, <1>13,
     <1>14, <1>15, <1>16, <1>17, <1>18, <1>19, <1>20, <1>21, <1>22, <1>23, <1>24, <1>25,
     <1>26, <1>27, <1>28, <1>29, <1>30, <1>31, <1>32, <1>33, <1>34, <1>35, <1>36, <1>37,
     <1>38, <1>39, <1>40, <1>41, <1>42, <1>43, <1>44, <1>45, <1>46, <1>47, <1>48, <1>49,
     <1>50, <1>51, <1>52, <1>53
  DEF Acts, Step, Create, Select, Merge, Move, Repository, Entry

(* Nobody takes a document's lock from another, or gives it back for him.   *)
LEMMA LocksElsewhere ==
    ASSUME TypeInv, NEW p \in Procs, Acts(p), Holds(cmd[p]), Keeps(p, cmd[p]),
           NEW f \in Files, mlock[f] # p, mlock[f] # Nobody
    PROVE  mlock'[f] = mlock[f]
<1>. DEFINE Goal == mlock'[f] = mlock[f]
<1>. SUFFICES Goal  OBVIOUS
<1>a. mlock \in [Files -> Procs \union {Nobody}]
  BY DEF TypeInv, TypeOK
<1>b. Leave(p) => Goal
  BY DEF Leave
<1>c. mlock' = mlock => Goal
  OBVIOUS
<1>d. \A g : LockDoc(p, g) => Goal
  BY <1>a DEF LockDoc
<1>e. Opens(cmd[p]) /\ Stamping(p) => Goal
  BY <1>a DEF Stamping, Keeps
<1>f. ASSUME CallRecord(p) \/ CallRepository(p) \/ CallEntry(p) PROVE Goal
  BY <1>f, Asked DEF Call
<1>. HIDE DEF Goal
<1>1. CASE CallRecord(p)
  BY <1>1, <1>f
<1>2. CASE CallRepository(p)
  BY <1>2, <1>f
<1>3. CASE CallEntry(p)
  BY <1>3, <1>f
<1>4. CASE Kill(p)
  BY <1>4, <1>b DEF Kill
<1>5. CASE EnsureLock(p)
  BY <1>5, <1>c DEF EnsureLock
<1>6. CASE EnsureMain(p)
  BY <1>6, <1>c DEF EnsureMain
<1>7. CASE EnsureSub(p)
  BY <1>7, <1>b, <1>c DEF EnsureSub, Fail, Return
<1>8. CASE AddLook(p)
  BY <1>8, <1>b, <1>c DEF AddLook, Fail, Return
<1>9. CASE BranchLook(p)
  BY <1>9, <1>b, <1>c DEF BranchLook, Fail, Return
<1>10. CASE CreateMd(p)
  BY <1>10, <1>b, <1>c DEF CreateMd, Fail, Return
<1>11. CASE CreateYaml(p)
  BY <1>11, <1>b, <1>c DEF CreateYaml, Return
<1>12. CASE CreateFail(p)
  BY <1>12, <1>b DEF CreateFail, Return
<1>13. CASE SelectLook(p)
  BY <1>13, <1>b, <1>c DEF SelectLook, Fail, Return
<1>14. CASE SelectPoint(p)
  BY <1>14, <1>b DEF SelectPoint, Return
<1>15. CASE MergeLook(p)
  BY <1>15, <1>b, <1>c DEF MergeLook, Fail, Return
<1>16. CASE MergeLock(p)
  BY <1>16, <1>d DEF MergeLock
<1>17. CASE MergeRead(p)
  BY <1>17, <1>b, <1>c DEF MergeRead, Fail, Return
<1>18. CASE MergeArchive(p)
  BY <1>18, <1>c DEF MergeArchive
<1>19. CASE MergeParent(p)
  BY <1>19, <1>c DEF MergeParent
<1>20. CASE MergeYaml(p)
  BY <1>20, <1>c DEF MergeYaml
<1>21. CASE MergeUnlink(p)
  BY <1>21, <1>b DEF MergeUnlink, Return
<1>22. CASE MergeFail(p)
  BY <1>22, <1>c DEF MergeFail
<1>23. CASE MergeRestore(p)
  BY <1>23, <1>c DEF MergeRestore
<1>24. CASE MergeRevert(p)
  BY <1>24, <1>c DEF MergeRevert
<1>25. CASE MergeDiscard(p)
  BY <1>25, <1>b DEF MergeDiscard, Return
<1>26. CASE RenameLook(p)
  BY <1>26, <1>b, <1>c DEF RenameLook, Fail, Return
<1>27. CASE RenameMd(p)
  BY <1>27, <1>b, <1>c DEF RenameMd, Fail, Return
<1>28. CASE RenameYaml(p)
  BY <1>28, <1>c DEF RenameYaml
<1>29. CASE RenameSessions(p)
  BY <1>29, <1>b DEF RenameSessions, Return
<1>30. CASE RemoveLook(p)
  BY <1>30, <1>b, <1>c DEF RemoveLook, Fail, Return
<1>31. CASE RemoveMd(p)
  BY <1>31, <1>c DEF RemoveMd
<1>32. CASE RemoveYaml(p)
  BY <1>32, <1>b DEF RemoveYaml, Return
<1>33. CASE AddRepository(p)
  BY <1>33, <1>b DEF AddRepository, Return
<1>34. CASE FoundRegister(p)
  BY <1>34, <1>b, <1>c DEF FoundRegister, Fail, Return
<1>35. CASE FoundRead(p)
  BY <1>35, <1>c DEF FoundRead
<1>36. CASE LinkRead(p)
  BY <1>36, <1>b, <1>c DEF LinkRead, Fail, Return
<1>37. CASE LinkWrite(p)
  BY <1>37, <1>b DEF LinkWrite, Return
<1>38. CASE DropLook(p)
  BY <1>38, <1>b, <1>c DEF DropLook, Fail, Return
<1>39. CASE DropRemove(p)
  BY <1>39, <1>b DEF DropRemove, Return
<1>40. CASE RelinkMove(p)
  BY <1>40, <1>b, <1>c DEF RelinkMove, Fail, Return
<1>41. CASE RelinkFile(p)
  BY <1>41, <1>c DEF RelinkFile
<1>42. CASE RelinkRead(p)
  BY <1>42, <1>c DEF RelinkRead
<1>43. CASE RelinkYaml(p)
  BY <1>43, <1>c DEF RelinkYaml
<1>44. CASE RelinkSessions(p)
  BY <1>44, <1>b DEF RelinkSessions, Return
<1>45. CASE Target(p)
  BY <1>45, <1>b, <1>c DEF Target, Fail, Return
<1>46. CASE Read(p)
  BY <1>46, <1>b, <1>d, <1>c DEF Read, Fail, Return
<1>47. CASE GoalWrite(p)
  BY <1>47, <1>b, <1>e DEF GoalWrite, Fail, Return, At, Opens, Writers
<1>48. CASE DecisionWrite(p)
  BY <1>48, <1>e DEF DecisionWrite, At, Opens, Writers
<1>49. CASE ReportTruncate(p)
  BY <1>49, <1>c DEF ReportTruncate
<1>50. CASE ReportFill(p)
  BY <1>50, <1>e DEF ReportFill, At, Opens, Writers
<1>51. CASE TouchRead(p)
  BY <1>51, <1>b, <1>c DEF TouchRead, Fail, Return
<1>52. CASE RiskRead(p)
  BY <1>52, <1>b, <1>c DEF RiskRead, Fail, Return
<1>53. CASE Stamp(p)
  BY <1>53, <1>b DEF Stamp, Return
<1>. QED
  BY <1>1, <1>2, <1>3, <1>4, <1>5, <1>6, <1>7, <1>8, <1>9, <1>10, <1>11, <1>12, <1>13,
     <1>14, <1>15, <1>16, <1>17, <1>18, <1>19, <1>20, <1>21, <1>22, <1>23, <1>24, <1>25,
     <1>26, <1>27, <1>28, <1>29, <1>30, <1>31, <1>32, <1>33, <1>34, <1>35, <1>36, <1>37,
     <1>38, <1>39, <1>40, <1>41, <1>42, <1>43, <1>44, <1>45, <1>46, <1>47, <1>48, <1>49,
     <1>50, <1>51, <1>52, <1>53
  DEF Acts, Step, Create, Select, Merge, Move, Repository, Entry

(* Who writes a document without the record's lock has the document's.      *)
LEMMA DocsElsewhere ==
    ASSUME TypeInv, NEW p \in Procs, Acts(p), Holds(cmd[p]), NEW f \in Files,
           doc'[f] # doc[f], cmd[p].op \notin Unlocked, ~Recording(cmd[p])
    PROVE  /\ Opens(cmd[p]) /\ f = cmd[p].file
           /\ At(p, "goal", "write") \/ doc'[f] \in {Blank, cmd[p].text}
<1>. DEFINE Goal == /\ Opens(cmd[p]) /\ f = cmd[p].file
                    /\ At(p, "goal", "write") \/ doc'[f] \in {Blank, cmd[p].text}
<1>. SUFFICES Goal  OBVIOUS
<1>a. doc \in [Files -> Docs \union {NoDoc}]
  BY DEF TypeInv, TypeOK
<1>b. ASSUME doc' = doc PROVE Goal
  BY <1>b
<1>c. ASSUME UNCHANGED files PROVE Goal
  BY <1>c, <1>b DEF files
<1>d. ASSUME Recording(cmd[p]) \/ cmd[p].op \in Unlocked PROVE Goal
  BY <1>d
<1>. HIDE DEF Goal
<1>1. CASE Quiet(p)
  BY <1>1, <1>b DEF Quiet
<1>2. CASE EnsureLock(p)
  BY <1>2, <1>b, <1>c DEF EnsureLock
<1>3. CASE EnsureMain(p)
  BY <1>3, <1>d DEF EnsureMain, At, Recording, Merging
<1>4. CASE EnsureSub(p)
  BY <1>4, <1>d DEF EnsureSub, At, Recording, Merging
<1>5. CASE CreateMd(p)
  BY <1>5, <1>d DEF CreateMd, Recording, Merging
<1>6. CASE CreateYaml(p)
  BY <1>6, <1>b, <1>c DEF CreateYaml
<1>7. CASE CreateFail(p)
  BY <1>7, <1>d DEF CreateFail, Recording, Merging
<1>8. CASE MergeLook(p)
  BY <1>8, <1>b, <1>c DEF MergeLook, Fail
<1>9. CASE MergeLock(p)
  BY <1>9, <1>b, <1>c DEF MergeLock
<1>10. CASE MergeRead(p)
  BY <1>10, <1>b, <1>c DEF MergeRead, Fail
<1>11. CASE MergeArchive(p)
  BY <1>11, <1>d DEF MergeArchive, At, Recording, Merging
<1>12. CASE MergeParent(p)
  BY <1>12, <1>d DEF MergeParent, At, Recording, Merging
<1>13. CASE MergeYaml(p)
  BY <1>13, <1>b, <1>c DEF MergeYaml
<1>14. CASE MergeUnlink(p)
  BY <1>14, <1>d DEF MergeUnlink, At, Recording, Merging
<1>15. CASE MergeFail(p)
  BY <1>15, <1>d DEF MergeFail, Recording, Merging
<1>16. CASE MergeRestore(p)
  BY <1>16, <1>d DEF MergeRestore, At, Recording, Merging
<1>17. CASE MergeRevert(p)
  BY <1>17, <1>b, <1>c DEF MergeRevert
<1>18. CASE MergeDiscard(p)
  BY <1>18, <1>d DEF MergeDiscard, At, Recording, Merging
<1>19. CASE Target(p)
  BY <1>19, <1>b, <1>c DEF Target, Fail
<1>20. CASE Read(p)
  BY <1>20, <1>b, <1>c DEF Read, Fail
<1>21. CASE GoalWrite(p)
  <2>1. CASE Fail(p)
    BY <2>1, <1>c DEF Fail
  <2>2. CASE ~Fail(p)
    <3>1. /\ At(p, "goal", "write") /\ \E e : doc' = [doc EXCEPT ![cmd[p].file] = e]
      BY <1>21, <2>2 DEF GoalWrite
    <3>. QED  BY <3>1, <1>a DEF Goal, Opens, Writers, At
  <2>. QED  BY <2>1, <2>2
<1>22. CASE DecisionWrite(p)
  BY <1>22, <1>a DEF DecisionWrite, At, Goal, Opens, Writers
<1>23. CASE ReportTruncate(p)
  BY <1>23, <1>a DEF ReportTruncate, At, Goal, Opens, Writers
<1>24. CASE ReportFill(p)
  BY <1>24, <1>a DEF ReportFill, At, Goal, Opens, Writers
<1>25. CASE LinkWrite(p)
  BY <1>25, <1>b, <1>c DEF LinkWrite
<1>26. CASE Stamp(p)
  BY <1>26, <1>b, <1>c DEF Stamp
<1>27. CASE RenameMd(p)
  BY <1>27, <1>d DEF RenameMd, At, Unlocked
<1>28. CASE RenameYaml(p)
  BY <1>28, <1>b, <1>c DEF RenameYaml
<1>29. CASE RemoveMd(p)
  BY <1>29, <1>d DEF RemoveMd, At, Unlocked
<1>30. CASE RemoveYaml(p)
  BY <1>30, <1>b, <1>c DEF RemoveYaml
<1>31. CASE RelinkYaml(p)
  BY <1>31, <1>b, <1>c DEF RelinkYaml
<1>32. CASE Kill(p)
  BY <1>32, <1>b, <1>c DEF Kill
<1>. QED
  BY <1>1, <1>2, <1>3, <1>4, <1>5, <1>6, <1>7, <1>8, <1>9, <1>10, <1>11, <1>12, <1>13,
     <1>14, <1>15, <1>16, <1>17, <1>18, <1>19, <1>20, <1>21, <1>22, <1>23, <1>24, <1>25,
     <1>26, <1>27, <1>28, <1>29, <1>30, <1>31, <1>32, QuietSteps

(* Who has a document open has had it open, or opens it now.                *)
LEMMA OpensHere ==
    ASSUME TypeInv, NEW p \in Procs, Acts(p), Holds(cmd[p]), Opens(cmd[p])'
    PROVE  /\ cmd'[p].file = cmd[p].file /\ Aims(cmd[p])
           /\ \/ Opens(cmd[p]) /\ cmd'[p].text = cmd[p].text
              \/ /\ cmd[p].at = "read" /\ mlock[cmd[p].file] = Nobody
                 /\ cmd'[p].text = IF doc[cmd[p].file] = NoDoc THEN Blank ELSE doc[cmd[p].file]
<1>. DEFINE Goal ==
       /\ cmd'[p].file = cmd[p].file /\ Aims(cmd[p])
       /\ \/ Opens(cmd[p]) /\ cmd'[p].text = cmd[p].text
          \/ /\ cmd[p].at = "read" /\ mlock[cmd[p].file] = Nobody
             /\ cmd'[p].text = IF doc[cmd[p].file] = NoDoc THEN Blank ELSE doc[cmd[p].file]
<1>. SUFFICES Goal  OBVIOUS
<1>a. cmd \in [Procs -> Commands] /\ cmd[p] \in Commands
  BY DEF TypeInv, TypeOK
<1>b. ~Leave(p)
  BY <1>a DEF Leave, Idle, Opens, Writers
<1>c. cmd'[p].op \in {"goal", "decision", "report"} /\ cmd'[p].at \in {"write", "fill"}
  BY DEF Opens, Writers
<1>d. cmd'[p].op \in {cmd[p].op, "none"} \/ \E c \in Commands : Call(p, c)
  BY Course
<1>e. ASSUME NEW c, Call(p, c) PROVE FALSE
  <2>1. cmd[p].op = "none" /\ cmd'[p].at \in {"go", "none"}
    BY <1>e, <1>a DEF Call, Busy, Commands
  <2>. QED  BY <2>1, <1>c
<1>f. cmd[p].op \in {"goal", "decision", "report"} /\ cmd[p].op = cmd'[p].op
  BY <1>c, <1>d, <1>e
<1>1. CASE Quiet(p)
  BY <1>1 DEF Quiet, Loose, Aims, Opens
<1>2. CASE Read(p)
  BY <1>2, <1>a, <1>b, <1>f DEF Read, LockDoc, Fail, Return, Goto, Commands, Aims, Writers
<1>3. CASE ReportTruncate(p)
  BY <1>3, <1>a DEF ReportTruncate, At, Onward, Goto, Commands, Aims, Opens, Writers
<1>4. CASE Target(p) \/ GoalWrite(p) \/ DecisionWrite(p) \/ ReportFill(p) \/ Stamp(p) \/ Kill(p)
  <2>1. CASE Target(p)
    BY <2>1, <1>a, <1>b, <1>c DEF Target, Fail, Return, Goto, Commands
  <2>2. CASE GoalWrite(p)
    BY <2>2, <1>a, <1>b, <1>c DEF GoalWrite, Stamping, Fail, Return, Goto, Commands
  <2>3. CASE DecisionWrite(p)
    BY <2>3, <1>a, <1>b, <1>c DEF DecisionWrite, Stamping, Goto, Commands
  <2>4. CASE ReportFill(p)
    BY <2>4, <1>a, <1>b, <1>c DEF ReportFill, Stamping, Goto, Commands
  <2>. QED  BY <1>4, <2>1, <2>2, <2>3, <2>4, <1>b DEF Stamp, Return, Kill
<1>. QED
  BY <1>1, <1>2, <1>3, <1>4, <1>f, QuietSteps
  DEF At, EnsureLock, EnsureMain, EnsureSub, CreateMd, CreateYaml, CreateFail, MergeLook,
      MergeLock, MergeRead, MergeArchive, MergeParent, MergeYaml, MergeUnlink, MergeFail,
      MergeRestore, MergeRevert, MergeDiscard, LinkWrite, RenameMd, RenameYaml, RemoveMd,
      RemoveYaml, RelinkYaml

LEMMA GoalsBefore ==
    ASSUME TypeInv, LockInv, HoldInv, DocInv, GoalInv, NEW p \in Procs, Acts(p),
           ~overlap', killed' \intersect {"rename", "remove", "report"} = {}
    PROVE  /\ ~overlap /\ Alone /\ Founding /\ Owned(yaml)
           /\ \A n \in Names : Has(yaml, n) /\ ~Halfway(n) => doc[yaml.subs[n].file] # NoDoc
           /\ Wants /\ (~yaml.made => doc[Md(Main)] = NoDoc)
           /\ \A q \in Procs : Holds(cmd[q]) /\ Kept(cmd[q]) /\ Keeps(q, cmd[q])
           /\ \A q \in Procs \ {p} : cmd'[q] = cmd[q]
<1>1. ~overlap /\ killed \subseteq killed' /\ \A q \in Procs \ {p} : cmd'[q] = cmd[q]
  <2>1. ~overlap
    BY Course, Zenon DEF Call
  <2>. QED  BY <2>1, Course
<1>2. killed \intersect {"rename", "remove", "report"} = {}
  BY <1>1
<1>. QED  BY <1>1, <1>2 DEF HoldInv, DocInv, GoalInv

(* The entry a command makes.                                               *)
LEMMA NewOne ==
    ASSUME NEW c \in Commands, c.name \in Names
    PROVE  New(c) \in Entries /\ New(c).file = Md(c.name) /\ ~New(c).archived
<1>1. /\ c.name \in Targets /\ c.to \in Targets /\ Md(c.name) \in Files /\ Main \in Targets
      /\ c.repo \in Repos \union {Nobody}
  BY Values DEF Commands
<1>2. Branch(c.name, c.to, c.repo) \in Entries /\ Regular(c.name) \in Entries
  BY <1>1 DEF Branch, Regular, Entries
<1>. QED  BY <1>2 DEF New, Branch, Regular

(* What merges rely on, and where the documents they work on are.           *)
LEMMA MergedOne ==
    ASSUME TypeInv, NEW p \in Procs, Holds(cmd[p]), Kept(cmd[p]), Keeps(p, cmd[p]), Owned(yaml),
           cmd[p].op = "merge", cmd[p].at \in Merging
    PROVE  /\ Merged(p).file = Md(cmd[p].name) /\ cmd[p].name \in Names
           /\ cmd[p].at \notin Leaving => yaml = cmd[p].seen /\ Live(yaml, cmd[p].name)
           /\ cmd[p].at \notin {"lock", "read"} => cmd[p].was = cmd[p].seen
           /\ cmd[p].at = "unlink" => yaml = Closed(cmd[p].seen, cmd[p].name)
           /\ yaml \in {cmd[p].seen, Closed(cmd[p].seen, cmd[p].name)}
           /\ Live(cmd[p].seen, cmd[p].name) /\ cmd[p].seen.made
           /\ \E m \in Targets : /\ cmd[p].file = Md(m) /\ m # cmd[p].name /\ Listed(m)
                                 /\ m = Main \/ Live(cmd[p].seen, m)
<1>1. /\ Merged(p).file = Md(cmd[p].name) /\ cmd[p].name \in Names
      /\ cmd[p].at \notin Leaving => yaml = cmd[p].seen
      /\ Live(cmd[p].seen, cmd[p].name) /\ cmd[p].seen.made
      /\ cmd[p].at \notin {"lock", "read"} => cmd[p].was = cmd[p].seen
      /\ cmd[p].at = "unlink" => yaml = Closed(cmd[p].seen, cmd[p].name)
      /\ yaml \in {cmd[p].seen, Closed(cmd[p].seen, cmd[p].name)}
  BY DEF Kept, Holds, Copies, Merged, Live, Has, Leaving
<1>2. PICK m \in Targets : cmd[p].file = Md(m) /\ m # cmd[p].name /\ Listed(m)
  BY DEF Keeps
<1>3. m = Main \/ Live(cmd[p].seen, m)
  <2>1. CASE yaml = cmd[p].seen
    BY <2>1, <1>2 DEF Listed
  <2>2. CASE yaml = Closed(cmd[p].seen, cmd[p].name) /\ m # Main
    <3>1. cmd[p].seen \in Records /\ m \in Names /\ yaml.subs[m] # NoEntry /\ ~yaml.subs[m].archived
      BY <2>2, <1>2, Here DEF Listed, Live, Has, Commands
    <3>2. cmd[p].seen.subs[m] = yaml.subs[m]
      BY <3>1, <2>2, <1>1, <1>2 DEF Closed, With, Records
    <3>. QED  BY <3>1, <3>2 DEF Live, Has
  <2>. QED  BY <1>1, <2>1, <2>2
<1>. QED  BY <1>1, <1>2, <1>3

(* A subproject that is listed, and not by a command without a lock, stays  *)
(* listed, unless it is merged, under the lock of its document.             *)
LEMMA ListedBeside ==
    ASSUME TypeInv, LockInv, HoldInv, DocInv, GoalInv, NEW p \in Procs, Acts(p),
           ~overlap', killed' \intersect {"rename", "remove", "report"} = {},
           cmd[p].op \notin Unlocked, NEW n \in Targets, Listed(n)
    PROVE  Listed(n)' \/ (Going(n)' /\ mlock[Md(n)] = p)
<1>. DEFINE Goal == Listed(n)' \/ (Going(n)' /\ mlock[Md(n)] = p)
<1>. SUFFICES Goal  OBVIOUS
<1>a. /\ ~overlap /\ Owned(yaml) /\ Founding /\ (~yaml.made => doc[Md(Main)] = NoDoc)
      /\ Holds(cmd[p]) /\ Kept(cmd[p]) /\ Keeps(p, cmd[p])
      /\ \A r \in Procs \ {p} : cmd'[r] = cmd[r]
  BY GoalsBefore
<1>b. cmd \in [Procs -> Commands] /\ cmd[p] \in Commands /\ Shape(cmd[p])
  BY Here DEF TypeInv, TypeOK
<1>c. /\ yaml \in Records /\ doc \in [Files -> Docs \union {NoDoc}]
      /\ NoEntry \notin Entries /\ NoDoc \notin Docs /\ Stub \in Docs /\ Blank \in Docs
  BY Values, NothingAssumption DEF TypeInv, TypeOK
<1>d. ASSUME yaml' = yaml PROVE Goal
  BY <1>d DEF Listed, Live, Has
<1>e. ASSUME \A k \in Names : Live(yaml, k) => Live(yaml, k)' PROVE Goal
  BY <1>e DEF Listed, Live, Has
<1>f. ASSUME Fail(p) PROVE Goal
  BY <1>f, <1>d DEF Fail, files
<1>. HIDE DEF Goal
<1>1. CASE Quiet(p)
  BY <1>1, <1>d DEF Quiet
<1>2. CASE EnsureLock(p)
  <2>1. CASE yaml.made
    BY <1>2, <2>1, <1>d DEF EnsureLock
  <2>2. CASE ~yaml.made
    BY <2>2, <1>a, <1>e DEF Founding, Live
  <2>. QED  BY <2>1, <2>2
<1>3. CASE EnsureMain(p)
  BY <1>3, <1>d DEF EnsureMain, files
<1>4. CASE EnsureSub(p)
  BY <1>4, <1>d, <1>f DEF EnsureSub, files
<1>5. CASE CreateMd(p)
  BY <1>5, <1>d, <1>f DEF CreateMd, files
<1>6. CASE CreateYaml(p)
  <2>1. /\ cmd[p].name \in Names /\ ~Has(yaml, cmd[p].name)
        /\ yaml' = With(yaml, cmd[p].name, New(cmd[p]))
    BY <1>6, <1>a DEF CreateYaml, Holds, Making
  <2>2. New(cmd[p]) \in Entries
    BY <2>1, <1>b, NewOne
  <2>3. \A k \in Names \ {cmd[p].name} : yaml'.subs[k] = yaml.subs[k]
    BY <2>1, <2>2, <1>c, WithOne
  <2>. QED  BY <2>1, <2>3, <1>e DEF Live, Has
<1>7. CASE CreateFail(p)
  BY <1>7, <1>a, <1>d DEF CreateFail, Holds, Making
<1>8. CASE MergeLook(p)
  BY <1>8, <1>d, <1>f DEF MergeLook, files
<1>9. CASE MergeLock(p)
  BY <1>9, <1>d DEF MergeLock, files
<1>10. CASE MergeRead(p)
  BY <1>10, <1>d, <1>f DEF MergeRead, files
<1>11. CASE MergeArchive(p)
  BY <1>11, <1>d DEF MergeArchive, files
<1>12. CASE MergeParent(p)
  BY <1>12, <1>d DEF MergeParent, files
<1>13. CASE MergeYaml(p)
  <2>1. cmd[p].op = "merge" /\ cmd[p].at = "yaml"
    BY <1>13 DEF MergeYaml, At
  <2>2. /\ cmd[p].seen = yaml /\ Merged(p).file = Md(cmd[p].name) /\ cmd[p].name \in Names
        /\ Merged(p) \in Entries
    BY <2>1, <1>a, <1>b, MergedOne DEF Merging, Leaving, Merged, Shape
  <2>3. yaml' = With(yaml, cmd[p].name, [Merged(p) EXCEPT !.archived = TRUE,
                                                           !.file = Archive(cmd[p].name)])
    BY <1>13, <2>2 DEF MergeYaml
  <2>4. \A k \in Names \ {cmd[p].name} : yaml'.subs[k] = yaml.subs[k]
    BY <2>2, <2>3, <1>c DEF With, Records
  <2>5. CASE n = cmd[p].name
    <3>1. mlock[Md(n)] = p
      BY <2>1, <2>5, <1>a DEF Keeps, Merging
    <3>2. cmd'[p].op = "merge" /\ cmd'[p].at = "unlink" /\ cmd'[p].name = n
      BY <1>13, <2>1, <2>5, <1>b DEF MergeYaml, Onward, Goto, Commands
    <3>. QED  BY <3>1, <3>2 DEF Going, Leaving, Goal
  <2>6. CASE n # cmd[p].name
    BY <2>4, <2>6 DEF Listed, Live, Has, Goal
  <2>. QED  BY <2>5, <2>6
<1>14. CASE MergeUnlink(p)
  BY <1>14, <1>d DEF MergeUnlink, files
<1>15. CASE MergeFail(p)
  BY <1>15, <1>d DEF MergeFail, files
<1>16. CASE MergeRestore(p)
  BY <1>16, <1>d DEF MergeRestore, files
<1>17. CASE MergeRevert(p)
  <2>1. /\ cmd[p].op = "merge" /\ cmd[p].at = "revert" /\ yaml' = cmd[p].was
    BY <1>17 DEF MergeRevert, At
  <2>2. cmd[p].was = cmd[p].seen /\ cmd[p].name \in Names /\ cmd[p].seen \in Records
    BY <2>1, <1>a, <1>b, MergedOne DEF Merging, Commands
  <2>3. CASE yaml = cmd[p].seen
    BY <2>1, <2>2, <2>3, <1>d
  <2>4. CASE yaml = Closed(cmd[p].seen, cmd[p].name)
    <3>1. yaml = Closed(yaml', cmd[p].name) /\ yaml' \in Records /\ Live(yaml', cmd[p].name)
      BY <2>1, <2>2, <2>4, <1>a, MergedOne DEF Merging
    <3>2. \A k \in Names \ {cmd[p].name} : yaml'.subs[k] = yaml.subs[k]
      BY <3>1, <2>2 DEF Closed, With, Records
    <3>3. ASSUME NEW k \in Names, Live(yaml, k) PROVE Live(yaml', k)
      BY <3>1, <3>2, <3>3 DEF Live, Has
    <3>. QED  BY <3>3, <1>e DEF Live, Has
  <2>. QED  BY <2>1, <2>3, <2>4, <1>a, MergedOne DEF Merging
<1>18. CASE MergeDiscard(p)
  BY <1>18, <1>d DEF MergeDiscard, files
<1>19. CASE Target(p)
  BY <1>19, <1>d, <1>f DEF Target, files
<1>20. CASE Read(p)
  BY <1>20, <1>d, <1>f DEF Read, files
<1>21. CASE GoalWrite(p)
  BY <1>21, <1>d, <1>f DEF GoalWrite, Stamping, files
<1>22. CASE DecisionWrite(p)
  BY <1>22, <1>d DEF DecisionWrite, Stamping, files
<1>23. CASE ReportTruncate(p)
  BY <1>23, <1>d DEF ReportTruncate, files
<1>24. CASE ReportFill(p)
  BY <1>24, <1>d DEF ReportFill, Stamping, files
<1>25. CASE LinkWrite(p)
  <2>1. cmd[p].seen = yaml
    BY <1>25, <1>a DEF LinkWrite, Holds, Copies
  <2>2. yaml'.subs = yaml.subs
    BY <1>25, <2>1, <1>c DEF LinkWrite, Records
  <2>. QED  BY <2>2, <1>e DEF Live, Has
<1>26. CASE Stamp(p)
  BY <1>26, <1>a, <1>d DEF Stamp, Holds, Copies
<1>27. CASE Kill(p)
  BY <1>27, <1>d DEF Kill, files
<1>28. CASE RenameMd(p) \/ RenameYaml(p) \/ RemoveMd(p) \/ RemoveYaml(p) \/ RelinkYaml(p)
  BY <1>28 DEF RenameMd, RenameYaml, RemoveMd, RemoveYaml, RelinkYaml, At, Unlocked
<1>. QED
  BY <1>1, <1>2, <1>3, <1>4, <1>5, <1>6, <1>7, <1>8, <1>9, <1>10, <1>11, <1>12, <1>13,
     <1>14, <1>15, <1>16, <1>17, <1>18, <1>19, <1>20, <1>21, <1>22, <1>23, <1>24, <1>25,
     <1>26, <1>27, <1>28, <1>a, QuietSteps

(* What a command that has read a name relies on: where it may write, there *)
(* is no goal, or it is a document of the record.                           *)
LEMMA PlainBeside ==
    ASSUME TypeInv, LockInv, HoldInv, DocInv, GoalInv, NEW p \in Procs, Acts(p),
           ~overlap', killed' \intersect {"rename", "remove", "report"} = {},
           cmd[p].op \notin Unlocked, killed' = {}, NEW n \in Targets, Plain(n) \/ Going(n),
           n = Main \/ Has(yaml, n)
    PROVE  Plain(n)' \/ Going(n)' \/ Listed(n)'
<1>. DEFINE Goal == Plain(n)' \/ Going(n)' \/ Listed(n)'
<1>. SUFFICES Goal  OBVIOUS
<1>a. /\ ~overlap /\ Owned(yaml) /\ Founding /\ (~yaml.made => doc[Md(Main)] = NoDoc)
      /\ Holds(cmd[p]) /\ Kept(cmd[p]) /\ Keeps(p, cmd[p])
      /\ \A r \in Procs \ {p} : cmd'[r] = cmd[r]
  BY GoalsBefore
<1>b. cmd \in [Procs -> Commands] /\ cmd[p] \in Commands /\ Shape(cmd[p])
  BY Here DEF TypeInv, TypeOK
<1>c. /\ yaml \in Records /\ doc \in [Files -> Docs \union {NoDoc}]
      /\ NoEntry \notin Entries /\ NoDoc \notin Docs /\ Stub \in Docs /\ Blank \in Docs
  BY Values, NothingAssumption DEF TypeInv, TypeOK
<1>d. Listed(n) => Goal
  BY ListedBeside
<1>e. Md(n) \in Files
  BY Values
<1>f. ASSUME doc'[Md(n)] = NoDoc \/ ~doc'[Md(n)].section PROVE Goal
  BY <1>f DEF Plain
<1>. HIDE DEF Goal
<1>1. CASE Plain(n) /\ doc'[Md(n)] = doc[Md(n)]
  BY <1>1, <1>f DEF Plain
<1>2. CASE Plain(n) /\ doc'[Md(n)] # doc[Md(n)] /\ ~Recording(cmd[p])
  <2>1. /\ Opens(cmd[p]) /\ Md(n) = cmd[p].file
        /\ At(p, "goal", "write") \/ doc'[Md(n)] \in {Blank, cmd[p].text}
    BY <1>2, <1>a, <1>e, DocsElsewhere
  <2>2. PICK k \in Targets : cmd[p].file = Md(k) /\ Fits(cmd[p], k)
    BY <2>1, <1>a DEF Keeps, Opens, Aims
  <2>3. k = n /\ killed = {}
    BY <2>1, <2>2, NamesApart, Course
  <2>4. Listed(n) \/ ~cmd[p].text.section
    BY <2>1, <2>2, <2>3 DEF Fits, Opens
  <2>5. ASSUME ~cmd[p].text.section PROVE Goal
    <3>1. doc'[Md(n)] \in {Blank, cmd[p].text}
      BY <2>1, <2>5, <1>a DEF Keeps, At
    <3>. QED  BY <3>1, <2>5, <1>f DEF Blank, Stub
  <2>. QED  BY <2>4, <2>5, <1>d
<1>3. CASE Plain(n) /\ doc'[Md(n)] # doc[Md(n)] /\ Recording(cmd[p])
  <2>1. CASE EnsureMain(p)
    <3>1. n = Main
      BY <2>1, <1>3, <1>c, <1>e, NamesApart DEF EnsureMain
    <3>. QED  BY <3>1, <1>d DEF Listed
  <2>2. CASE EnsureSub(p)
    <3>1. ~Fail(p)
      BY <1>3 DEF Fail, files
    <3>2. /\ cmd[p].op = "ensure" /\ cmd[p].at = "sub" /\ NewName(cmd[p].seen, cmd[p].name)
          /\ cmd[p].name # Main /\ doc' = [doc EXCEPT ![Md(cmd[p].name)] = Stub]
      BY <2>2, <3>1 DEF EnsureSub, At
    <3>3. n = cmd[p].name
      BY <3>2, <1>3, <1>c, <1>e, NamesApart
    <3>. QED  BY <3>2, <3>3, <1>a DEF Holds, Copies, NewName
  <2>3. CASE CreateMd(p)
    <3>1. ~Fail(p)
      BY <1>3 DEF Fail, files
    <3>2. /\ cmd[p].op \in {"add", "branch"} /\ cmd[p].at = "md"
          /\ doc' = [doc EXCEPT ![Md(cmd[p].name)] = Stub]
      BY <2>3, <3>1 DEF CreateMd
    <3>3. n = cmd[p].name
      BY <3>2, <1>3, <1>c, <1>e, NamesApart
    <3>. QED  BY <3>2, <3>3, <1>a, NamesAssumption DEF Holds, Making
  <2>4. CASE CreateFail(p)
    BY <2>4, <1>3, <1>c, <1>e, <1>f DEF CreateFail
  <2>5. CASE MergeArchive(p) \/ MergeFail(p) \/ MergeDiscard(p)
    BY <2>5, <1>3, <1>c, <1>e, NamesApart DEF MergeArchive, MergeFail, MergeDiscard
  <2>6. CASE MergeParent(p) \/ MergeRestore(p)
    <3>1. /\ cmd[p].op = "merge" /\ cmd[p].at \in Merging
          /\ \E x : doc' = [doc EXCEPT ![cmd[p].file] = x]
      BY <2>6 DEF MergeParent, MergeRestore, At, Merging
    <3>2. Md(n) = cmd[p].file
      BY <3>1, <1>3, <1>c, <1>e, NamesApart
    <3>3. Listed(n)
      BY <3>1, <3>2, <1>a, NamesApart DEF Keeps
    <3>. QED  BY <3>3, <1>d
  <2>7. CASE MergeUnlink(p)
    <3>1. Merged(p).file = Md(cmd[p].name)
      BY <2>7, <1>a DEF MergeUnlink, At, Kept, Merging, Merged
    <3>. QED  BY <2>7, <3>1, <1>3, <1>c, <1>e, <1>f DEF MergeUnlink
  <2>8. doc' # doc
    BY <1>3
  <2>. QED
    BY <2>1, <2>2, <2>3, <2>4, <2>5, <2>6, <2>7, <2>8, <1>3, <1>a, QuietSteps
    DEF Quiet, files, Fail, Recording, Writers, Opens, At, EnsureLock, CreateYaml,
        MergeLook, MergeLock, MergeRead, MergeYaml, MergeRevert, LinkWrite, RenameMd,
        RenameYaml, RemoveMd, RemoveYaml, RelinkYaml, Target, Read, GoalWrite,
        DecisionWrite, ReportTruncate, ReportFill, Stamp, Kill
<1>4. CASE Going(n)
  <2>1. PICK r \in Procs : cmd[r].op = "merge" /\ cmd[r].at \in Leaving /\ cmd[r].name = n
    BY <1>4 DEF Going
  <2>2. CASE r # p
    BY <2>1, <2>2, <1>a DEF Goal, Going
  <2>3. CASE r = p
    <3>1. cmd[p].op = "merge" /\ cmd[p].at \in Leaving /\ cmd[p].name = n
      BY <2>1, <2>3
    <3>2. /\ Merged(p).file = Md(n) /\ n \in Names /\ cmd[p].was = cmd[p].seen
          /\ Live(cmd[p].seen, n)
      BY <3>1, <1>a, MergedOne DEF Merging, Leaving
    <3>3. CASE MergeUnlink(p)
      BY <3>2, <3>3, <1>c, <1>e, <1>f DEF MergeUnlink
    <3>4. CASE MergeRevert(p)
      BY <3>2, <3>4 DEF MergeRevert, Listed, Goal
    <3>6. CASE MergeFail(p) \/ MergeRestore(p)
      <4>1. /\ cmd'[p].op = "merge" /\ cmd'[p].at \in {"restore", "revert"}
            /\ cmd'[p].name = n
        BY <3>1, <3>6, <1>b DEF MergeFail, MergeRestore, Onward, Goto, Commands
      <4>. QED  BY <4>1 DEF Going, Leaving, Goal
    <3>5. ~Kill(p)
      BY DEF Kill
    <3>. QED
      BY <3>1, <3>3, <3>4, <3>5, <3>6, <1>a, QuietSteps
      DEF Quiet, Pivot, Leaving, At, Writers, EnsureLock, EnsureMain, EnsureSub, CreateMd,
          CreateYaml, CreateFail, MergeLook, MergeLock, MergeRead, MergeArchive,
          MergeParent, MergeYaml, MergeDiscard, LinkWrite, RenameMd, RenameYaml, RemoveMd,
          RemoveYaml, RelinkYaml, Target, Read, GoalWrite, DecisionWrite, ReportTruncate,
          ReportFill, Stamp
  <2>. QED  BY <2>2, <2>3
<1>. QED  BY <1>1, <1>2, <1>3, <1>4

(* A project that was made stays made.                                      *)
LEMMA MadeStays ==
    ASSUME TypeInv, LockInv, HoldInv, DocInv, GoalInv, NEW p \in Procs, Acts(p),
           ~overlap', killed' \intersect {"rename", "remove", "report"} = {},
           yaml.made
    PROVE  yaml'.made
<1>a. /\ ~overlap /\ Owned(yaml) /\ Founding /\ (~yaml.made => doc[Md(Main)] = NoDoc)
      /\ Holds(cmd[p]) /\ Kept(cmd[p]) /\ Keeps(p, cmd[p])
      /\ \A r \in Procs \ {p} : cmd'[r] = cmd[r]
  BY GoalsBefore
<1>b. cmd \in [Procs -> Commands] /\ cmd[p] \in Commands /\ Shape(cmd[p])
  BY Here DEF TypeInv, TypeOK
<1>c. /\ yaml \in Records /\ doc \in [Files -> Docs \union {NoDoc}]
      /\ NoEntry \notin Entries /\ NoDoc \notin Docs /\ Stub \in Docs /\ Blank \in Docs
  BY Values, NothingAssumption DEF TypeInv, TypeOK
<1>d. ASSUME yaml' = yaml PROVE yaml'.made
  BY <1>d
<1>e. ASSUME UNCHANGED files PROVE yaml'.made
  BY <1>e DEF files
<1>f. ASSUME NEW y \in Records, NEW n, NEW e, y.made PROVE With(y, n, e).made
  BY <1>f DEF With, Records
<1>1. CASE Quiet(p)
  BY <1>1, <1>d DEF Quiet
<1>2. CASE EnsureLock(p)
  BY <1>2, <1>d DEF EnsureLock
<1>3. CASE EnsureMain(p)
  BY <1>3, <1>d, <1>e DEF EnsureMain, files
<1>4. CASE EnsureSub(p)
  BY <1>4, <1>d, <1>e DEF EnsureSub, Fail, files
<1>5. CASE CreateMd(p)
  BY <1>5, <1>d, <1>e DEF CreateMd, Fail, files
<1>6. CASE CreateYaml(p)
  BY <1>6, <1>a, <1>c, <1>f DEF CreateYaml, Holds, Making
<1>7. CASE CreateFail(p)
  BY <1>7, <1>a DEF CreateFail, Holds, Making
<1>8. CASE MergeLook(p)
  BY <1>8, <1>d, <1>e DEF MergeLook, Fail, files
<1>9. CASE MergeLock(p)
  BY <1>9, <1>d, <1>e DEF MergeLock, files
<1>10. CASE MergeRead(p)
  BY <1>10, <1>d, <1>e DEF MergeRead, Fail, files
<1>11. CASE MergeArchive(p)
  BY <1>11, <1>d, <1>e DEF MergeArchive, files
<1>12. CASE MergeParent(p)
  BY <1>12, <1>d, <1>e DEF MergeParent, files
<1>13. CASE MergeYaml(p)
  <2>1. cmd[p].seen = yaml
    BY <1>13, <1>a DEF MergeYaml, At, Holds, Copies, Merging
  <2>. QED  BY <1>13, <2>1, <1>c, <1>f DEF MergeYaml
<1>14. CASE MergeUnlink(p)
  BY <1>14, <1>d, <1>e DEF MergeUnlink, files
<1>15. CASE MergeFail(p)
  BY <1>15, <1>d, <1>e DEF MergeFail, files
<1>16. CASE MergeRestore(p)
  BY <1>16, <1>d, <1>e DEF MergeRestore, files
<1>17. CASE MergeRevert(p)
  BY <1>17, <1>a DEF MergeRevert, At, Holds, Merging
<1>18. CASE MergeDiscard(p)
  BY <1>18, <1>d, <1>e DEF MergeDiscard, files
<1>19. CASE Target(p)
  BY <1>19, <1>d, <1>e DEF Target, Fail, files
<1>20. CASE Read(p)
  BY <1>20, <1>d, <1>e DEF Read, Fail, files
<1>21. CASE GoalWrite(p)
  BY <1>21, <1>d, <1>e DEF GoalWrite, Stamping, Fail, files
<1>22. CASE DecisionWrite(p)
  BY <1>22, <1>d, <1>e DEF DecisionWrite, Stamping, files
<1>23. CASE ReportTruncate(p)
  BY <1>23, <1>d, <1>e DEF ReportTruncate, files
<1>24. CASE ReportFill(p)
  BY <1>24, <1>d, <1>e DEF ReportFill, Stamping, files
<1>25. CASE LinkWrite(p)
  BY <1>25, <1>a, <1>c DEF LinkWrite, Holds, Copies, Records
<1>26. CASE Stamp(p)
  BY <1>26, <1>a DEF Stamp, Holds, Copies
<1>27. CASE RenameMd(p)
  BY <1>27, <1>d, <1>e DEF RenameMd, Fail, files
<1>28. CASE RenameYaml(p)
  <2>1. /\ cmd[p].op = "rename" /\ cmd[p].at = "yaml"
        /\ yaml' = Renamed(cmd[p].seen, cmd[p].name, cmd[p].to)
    BY <1>28 DEF RenameYaml, At
  <2>2. /\ Has(yaml, cmd[p].name) /\ ~Has(yaml, cmd[p].to)
        /\ cmd[p].seen \in {yaml, Moved(yaml, cmd[p].name, cmd[p].to)}
        /\ cmd[p].name \in Names /\ cmd[p].to \in Names /\ cmd[p].seen \in Records
    BY <2>1, <1>a, <1>b DEF Holds, Shape, Commands
  <2>3. cmd[p].seen.made
    BY <2>2, <1>c, <1>f DEF Moved
  <2>. QED  BY <2>1, <2>2, <2>3, RenamedOne
<1>29. CASE RemoveMd(p)
  BY <1>29, <1>d, <1>e DEF RemoveMd, files
<1>30. CASE RemoveYaml(p)
  <2>1. cmd[p].seen = yaml
    BY <1>30, <1>a DEF RemoveYaml, At, Holds, Copies
  <2>. QED  BY <1>30, <2>1, <1>c, <1>f DEF RemoveYaml
<1>31. CASE RelinkYaml(p)
  <2>1. /\ cmd[p].repo \in Repos /\ cmd[p].new \in Repos
        /\ yaml' = Relinked(yaml, cmd[p].repo, cmd[p].new)
    BY <1>31, <1>a, <1>b DEF RelinkYaml, At, Holds, Shape
  <2>. QED  BY <2>1, <1>c, RelinkedOne
<1>32. CASE Kill(p)
  BY <1>32, <1>d, <1>e DEF Kill, files
<1>. QED
  BY <1>1, <1>2, <1>3, <1>4, <1>5, <1>6, <1>7, <1>8, <1>9, <1>10, <1>11, <1>12, <1>13,
     <1>14, <1>15, <1>16, <1>17, <1>18, <1>19, <1>20, <1>21, <1>22, <1>23, <1>24, <1>25,
     <1>26, <1>27, <1>28, <1>29, <1>30, <1>31, <1>32, <1>a, QuietSteps

(* A document that another has open keeps its goals.                        *)
LEMMA OpenBeside ==
    ASSUME TypeInv, LockInv, HoldInv, DocInv, GoalInv, NEW p \in Procs, Acts(p),
           ~overlap', killed' \intersect {"rename", "remove", "report"} = {},
           cmd[p].op \notin Unlocked, NEW q \in Procs \ {p}, Opens(cmd[q]),
           NEW f, f = cmd[q].file
    PROVE  OpenIn(f)' = OpenIn(f)
<1>. DEFINE Goal == OpenIn(f)' = OpenIn(f)
<1>. SUFFICES Goal  OBVIOUS
<1>a. /\ ~overlap /\ Owned(yaml) /\ Founding /\ (~yaml.made => doc[Md(Main)] = NoDoc)
      /\ Holds(cmd[p]) /\ Kept(cmd[p]) /\ Keeps(p, cmd[p])
      /\ \A r \in Procs \ {p} : cmd'[r] = cmd[r]
  BY GoalsBefore
<1>b. cmd \in [Procs -> Commands] /\ cmd[p] \in Commands /\ Shape(cmd[p])
  BY Here DEF TypeInv, TypeOK
<1>c. /\ yaml \in Records /\ doc \in [Files -> Docs \union {NoDoc}]
      /\ NoEntry \notin Entries /\ NoDoc \notin Docs /\ Stub \in Docs /\ Blank \in Docs
  BY Values, NothingAssumption DEF TypeInv, TypeOK
<1>d. /\ Keeps(q, cmd[q]) /\ mlock[f] = q /\ f \in Files
      /\ OpenIn(f) = IF cmd[q].at = "write" THEN cmd[q].text.open ELSE {}
  BY GoalsBefore, Hands DEF Keeps
<1>e. PICK k \in Targets : f = Md(k) /\ (k = Main \/ Has(yaml, k))
  BY <1>d DEF Keeps, Opens, Aims
<1>f. doc'[f] = doc[f] => Goal
  BY DEF OpenIn
<1>. HIDE DEF Goal
<1>1. CASE ~Recording(cmd[p])
  BY <1>1, <1>a, <1>d, <1>f, DocsElsewhere DEF Keeps
<1>2. CASE Recording(cmd[p])
  <2>1. CASE EnsureMain(p)
    <3>1. CASE k = Main
      <4>1. OpenIn(f) = {}
        BY <2>1, <3>1, <1>a, <1>e DEF EnsureMain, At, Keeps
      <4>2. doc'[f] = Stub
        BY <2>1, <3>1, <1>c, <1>d, <1>e DEF EnsureMain
      <4>. QED  BY <4>1, <4>2 DEF OpenIn, Stub, Goal
    <3>2. CASE k # Main
      BY <2>1, <3>2, <1>c, <1>d, <1>e, <1>f, NamesApart DEF EnsureMain
    <3>. QED  BY <3>1, <3>2
  <2>2. CASE EnsureSub(p)
    <3>1. ~Fail(p) \/ doc' = doc
      BY DEF Fail, files
    <3>2. CASE ~Fail(p)
      <4>1. /\ cmd[p].op = "ensure" /\ cmd[p].at = "sub" /\ NewName(cmd[p].seen, cmd[p].name)
            /\ cmd[p].name # Main /\ doc' = [doc EXCEPT ![Md(cmd[p].name)] = Stub]
        BY <2>2, <3>2 DEF EnsureSub, At
      <4>2. k # cmd[p].name
        BY <4>1, <1>a, <1>e DEF Holds, Copies, NewName
      <4>. QED  BY <4>1, <4>2, <1>c, <1>d, <1>e, <1>f, NamesApart
    <3>. QED  BY <3>1, <3>2, <1>f
  <2>3. CASE CreateMd(p) \/ CreateFail(p)
    <3>1. /\ cmd[p].op \in {"add", "branch"} /\ cmd[p].at \in {"md", "yaml"}
          /\ doc' = doc \/ \E x : doc' = [doc EXCEPT ![Md(cmd[p].name)] = x]
      BY <2>3 DEF CreateMd, CreateFail, Fail, files
    <3>2. k # cmd[p].name
      BY <3>1, <1>a, <1>e, NamesAssumption DEF Holds, Making
    <3>. QED  BY <3>1, <3>2, <1>c, <1>d, <1>e, <1>f, NamesApart
  <2>4. CASE \/ MergeArchive(p) \/ MergeParent(p) \/ MergeUnlink(p)
             \/ MergeFail(p) \/ MergeRestore(p) \/ MergeDiscard(p)
    <3>1. /\ cmd[p].op = "merge" /\ cmd[p].at \in Merging \ {"lock", "read"}
          /\ \A g \in Files \ {cmd[p].file, Archive(cmd[p].name), Merged(p).file} : doc'[g] = doc[g]
      BY <2>4, <1>c DEF MergeArchive, MergeParent, MergeUnlink, MergeFail, MergeRestore,
                      MergeDiscard, At, Merging
    <3>2. Merged(p).file = Md(cmd[p].name)
      BY <3>1, <1>a, MergedOne DEF Merging
    <3>3. mlock[cmd[p].file] = p /\ mlock[Md(cmd[p].name)] = p
      BY <3>1, <1>a DEF Keeps, Merging
    <3>. QED  BY <3>1, <3>2, <3>3, <1>d, <1>e, <1>f, NamesApart
  <2>5. CASE UNCHANGED doc
    BY <2>5, <1>f
  <2>. QED
    BY <2>1, <2>2, <2>3, <2>4, <2>5, <1>2, <1>a, QuietSteps
    DEF Quiet, files, Fail, Recording, Writers, Opens, At, EnsureLock, CreateYaml,
        MergeLook, MergeLock, MergeRead, MergeYaml, MergeRevert, LinkWrite, RenameMd,
        RenameYaml, RemoveMd, RemoveYaml, RelinkYaml, Target, Read, GoalWrite,
        DecisionWrite, ReportTruncate, ReportFill, Stamp, Kill
<1>. QED  BY <1>1, <1>2

LEMMA LooseKeeps ==
    ASSUME NEW p, Loose(cmd[p])'
    PROVE  Keeps(p, cmd[p])'
BY DEF Loose, Keeps, Aims, Opens, Merging, Working, Making, Writers

(* What the other commands rely on stays so.                                *)
LEMMA KeepsElsewhere ==
    ASSUME TypeInv, LockInv, HoldInv, DocInv, GoalInv, NEW p \in Procs, Acts(p),
           ~overlap', killed' \intersect {"rename", "remove", "report"} = {},
           NEW q \in Procs, q # p
    PROVE  Keeps(q, cmd[q])'
<1>a. /\ ~overlap /\ Owned(yaml) /\ Founding /\ (~yaml.made => doc[Md(Main)] = NoDoc)
      /\ Holds(cmd[p]) /\ Kept(cmd[p]) /\ Keeps(p, cmd[p])
      /\ \A r \in Procs \ {p} : cmd'[r] = cmd[r]
  BY GoalsBefore
<1>b. cmd \in [Procs -> Commands] /\ cmd[p] \in Commands /\ Shape(cmd[p])
  BY Here DEF TypeInv, TypeOK
<1>c. /\ yaml \in Records /\ doc \in [Files -> Docs \union {NoDoc}]
      /\ NoEntry \notin Entries /\ NoDoc \notin Docs /\ Stub \in Docs /\ Blank \in Docs
  BY Values, NothingAssumption DEF TypeInv, TypeOK
<1>d. /\ Keeps(q, cmd[q]) /\ Holds(cmd[q]) /\ cmd'[q] = cmd[q] /\ cmd[q] \in Commands /\ Alone
  BY <1>a, GoalsBefore, Here
<1>1. CASE Loose(cmd[q])
  <2>1. Loose(cmd[q])'
    BY <1>d, <1>1 DEF Loose, Aims, Making
  <2>. QED  BY <2>1, LooseKeeps
<1>2. CASE Aims(cmd[q])
  <2>1. Busy(q) /\ cmd[q].op \in Writers
    BY <1>2 DEF Aims, Writers, Busy
  <2>2. cmd[p].op \notin Unlocked
    BY <2>1, <1>d DEF Alone, Busy, Unlocked
  <2>3. PICK n \in Targets : /\ cmd[q].file = Md(n) /\ (n = Main \/ Has(yaml, n))
                             /\ Fits(cmd[q], n)
    BY <1>2, <1>d DEF Keeps
  <2>4. yaml'.made /\ (n = Main \/ Has(yaml, n)')
    <3>1. yaml.made
      BY <1>2, <1>d DEF Keeps
    <3>2. n \in Names => (Has(yaml, n) => Has(yaml, n)')
      BY <2>2, <1>a, OnlyAdds DEF HoldInv
    <3>3. n = Main \/ n \in Names
      BY DEF Targets
    <3>. QED  BY <3>1, <3>2, <3>3, <2>3, MadeStays
  <2>5. ASSUME Opens(cmd[q])
        PROVE  /\ mlock'[Md(n)] = q /\ mlock[Md(n)] = q
               /\ OpenIn(Md(n))' = IF cmd[q].at = "write" THEN cmd[q].text.open ELSE {}
    <3>1. mlock[Md(n)] = q /\ OpenIn(Md(n)) = IF cmd[q].at = "write" THEN cmd[q].text.open ELSE {}
      BY <2>3, <2>5, <1>d DEF Keeps
    <3>2. OpenIn(Md(n))' = OpenIn(Md(n))
      BY <2>2, <2>3, <2>5, OpenBeside
    <3>3. mlock'[Md(n)] = mlock[Md(n)]
      BY <3>1, <1>a, Values, NobodyAssumption, LocksElsewhere
    <3>. QED  BY <3>1, <3>2, <3>3
  <2>6. Fits(cmd[q], n)'
    <3>1. CASE killed' # {}
      BY <3>1 DEF Fits
    <3>2. CASE killed' = {} /\ Listed(n)
      <4>1. Listed(n)' \/ (Going(n)' /\ mlock[Md(n)] = p)
        BY <2>2, <3>2, ListedBeside
      <4>2. mlock[Md(n)] = p => cmd[q].at = "read"
        BY <2>5, <1>2 DEF Aims, Opens
      <4>. QED  BY <4>1, <4>2, <1>d DEF Fits
    <3>3. CASE killed' = {} /\ ~Listed(n) /\ cmd[q].at = "read"
      <4>1. Plain(n) \/ Going(n)
        <5>1. killed = {}
          BY <3>3, Course
        <5>. QED  BY <5>1, <3>3, <2>3 DEF Fits
      <4>2. Plain(n)' \/ Going(n)' \/ Listed(n)'
        BY <4>1, <2>2, <2>3, <3>3, PlainBeside
      <4>. QED  BY <4>2, <3>3, <1>d DEF Fits
    <3>4. CASE killed' = {} /\ ~Listed(n) /\ cmd[q].at # "read"
      <4>1. ~cmd[q].text.section
        <5>1. killed = {}
          BY <3>4, Course
        <5>. QED  BY <5>1, <3>4, <2>3 DEF Fits
      <4>. QED  BY <4>1, <3>4, <1>d DEF Fits
    <3>. QED  BY <3>1, <3>2, <3>3, <3>4
  <2>7. Aims(cmd[q])' => \E k \in Targets : /\ cmd'[q].file = Md(k) /\ (k = Main \/ Has(yaml, k)')
                                           /\ Fits(cmd[q], k)'
    BY <2>3, <2>4, <2>6, <1>d
  <2>8. Opens(cmd[q])' => /\ mlock'[cmd'[q].file] = q
                         /\ OpenIn(cmd[q].file)' = IF cmd'[q].at = "write"
                                                   THEN cmd'[q].text.open ELSE {}
    <3>1. Opens(cmd[q])' => Opens(cmd[q])
      BY <1>d DEF Opens
    <3>2. \A f : f = Md(n) => (OpenIn(cmd[q].file)' = OpenIn(f)' <=> TRUE)
      BY <2>3, <1>d DEF OpenIn
    <3>. QED  BY <3>1, <3>2, <2>3, <2>5, <1>d
  <2>9. cmd[q].op = "goal" /\ cmd[q].at = "write" => cmd[q].text.section
    BY <1>d DEF Keeps
  <2>. QED
    BY <2>1, <2>4, <2>7, <2>8, <2>9, <1>d DEF Keeps, Writers, Making
<1>3. CASE ~Loose(cmd[q]) /\ ~Aims(cmd[q])
  <2>1. /\ cmd[q].op \in {"merge", "ensure", "add", "branch", "rename", "remove"}
        /\ Recording(cmd[q]) \/ cmd[q].op \in Unlocked
    BY <1>3 DEF Loose, Recording, Unlocked, Merging, Making
  <2>2. /\ yaml' = yaml /\ (cmd[q].op \in Unlocked => doc' = doc)
    BY <2>1, Undisturbed DEF files
  <2>3. ~Opens(cmd[q]) /\ ~Aims(cmd[q])
    BY <2>1, <1>3 DEF Opens, Writers
  <2>4. Recording(cmd[q]) => ~Recording(cmd[p]) /\ cmd[p].op \notin Unlocked
    <3>1. Recording(cmd[q]) => ~Recording(cmd[p])
      BY DEF LockInv
    <3>2. Recording(cmd[q]) => cmd[p].op \notin Unlocked
      BY <2>1, <1>d DEF Alone, Busy, Unlocked
    <3>. QED  BY <3>1, <3>2
  <2>5. ASSUME Recording(cmd[q]), NEW f \in Files, mlock[f] # p
        PROVE  doc'[f] = doc[f]
    BY <2>4, <2>5, <1>a, DocsElsewhere DEF Keeps
  <2>6. /\ \A k \in Targets : Md(k) \in Files
        /\ cmd[q].name \in Targets /\ cmd[q].file \in Files
    BY Values, Hands
  <2>7. CASE cmd[q].op = "merge"
    <3>1. cmd[q].at \in Merging /\ Recording(cmd[q])
      BY <2>7, <1>3 DEF Loose, Making, Recording, Merging
    <3>2. PICK m \in Targets : cmd[q].file = Md(m) /\ m # cmd[q].name /\ Listed(m)
      BY <3>1, <2>7, <1>d DEF Keeps
    <3>3. Listed(m)'
      BY <3>2, <2>2 DEF Listed, Live, Has
    <3>4. ASSUME cmd[q].at \in Merging \ {"lock"}, NEW f \in {cmd[q].file, Md(cmd[q].name)}
          PROVE  mlock'[f] = q /\ mlock[f] = q
      <4>1. mlock[f] = q /\ f \in Files
        BY <3>4, <2>6, <2>7, <1>d DEF Keeps
      <4>. QED  BY <4>1, <1>a, NobodyAssumption, LocksElsewhere
    <3>5. ASSUME cmd[q].at \in Working
          PROVE  /\ OpenIn(Md(cmd[q].name))' = cmd'[q].text.open
                 /\ OpenIn(cmd[q].file)' \in Passed(cmd[q])'
      <4>1. doc'[cmd[q].file] = doc[cmd[q].file] /\ doc'[Md(cmd[q].name)] = doc[Md(cmd[q].name)]
        BY <3>1, <3>4, <3>5, <2>5, <2>6 DEF Merging, Working
      <4>2. OpenIn(Md(cmd[q].name)) = cmd[q].text.open /\ OpenIn(cmd[q].file) \in Passed(cmd[q])
        BY <3>5, <2>7, <1>d DEF Keeps
      <4>3. Passed(cmd[q])' = Passed(cmd[q])
        BY <1>d DEF Passed, Pending
      <4>. QED  BY <4>1, <4>2, <4>3, <1>d DEF OpenIn
    <3>. QED
      BY <3>1, <3>2, <3>3, <3>4, <3>5, <2>3, <2>7, <1>d DEF Keeps, Making, Merging
  <2>8. CASE cmd[q].op = "ensure" /\ cmd[q].at = "main"
    <3>1. Recording(cmd[q])
      BY <2>8 DEF Recording
    <3>2. /\ OpenIn(Md(Main)) = {} /\ Plain(Main)
          /\ \A r \in Procs : Opens(cmd[r]) /\ cmd[r].file = Md(Main) =>
                                 cmd[r].text.open = {} /\ ~cmd[r].text.section
      BY <2>8, <1>d DEF Keeps
    <3>3. OpenIn(Md(Main))' = {} /\ Plain(Main)'
      <4>1. CASE doc'[Md(Main)] = doc[Md(Main)]
        BY <4>1, <3>2 DEF OpenIn, Plain
      <4>2. CASE doc'[Md(Main)] # doc[Md(Main)]
        <5>1. /\ Opens(cmd[p]) /\ Md(Main) = cmd[p].file
              /\ At(p, "goal", "write") \/ doc'[Md(Main)] \in {Blank, cmd[p].text}
          BY <4>2, <3>1, <2>4, <1>a, Values, DocsElsewhere
        <5>2. cmd[p].text.open = {} /\ ~cmd[p].text.section
          BY <5>1, <3>2
        <5>3. doc'[Md(Main)] \in {Blank, cmd[p].text}
          BY <5>1, <5>2, <1>a DEF Keeps, At
        <5>. QED  BY <5>2, <5>3 DEF OpenIn, Plain, Blank, Stub
      <4>. QED  BY <4>1, <4>2
    <3>4. ASSUME NEW r \in Procs, Opens(cmd[r])', cmd'[r].file = Md(Main)
          PROVE  cmd'[r].text.open = {} /\ ~cmd'[r].text.section
      <4>1. CASE r # p
        BY <4>1, <3>2, <3>4, <1>a DEF Opens
      <4>2. CASE r = p
        <5>1. /\ cmd[p].file = Md(Main)
              /\ \/ Opens(cmd[p]) /\ cmd'[p].text = cmd[p].text
                 \/ cmd'[p].text = IF doc[Md(Main)] = NoDoc THEN Blank ELSE doc[Md(Main)]
          BY <4>2, <3>4, <1>a, OpensHere
        <5>. QED  BY <5>1, <4>2, <3>2 DEF OpenIn, Plain, Blank, Stub
      <4>. QED  BY <4>1, <4>2
    <3>5. \A r \in Procs : Opens(cmd[r])' /\ cmd'[r].file = Md(Main) =>
                              cmd'[r].text.open = {} /\ ~cmd'[r].text.section
      BY <3>4
    <3>. QED  BY <3>3, <3>5, <2>3, <2>8, <1>d DEF Keeps, Making, Writers
  <2>9. CASE Making(cmd[q]) /\ cmd[q].at = "yaml"
    <3>1. Recording(cmd[q])
      BY <2>9 DEF Making, Recording
    <3>2. OpenIn(Md(cmd[q].name)) = {} /\ cmd[q].name \in Names /\ ~Has(yaml, cmd[q].name)
      BY <2>9, <1>d DEF Keeps, Holds
    <3>3. doc'[Md(cmd[q].name)] = doc[Md(cmd[q].name)]
      <4>. SUFFICES ASSUME doc'[Md(cmd[q].name)] # doc[Md(cmd[q].name)] PROVE FALSE  OBVIOUS
      <4>1. Opens(cmd[p]) /\ Md(cmd[q].name) = cmd[p].file
        BY <3>1, <2>4, <2>6, <1>a, DocsElsewhere
      <4>2. PICK k \in Targets : cmd[p].file = Md(k) /\ (k = Main \/ Has(yaml, k))
        BY <4>1, <1>a DEF Keeps, Opens, Aims
      <4>. QED  BY <4>1, <4>2, <3>2, NamesApart, NamesAssumption
    <3>4. OpenIn(Md(cmd[q].name))' = {}
      BY <3>2, <3>3, <1>d DEF OpenIn
    <3>5. cmd[q].op # "merge" /\ cmd[q].op # "remove" /\ cmd[q].op # "goal" /\ cmd[q].at # "main"
      BY <2>9 DEF Making
    <3>. QED  BY <3>4, <3>5, <2>3, <1>d DEF Keeps
  <2>10. CASE cmd[q].op = "remove" /\ cmd[q].at = "yaml"
    <3>1. doc' = doc /\ OpenIn(cmd[q].seen.subs[cmd[q].name].file) = {}
      BY <2>2, <2>10, <1>d DEF Keeps, Unlocked
    <3>2. OpenIn(cmd[q].seen.subs[cmd[q].name].file)' = {}
      BY <3>1, <1>d DEF OpenIn
    <3>. QED  BY <3>2, <2>3, <2>10, <1>d DEF Keeps, Making
  <2>11. CASE cmd[q].op = "rename" /\ cmd[q].at = "yaml"
    <3>1. doc' = doc /\ (~cmd[q].seen.subs[cmd[q].name].archived => OpenIn(Md(cmd[q].name)) = {})
      BY <2>2, <2>11, <1>d DEF Keeps, Unlocked
    <3>2. ~cmd[q].seen.subs[cmd[q].name].archived => OpenIn(Md(cmd[q].name))' = {}
      BY <3>1, <1>d DEF OpenIn
    <3>. QED  BY <3>2, <2>3, <2>11, <1>d DEF Keeps, Making
  <2>. QED  BY <2>7, <2>8, <2>9, <2>10, <2>11, <1>3 DEF Loose
<1>. QED  BY <1>1, <1>2, <1>3

(* No document before there is a record.                                    *)
LEMMA MainWaits ==
    ASSUME TypeInv, LockInv, HoldInv, DocInv, GoalInv, NEW p \in Procs, Acts(p),
           ~overlap', killed' \intersect {"rename", "remove", "report"} = {}
    PROVE  ~yaml'.made => doc'[Md(Main)] = NoDoc
<1>a. /\ ~overlap /\ Owned(yaml) /\ Founding /\ (~yaml.made => doc[Md(Main)] = NoDoc)
      /\ Holds(cmd[p]) /\ Kept(cmd[p]) /\ Keeps(p, cmd[p])
      /\ \A r \in Procs \ {p} : cmd'[r] = cmd[r]
  BY GoalsBefore
<1>b. cmd \in [Procs -> Commands] /\ cmd[p] \in Commands /\ Shape(cmd[p])
  BY Here DEF TypeInv, TypeOK
<1>c. /\ yaml \in Records /\ doc \in [Files -> Docs \union {NoDoc}]
      /\ NoEntry \notin Entries /\ NoDoc \notin Docs /\ Stub \in Docs /\ Blank \in Docs
  BY Values, NothingAssumption DEF TypeInv, TypeOK
<1>. SUFFICES ASSUME ~yaml'.made PROVE doc'[Md(Main)] = NoDoc  OBVIOUS
<1>d. ~yaml.made /\ doc[Md(Main)] = NoDoc /\ \A n \in Names : ~Has(yaml, n)
  BY <1>a, MadeStays DEF Founding
<1>1. CASE doc' = doc
  BY <1>1, <1>d
<1>2. CASE doc' # doc
  <2>1. ~(cmd[p].op = "merge" /\ cmd[p].at \in Merging)
    <3>. SUFFICES ASSUME cmd[p].op = "merge", cmd[p].at \in Merging PROVE FALSE  OBVIOUS
    <3>1. /\ cmd[p].name \in Names /\ cmd[p].seen.made /\ cmd[p].seen \in Records
          /\ yaml \in {cmd[p].seen, Closed(cmd[p].seen, cmd[p].name)}
      BY <1>a, <1>b, MergedOne DEF Commands
    <3>. QED  BY <3>1, <1>d DEF Closed, With, Records
  <2>2. ~Aims(cmd[p]) /\ ~Making(cmd[p]) /\ ~At(p, "ensure", "main") /\ ~At(p, "ensure", "sub")
        /\ ~(cmd[p].op \in {"rename", "remove"} /\ cmd[p].at \in {"md", "yaml"})
    <3>1. ~Aims(cmd[p])
      BY <1>a, <1>d DEF Keeps
    <3>2. ~Making(cmd[p]) /\ ~At(p, "ensure", "main") /\ ~At(p, "ensure", "sub")
      BY <1>a, <1>d DEF Holds, At
    <3>3. cmd[p].op \in {"rename", "remove"} /\ cmd[p].at \in {"md", "yaml"} =>
             Has(yaml, cmd[p].name)
      BY <1>a DEF Holds
    <3>. QED  BY <3>1, <3>2, <3>3, <1>d DEF Has
  <2>3. ~(cmd[p].op \in Writers /\ cmd[p].at \in {"read", "write", "fill"})
        /\ ~(cmd[p].op = "merge" /\ cmd[p].at \in Merging \ {"lock", "read"})
        /\ ~(cmd[p].op \in {"add", "branch"} /\ cmd[p].at \in {"md", "yaml"})
    BY <2>1, <2>2 DEF Aims, Making, Merging
  <2>4. ~(UNCHANGED files) /\ ~Quiet(p)
    BY <1>2 DEF files, Quiet
  <2>. QED
    BY <1>2, <2>2, <2>3, <2>4, <1>a, QuietSteps
    DEF Fail, At, Writers, EnsureLock, EnsureMain, EnsureSub, CreateMd, CreateYaml,
        CreateFail, MergeLook, MergeLock, MergeRead, MergeArchive, MergeParent, MergeYaml,
        MergeUnlink, MergeFail, MergeRestore, MergeRevert, MergeDiscard, Merging,
        LinkWrite, RenameMd, RenameYaml, RemoveMd, RemoveYaml, RelinkYaml, Target, Read,
        GoalWrite, DecisionWrite, ReportTruncate, ReportFill, Stamp, Kill
<1>. QED  BY <1>1, <1>2

(* A goal stays where it is, if the documents keep theirs and are as many.  *)
LEMMA WantsStay ==
    ASSUME TypeInv, LockInv, HoldInv, DocInv, GoalInv, NEW p \in Procs, Acts(p),
           ~overlap', killed' \intersect {"rename", "remove", "report"} = {},
           wanted' \subseteq wanted, ~At(p, "report", "fill"),
           \/ killed' # {}
           \/ /\ ~Pivot(cmd[p])
              /\ \A n \in Targets : Listed(n) => Listed(n)' \/ Going(n)',
           \A n \in Targets : OpenIn(Md(n)) \subseteq OpenIn(Md(n))'
    PROVE  Wants'
<1>. SUFFICES ASSUME NEW g \in wanted' PROVE (\E n \in Targets : Counts(n) /\ Lists(n, g))'
  BY DEF Wants
<1>a. /\ Wants /\ \A q \in Procs \ {p} : cmd'[q] = cmd[q]
  BY GoalsBefore
<1>1. PICK n \in Targets : Counts(n) /\ Lists(n, g)
  BY <1>a DEF Wants
<1>2. Lists(n, g)'
  <2>1. CASE g \in OpenIn(Md(n))
    BY <2>1 DEF Lists
  <2>2. CASE g \notin OpenIn(Md(n))
    <3>1. PICK q \in Procs : /\ At(q, "report", "fill") /\ cmd[q].file = Md(n)
                             /\ g \in cmd[q].text.open
      BY <2>2, <1>1 DEF Lists
    <3>. QED  BY <3>1, <1>a DEF Lists, At
  <2>. QED  BY <2>1, <2>2
<1>3. Counts(n)'
  <2>1. CASE killed' # {}
    BY <2>1 DEF Counts
  <2>2. CASE killed' = {}
    <3>1. killed = {}
      BY <2>2, Course
    <3>2. CASE Listed(n)
      BY <3>2, <2>2 DEF Counts
    <3>3. CASE Going(n)
      <4>1. PICK q \in Procs : cmd[q].op = "merge" /\ cmd[q].at \in Leaving /\ cmd[q].name = n
        BY <3>3 DEF Going
      <4>2. q # p
        BY <4>1, <2>2 DEF Pivot
      <4>. QED  BY <4>1, <4>2, <1>a DEF Counts, Going
    <3>4. CASE Coming(n)
      <4>1. PICK q \in Procs : At(q, "rename", "yaml") /\ cmd[q].to = n /\ ~Merged(q).archived
        BY <3>4 DEF Coming
      <4>2. q # p
        BY <4>1, <2>2 DEF Pivot, Leaving, At
      <4>3. Coming(n)'
        BY <4>1, <4>2, <1>a DEF Coming, At, Merged
      <4>. QED  BY <4>3 DEF Counts
    <3>. QED  BY <3>1, <3>2, <3>3, <3>4, <1>1 DEF Counts
  <2>. QED  BY <2>1, <2>2
<1>. QED  BY <1>2, <1>3

(* The steps that are about no document, and those that end a command.      *)
LEMMA LeavesLoose ==
    ASSUME TypeInv, NEW p \in Procs, Leave(p)
    PROVE  Keeps(p, cmd[p])'
<1>1. cmd'[p] = Idle
  BY DEF Leave, TypeInv, TypeOK
<1>2. Loose(cmd[p])'
  BY <1>1 DEF Idle, Loose, Aims, Merging, Making, Writers
<1>. QED  BY <1>2, LooseKeeps

LEMMA QuietGoals ==
    ASSUME TypeInv, LockInv, HoldInv, DocInv, GoalInv, NEW p \in Procs, Acts(p),
           ~overlap', killed' \intersect {"rename", "remove", "report"} = {},
           \/ Quiet(p) \/ Kill(p) \/ LinkWrite(p) \/ Stamp(p) \/ RelinkYaml(p)
           \/ Fail(p) /\ ~Pivot(cmd[p])
    PROVE  Wants' /\ Keeps(p, cmd[p])'
<1>a. /\ ~overlap /\ Owned(yaml) /\ Founding /\ (~yaml.made => doc[Md(Main)] = NoDoc)
      /\ Holds(cmd[p]) /\ Kept(cmd[p]) /\ Keeps(p, cmd[p])
      /\ \A r \in Procs \ {p} : cmd'[r] = cmd[r]
  BY GoalsBefore
<1>b. cmd \in [Procs -> Commands] /\ cmd[p] \in Commands /\ Shape(cmd[p])
  BY Here DEF TypeInv, TypeOK
<1>c. /\ yaml \in Records /\ doc \in [Files -> Docs \union {NoDoc}]
      /\ NoEntry \notin Entries /\ NoDoc \notin Docs /\ Stub \in Docs /\ Blank \in Docs
  BY Values, NothingAssumption DEF TypeInv, TypeOK
<1>d. ASSUME doc' = doc, wanted' = wanted, \A n \in Targets : Listed(n) <=> Listed(n)',
             ~At(p, "report", "fill"), killed' # {} \/ ~Pivot(cmd[p])
      PROVE  Wants'
  <2>1. \A n \in Targets : OpenIn(Md(n)) \subseteq OpenIn(Md(n))'
    BY <1>d DEF OpenIn
  <2>. QED  BY <1>d, <2>1, WantsStay
<1>e. yaml' = yaml => \A n \in Targets : Listed(n) <=> Listed(n)'
  BY DEF Listed, Live, Has
<1>1. CASE Quiet(p)
  BY <1>1, <1>d, <1>e, LooseKeeps DEF Quiet, Pivot, Leaving, At
<1>2. CASE Kill(p)
  BY <1>2, <1>d, <1>e, LeavesLoose DEF Kill, files, At
<1>3. CASE Fail(p) /\ ~Pivot(cmd[p])
  BY <1>3, <1>d, <1>e, LeavesLoose DEF Fail, Return, files, Pivot, Leaving, At
<1>4. CASE Stamp(p)
  BY <1>4, <1>a, <1>d, <1>e, LeavesLoose DEF Stamp, Return, Holds, Copies, Pivot,
     Leaving, At
<1>5. CASE LinkWrite(p)
  <2>1. cmd[p].seen = yaml
    BY <1>5, <1>a DEF LinkWrite, Holds, Copies
  <2>2. yaml'.subs = yaml.subs
    BY <1>5, <2>1, <1>c DEF LinkWrite, Records
  <2>3. \A n \in Targets : Listed(n) <=> Listed(n)'
    BY <2>2 DEF Listed, Live, Has
  <2>. QED  BY <1>5, <2>3, <1>d, LeavesLoose DEF LinkWrite, Return, Pivot, Leaving, At
<1>6. CASE RelinkYaml(p)
  <2>1. /\ cmd[p].op = "relink" /\ cmd'[p].at = "sessions" /\ cmd'[p].op = "relink"
        /\ cmd[p].repo \in Repos /\ cmd[p].new \in Repos
        /\ yaml' = Relinked(yaml, cmd[p].repo, cmd[p].new)
    BY <1>6, <1>a, <1>b DEF RelinkYaml, At, Onward, Goto, Commands, Holds, Shape
  <2>2. \A n \in Names : /\ yaml.subs[n] = NoEntry <=> yaml'.subs[n] = NoEntry
                         /\ yaml.subs[n] # NoEntry => yaml'.subs[n].archived = yaml.subs[n].archived
    BY <2>1, <1>c, RelinkedOne
  <2>3. \A n \in Targets : Listed(n) <=> Listed(n)'
    BY <2>2 DEF Listed, Live, Has
  <2>4. Loose(cmd[p])'
    BY <2>1 DEF Loose, Aims, Making, Writers
  <2>. QED  BY <1>6, <2>1, <2>3, <2>4, <1>d, LooseKeeps DEF RelinkYaml, Pivot, Leaving, At
<1>. QED  BY <1>1, <1>2, <1>3, <1>4, <1>5, <1>6

(* Creating a document loses no goal: there is none where it goes.          *)
LEMMA CreateGoals ==
    ASSUME TypeInv, LockInv, HoldInv, DocInv, GoalInv, NEW p \in Procs, Acts(p),
           ~overlap', killed' \intersect {"rename", "remove", "report"} = {},
           EnsureLock(p) \/ EnsureMain(p) \/ EnsureSub(p) \/ CreateMd(p) \/ CreateYaml(p)
           \/ CreateFail(p)
    PROVE  Wants' /\ Keeps(p, cmd[p])'
<1>a. /\ ~overlap /\ Owned(yaml) /\ Founding /\ (~yaml.made => doc[Md(Main)] = NoDoc)
      /\ Holds(cmd[p]) /\ Kept(cmd[p]) /\ Keeps(p, cmd[p])
      /\ \A r \in Procs \ {p} : cmd'[r] = cmd[r]
  BY GoalsBefore
<1>b. cmd \in [Procs -> Commands] /\ cmd[p] \in Commands /\ Shape(cmd[p])
  BY Here DEF TypeInv, TypeOK
<1>c. /\ yaml \in Records /\ doc \in [Files -> Docs \union {NoDoc}]
      /\ NoEntry \notin Entries /\ NoDoc \notin Docs /\ Stub \in Docs /\ Blank \in Docs
  BY Values, NothingAssumption DEF TypeInv, TypeOK
<1>d. /\ cmd[p].op \in {"ensure", "add", "branch"} /\ wanted' = wanted /\ ~Pivot(cmd[p])
      /\ cmd[p].op \notin Unlocked /\ ~At(p, "report", "fill")
  BY DEF EnsureLock, EnsureMain, EnsureSub, CreateMd, CreateYaml, CreateFail, Fail, At,
     Pivot, Unlocked
<1>e. ASSUME \A n \in Targets : OpenIn(Md(n)) \subseteq OpenIn(Md(n))' PROVE Wants'
  <2>1. \A n \in Targets : Listed(n) => Listed(n)' \/ Going(n)'
    BY <1>d, ListedBeside
  <2>. QED  BY <1>d, <1>e, <2>1, WantsStay
<1>f. ASSUME NEW f, NEW d \in Docs \union {NoDoc}, doc' = [doc EXCEPT ![f] = d], OpenIn(f) = {}
      PROVE  Wants'
  <2>1. \A g : g # f => doc'[g] = doc[g]
    BY <1>f, <1>c
  <2>2. \A g : g # f => OpenIn(g)' = OpenIn(g)
    BY <2>1 DEF OpenIn
  <2>3. \A n \in Targets : OpenIn(Md(n)) \subseteq OpenIn(Md(n))'
    BY <2>2, <1>f
  <2>. QED  BY <2>3, <1>e
<1>g. ASSUME cmd'[p].op \in {"ensure", "add", "branch"}, cmd'[p].at = "yaml",
             cmd'[p].name = cmd[p].name, doc'[Md(cmd[p].name)] = Stub
      PROVE  Keeps(p, cmd[p])'
  BY <1>g, <1>c DEF Keeps, Aims, Opens, Writers, Making, Merging, OpenIn, Stub
<1>h. ASSUME cmd'[p].op \in {"ensure", "add", "branch"}, cmd'[p].at \in {"sub", "select"}
      PROVE  Keeps(p, cmd[p])'
  BY <1>h DEF Keeps, Aims, Opens, Writers, Making, Merging
<1>i. cmd[p].name \in Targets /\ \A n \in Targets : Md(n) \in Files
  BY Hands, Values
<1>1. CASE Fail(p)
  BY <1>1, <1>d, QuietGoals
<1>2. CASE EnsureLock(p)
  <2>1. /\ doc' = doc /\ cmd'[p].op = "ensure" /\ cmd'[p].at = IF yaml.made THEN "sub" ELSE "main"
    BY <1>2, <1>b DEF EnsureLock, At, Goto, Commands
  <2>2. Wants'
    BY <2>1, <1>e DEF OpenIn
  <2>3. CASE yaml.made
    BY <2>1, <2>2, <2>3, <1>h
  <2>4. CASE ~yaml.made
    <3>1. OpenIn(Md(Main))' = {} /\ Plain(Main)'
      BY <2>1, <2>4, <1>a DEF OpenIn, Plain
    <3>2. ASSUME NEW q \in Procs, Opens(cmd[q])' PROVE FALSE
      <4>1. q # p /\ Opens(cmd[q])
        BY <2>1, <3>2, <1>a DEF Opens, Writers
      <4>2. Aims(cmd[q]) /\ Keeps(q, cmd[q])
        BY <4>1, GoalsBefore DEF Opens, Aims
      <4>. QED  BY <4>2, <2>4 DEF Keeps
    <3>3. \A q \in Procs : Opens(cmd[q])' /\ cmd'[q].file = Md(Main) =>
                              cmd'[q].text.open = {} /\ ~cmd'[q].text.section
      BY <3>2
    <3>. QED
      BY <2>1, <2>2, <2>4, <3>1, <3>3 DEF Keeps, Aims, Opens, Writers, Making, Merging
  <2>. QED  BY <2>3, <2>4
<1>3. CASE EnsureMain(p)
  <2>1. /\ doc' = [doc EXCEPT ![Md(Main)] = Stub] /\ cmd'[p].op = "ensure" /\ cmd'[p].at = "sub"
        /\ cmd[p].op = "ensure" /\ cmd[p].at = "main"
    BY <1>3, <1>b DEF EnsureMain, At, Onward, Goto, Commands
  <2>2. OpenIn(Md(Main)) = {}
    BY <2>1, <1>a DEF Keeps
  <2>. QED  BY <2>1, <2>2, <1>c, <1>f, <1>h
<1>4. CASE EnsureSub(p) /\ ~Fail(p)
  <2>1. /\ doc' = [doc EXCEPT ![Md(cmd[p].name)] = Stub] /\ doc[Md(cmd[p].name)] = NoDoc
        /\ cmd[p].op = "ensure"
        /\ cmd' = [cmd EXCEPT ![p] = [cmd[p] EXCEPT !.at = "yaml",
                                          !.seen = With(@, cmd[p].name, Regular(cmd[p].name))]]
    BY <1>4 DEF EnsureSub, At, Goto
  <2>2. cmd'[p].op = "ensure" /\ cmd'[p].at = "yaml" /\ cmd'[p].name = cmd[p].name
    BY <2>1, <1>b DEF Commands
  <2>3. OpenIn(Md(cmd[p].name)) = {} /\ doc'[Md(cmd[p].name)] = Stub
    BY <2>1, <1>c, <1>i DEF OpenIn
  <2>. QED  BY <2>1, <2>2, <2>3, <1>c, <1>f, <1>g
<1>5. CASE CreateMd(p) /\ ~Fail(p)
  <2>1. /\ doc' = [doc EXCEPT ![Md(cmd[p].name)] = Stub] /\ doc[Md(cmd[p].name)] = NoDoc
        /\ cmd'[p].op = cmd[p].op /\ cmd'[p].at = "yaml" /\ cmd'[p].name = cmd[p].name
    BY <1>5, <1>b DEF CreateMd, Onward, Goto, Commands
  <2>2. OpenIn(Md(cmd[p].name)) = {} /\ doc'[Md(cmd[p].name)] = Stub
    BY <2>1, <1>c, <1>i DEF OpenIn
  <2>. QED  BY <2>1, <2>2, <1>c, <1>d, <1>f, <1>g
<1>6. CASE CreateYaml(p)
  <2>1. doc' = doc
    BY <1>6 DEF CreateYaml
  <2>2. Wants'
    BY <2>1, <1>e DEF OpenIn
  <2>3. CASE cmd[p].op = "add"
    <3>1. cmd' = [cmd EXCEPT ![p] = [cmd[p] EXCEPT !.at = "select", !.seen = NoRecord,
                                                   !.was = NoRecord]]
      BY <1>6, <2>3 DEF CreateYaml, Goto
    <3>2. cmd'[p].op = "add" /\ cmd'[p].at = "select"
      BY <2>3, <3>1, <1>b DEF Commands
    <3>. QED  BY <2>2, <3>2, <1>h
  <2>4. CASE cmd[p].op # "add"
    BY <1>6, <2>2, <2>4, LeavesLoose DEF CreateYaml, Return
  <2>. QED  BY <2>3, <2>4
<1>7. CASE CreateFail(p)
  <2>1. /\ doc' = [doc EXCEPT ![Md(cmd[p].name)] = NoDoc] /\ Leave(p)
        /\ Making(cmd[p]) /\ cmd[p].at = "yaml"
    BY <1>7 DEF CreateFail, Return, Making
  <2>2. OpenIn(Md(cmd[p].name)) = {}
    BY <2>1, <1>a DEF Keeps
  <2>. QED  BY <2>1, <2>2, <1>f, LeavesLoose
<1>. QED  BY <1>1, <1>2, <1>3, <1>4, <1>5, <1>6, <1>7

(* A merge works on the document of a subproject the record lists, and not  *)
(* on the one it merges.                                                    *)
LEMMA LookGoals ==
    ASSUME TypeInv, LockInv, HoldInv, DocInv, GoalInv, NEW p \in Procs, Acts(p),
           ~overlap', killed' \intersect {"rename", "remove", "report"} = {},
           MergeLook(p)
    PROVE  Wants' /\ Keeps(p, cmd[p])'
<1>a. /\ ~overlap /\ Owned(yaml) /\ Founding /\ (~yaml.made => doc[Md(Main)] = NoDoc)
      /\ Holds(cmd[p]) /\ Kept(cmd[p]) /\ Keeps(p, cmd[p])
      /\ \A r \in Procs \ {p} : cmd'[r] = cmd[r]
  BY GoalsBefore
<1>b. cmd \in [Procs -> Commands] /\ cmd[p] \in Commands /\ Shape(cmd[p])
  BY Here DEF TypeInv, TypeOK
<1>c. /\ yaml \in Records /\ doc \in [Files -> Docs \union {NoDoc}]
      /\ NoEntry \notin Entries /\ NoDoc \notin Docs /\ Stub \in Docs /\ Blank \in Docs
  BY Values, NothingAssumption DEF TypeInv, TypeOK
<1>1. CASE Fail(p)
  BY <1>1, QuietGoals DEF MergeLook, Pivot, Leaving, At
<1>2. CASE ~Fail(p)
  <2>1. /\ cmd[p].op = "merge" /\ cmd[p].at = "go" /\ Live(yaml, cmd[p].name) /\ UNCHANGED files
        /\ Resolves(yaml, yaml.subs[cmd[p].name].parent) /\ wanted' = wanted
        /\ cmd' = [cmd EXCEPT ![p] = [cmd[p] EXCEPT !.at = "lock", !.seen = yaml,
                       !.file = FileOf(yaml, yaml.subs[cmd[p].name].parent)]]
    BY <1>2 DEF MergeLook, At, Goto
  <2>2. PICK n \in Names : n = cmd[p].name
    BY <2>1 DEF Live, Has
  <2>3. PICK m \in Targets : m = yaml.subs[n].parent
    <3>1. yaml.subs[n] \in Entries
      BY <2>1, <2>2, <1>c DEF Records, Live, Has
    <3>. QED  BY <3>1 DEF Entries
  <2>4. m # n
    <3>. SUFFICES ASSUME m = n PROVE FALSE  OBVIOUS
    <3>1. Up(yaml, n) = n
      BY <2>1, <2>2, <2>3, NotOwnParent DEF Live
    <3>2. Up(yaml, n) = Main
      BY <2>1, <2>2, <2>3, NamesAssumption DEF Resolves
    <3>. QED  BY <3>1, <3>2, NamesAssumption
  <2>5. Listed(m) /\ FileOf(yaml, m) = Md(m)
    BY <2>1, <2>2, <2>3, <1>a DEF Resolves, Listed, FileOf, Owned, Live, Has
  <2>6. cmd'[p].op = "merge" /\ cmd'[p].at = "lock" /\ cmd'[p].name = n /\ cmd'[p].file = Md(m)
    BY <2>1, <2>2, <2>3, <2>5, <1>b DEF Commands
  <2>7. UNCHANGED <<yaml, doc>>
    BY <2>1 DEF files
  <2>8. \A k \in Targets : Listed(k) => Listed(k)'
    BY <2>7 DEF Listed, Live, Has
  <2>9. Wants'
    <3>1. ~At(p, "report", "fill") /\ ~Pivot(cmd[p]) /\ wanted' \subseteq wanted
      BY <2>1 DEF Pivot, Leaving, At
    <3>2. \A k \in Targets : Listed(k) => Listed(k)' \/ Going(k)'
      BY <2>8
    <3>3. \A k \in Targets : OpenIn(Md(k)) \subseteq OpenIn(Md(k))'
      BY <2>7 DEF OpenIn
    <3>. QED  BY <3>1, <3>2, <3>3, WantsStay
  <2>10. Listed(m)'
    BY <2>5, <2>8
  <2>. QED
    BY <2>4, <2>6, <2>9, <2>10 DEF Keeps, Aims, Opens, Writers, Making, Merging, Working
<1>. QED  BY <1>1, <1>2

LEMMA MergeGoals ==
    ASSUME TypeInv, LockInv, HoldInv, DocInv, GoalInv, NEW p \in Procs, Acts(p),
           ~overlap', killed' \intersect {"rename", "remove", "report"} = {},
           MergeLock(p) \/ MergeRead(p) \/ MergeArchive(p) \/ MergeParent(p) \/ MergeYaml(p)
           \/ MergeUnlink(p) \/ MergeFail(p) \/ MergeRestore(p) \/ MergeRevert(p)
           \/ MergeDiscard(p)
    PROVE  Wants' /\ Keeps(p, cmd[p])'
<1>a. /\ ~overlap /\ Owned(yaml) /\ Founding /\ (~yaml.made => doc[Md(Main)] = NoDoc)
      /\ Holds(cmd[p]) /\ Kept(cmd[p]) /\ Keeps(p, cmd[p])
      /\ \A r \in Procs \ {p} : cmd'[r] = cmd[r]
  BY GoalsBefore
<1>b. cmd \in [Procs -> Commands] /\ cmd[p] \in Commands /\ Shape(cmd[p])
  BY Here DEF TypeInv, TypeOK
<1>c. /\ yaml \in Records /\ doc \in [Files -> Docs \union {NoDoc}]
      /\ NoEntry \notin Entries /\ NoDoc \notin Docs /\ Stub \in Docs /\ Blank \in Docs
  BY Values, NothingAssumption DEF TypeInv, TypeOK
<1>d. /\ cmd[p].op = "merge" /\ cmd[p].at \in Merging /\ cmd[p].op \notin Unlocked
      /\ ~At(p, "report", "fill")
  BY DEF MergeLock, MergeRead, MergeArchive, MergeParent, MergeYaml, MergeUnlink, MergeFail,
         MergeRestore, MergeRevert, MergeDiscard, At, Merging, Unlocked
<1>e. PICK n \in Names : n = cmd[p].name
  BY <1>a, <1>d, MergedOne
<1>f. PICK m \in Targets : cmd[p].file = Md(m) /\ m # n /\ Listed(m)
  BY <1>a, <1>d, <1>e, MergedOne
<1>g. /\ Merged(p).file = Md(n) /\ Merged(p) = cmd[p].seen.subs[n] /\ n \in Targets
      /\ cmd[p].at \notin Leaving => yaml = cmd[p].seen
      /\ cmd[p].at \notin {"lock", "read"} => cmd[p].was = cmd[p].seen
      /\ Live(cmd[p].seen, n)
  BY <1>a, <1>d, <1>e, MergedOne, Values DEF Merged
<1>h. /\ cmd[p].at # "lock" => mlock[Md(m)] = p /\ mlock[Md(n)] = p
      /\ cmd[p].at \in Working =>
            OpenIn(Md(n)) = cmd[p].text.open /\ OpenIn(Md(m)) \in Passed(cmd[p])
  BY <1>a, <1>d, <1>e, <1>f DEF Keeps
<1>i. /\ Md(m) \in Files /\ Md(n) \in Files /\ Archive(n) \in Files
      /\ \A k \in Targets : Md(k) \in Files /\ Md(k) # Archive(n)
                            /\ (Md(k) = Md(m) => k = m) /\ (Md(k) = Md(n) => k = n)
  BY <1>g, Values, NamesApart
<1>j. ASSUME cmd'[p].op = "merge", cmd'[p].at \in Merging, cmd'[p].name = n, cmd'[p].file = Md(m),
             Listed(m)', cmd'[p].at # "lock" => mlock'[Md(m)] = p /\ mlock'[Md(n)] = p,
             cmd'[p].at \in Working =>
                OpenIn(Md(n))' = cmd'[p].text.open /\ OpenIn(Md(m))' \in Passed(cmd[p])'
      PROVE  Keeps(p, cmd[p])'
  <2>1. \A k, f : /\ k = n /\ f = Md(k) => OpenIn(f)' = OpenIn(Md(n))'
                  /\ f = Md(m) => OpenIn(f)' = OpenIn(Md(m))'
    OBVIOUS
  <2>2. cmd'[p].at \in Working =>
           OpenIn(Md(cmd[p].name))' = OpenIn(Md(n))' /\ OpenIn(cmd[p].file)' = OpenIn(Md(m))'
    BY <1>j DEF OpenIn
  <2>. QED  BY <1>f, <1>j, <2>2 DEF Keeps, Aims, Opens, Writers, Making, Merging
<1>k. ASSUME wanted' = wanted, cmd[p].at \notin Leaving,
             \A k \in Targets : OpenIn(Md(k)) \subseteq OpenIn(Md(k))'
      PROVE  Wants'
  <2>1. \A k \in Targets : Listed(k) => Listed(k)' \/ Going(k)'
    BY <1>d, ListedBeside
  <2>. QED  BY <1>d, <1>k, <2>1, WantsStay DEF Pivot
<1>n. ASSUME wanted' = wanted, killed' = killed, (Going(n) => Going(n)' \/ Listed(n)'),
             \A k \in Targets : \A g \in OpenIn(Md(k)) :
                g \in OpenIn(Md(k))' \/ (g \in OpenIn(Md(n))' /\ Counts(n)')
      PROVE  Wants'
  <2>1. ASSUME NEW g \in wanted' PROVE (\E k \in Targets : Counts(k) /\ Lists(k, g))'
    <3>1. PICK k \in Targets : Counts(k) /\ Lists(k, g)
      BY <1>n, GoalsBefore DEF Wants
    <3>2. Counts(k)'
      <4>1. killed # {} => killed' # {}
        BY <1>n
      <4>2. Going(k) => Going(k)' \/ Listed(k)'
        BY <1>a, <1>e, <1>n DEF Going
      <4>3. Coming(k) => Coming(k)'
        BY <1>a, <1>d DEF Coming, At, Merged
      <4>4. Listed(k) => Listed(k)' \/ Going(k)'
        BY <1>d, ListedBeside
      <4>. QED  BY <4>1, <4>2, <4>3, <4>4, <3>1 DEF Counts
    <3>3. CASE g \in OpenIn(Md(k))
      BY <3>2, <3>3, <1>g, <1>n DEF Lists
    <3>4. CASE g \notin OpenIn(Md(k))
      <4>1. PICK q \in Procs : /\ At(q, "report", "fill") /\ cmd[q].file = Md(k)
                               /\ g \in cmd[q].text.open
        BY <3>1, <3>4 DEF Lists
      <4>2. Lists(k, g)'
        BY <4>1, <1>a, <1>d DEF Lists, At
      <4>. QED  BY <3>2, <4>2
    <3>. QED  BY <3>3, <3>4
  <2>. QED  BY <2>1 DEF Wants
<1>l. yaml' = yaml => \A k \in Targets : Listed(k) => Listed(k)'
  BY DEF Listed, Live, Has
<1>m. doc' = doc => \A k \in Targets : OpenIn(Md(k)) = OpenIn(Md(k))'
  BY DEF OpenIn
<1>1. CASE MergeLock(p)
  <2>1. /\ cmd[p].at = "lock" /\ wanted' = wanted /\ UNCHANGED <<yaml, doc>>
        /\ cmd'[p].op = "merge" /\ cmd'[p].name = n /\ cmd'[p].file = Md(m)
        /\ cmd'[p].at \in {"lock", "read"}
    BY <1>1, <1>b, <1>d, <1>e, <1>f, <1>g DEF MergeLock, At, Onward, Goto, Commands, files
  <2>2. cmd'[p].at # "lock" => mlock'[Md(m)] = p /\ mlock'[Md(n)] = p
    <3>1. PICK f \in {Md(n), Md(m)} :
             /\ LockDoc(p, f)
             /\ Onward(p, IF \E g \in {Md(n), Md(m)} \ {f} : mlock[g] = p
                          THEN "read" ELSE "lock")
      BY <1>1, <1>f, <1>g DEF MergeLock
    <3>2. mlock \in [Files -> Procs \union {Nobody}] /\ mlock' = [mlock EXCEPT ![f] = p]
      BY <3>1 DEF LockDoc, TypeInv, TypeOK
    <3>3. CASE \E g \in {Md(n), Md(m)} \ {f} : mlock[g] = p
      <4>1. PICK g \in {Md(n), Md(m)} \ {f} : mlock[g] = p
        BY <3>3
      <4>2. mlock'[f] = p /\ mlock'[g] = p
        BY <3>2, <4>1, <1>i
      <4>. QED  BY <4>1, <4>2
    <3>4. CASE ~\E g \in {Md(n), Md(m)} \ {f} : mlock[g] = p
      BY <3>1, <3>4, <1>b DEF Onward, Goto, Commands
    <3>. QED  BY <3>3, <3>4
  <2>. QED  BY <2>1, <2>2, <1>f, <1>j, <1>k, <1>l, <1>m DEF Merging, Working, Leaving
<1>2. CASE MergeRead(p)
  <2>1. CASE Fail(p)
    BY <1>2, <2>1, QuietGoals DEF MergeRead, Pivot, Leaving, At
  <2>2. CASE ~Fail(p)
    <3>. DEFINE c == [cmd[p] EXCEPT !.at = "archive", !.was = yaml, !.text = doc[Md(n)],
                                    !.other = doc[Md(m)]]
    <3>1. /\ cmd[p].at = "read" /\ wanted' = wanted /\ UNCHANGED <<yaml, doc, mlock>>
          /\ doc[Md(n)] # NoDoc /\ doc[Md(m)] # NoDoc /\ Goto(p, c)
      BY <1>2, <2>2, <1>f, <1>g DEF MergeRead, At, files
    <3>2. /\ c.op = "merge" /\ c.at = "archive" /\ c.name = n /\ c.file = Md(m)
          /\ c.text = doc[Md(n)] /\ c.other = doc[Md(m)]
      BY <1>b, <1>d, <1>e, <1>f DEF Commands
    <3>. HIDE DEF c
    <3>3. cmd'[p] = c
      BY <3>1, <1>b DEF Goto
    <3>4. OpenIn(Md(n))' = cmd'[p].text.open /\ OpenIn(Md(m))' = cmd'[p].other.open
      BY <3>1, <3>2, <3>3 DEF OpenIn
    <3>. QED
      BY <3>1, <3>2, <3>3, <3>4, <1>f, <1>h, <1>j, <1>k, <1>l, <1>m
      DEF Merging, Leaving, Passed
  <2>. QED  BY <2>1, <2>2
<1>3. CASE MergeArchive(p)
  <2>1. /\ cmd[p].at = "archive" /\ wanted' = wanted /\ UNCHANGED <<yaml, mlock>>
        /\ cmd'[p].op = "merge" /\ cmd'[p].name = n /\ cmd'[p].file = Md(m) /\ cmd'[p].at = "parent"
        /\ cmd'[p].text = cmd[p].text /\ cmd'[p].other = cmd[p].other
        /\ doc' = [doc EXCEPT ![Archive(n)] = cmd[p].text]
    BY <1>3, <1>b, <1>e, <1>f DEF MergeArchive, At, Onward, Goto, Commands
  <2>2. \A k \in Targets : doc'[Md(k)] = doc[Md(k)]
    BY <2>1, <1>c, <1>i
  <2>3. \A k \in Targets : OpenIn(Md(k)) = OpenIn(Md(k))'
    BY <2>2 DEF OpenIn
  <2>. QED
    BY <2>1, <2>3, <1>f, <1>g, <1>h, <1>j, <1>k, <1>l
    DEF Merging, Working, Leaving, Passed
<1>4. CASE MergeParent(p)
  <2>1. /\ cmd[p].at = "parent" /\ wanted' = wanted /\ UNCHANGED <<yaml, mlock>>
        /\ cmd'[p].op = "merge" /\ cmd'[p].name = n /\ cmd'[p].file = Md(m) /\ cmd'[p].at = "yaml"
        /\ cmd'[p].text = cmd[p].text /\ cmd'[p].other = cmd[p].other
    BY <1>4, <1>b, <1>e, <1>f DEF MergeParent, At, Onward, Goto, Commands
  <2>2. PICK d : /\ d = [cmd[p].other EXCEPT !.open = @ \union Pending(cmd[p].text, cmd[p].other)]
                 /\ doc' = [doc EXCEPT ![Md(m)] = d]
    BY <1>4, <1>f DEF MergeParent
  <2>3. d \in Docs /\ d.open = cmd[p].other.open \union Pending(cmd[p].text, cmd[p].other)
    <3>1. cmd[p].text \in Docs /\ cmd[p].other \in Docs
      BY Hands
    <3>. QED  BY <2>2, <3>1 DEF Docs, Pending
  <2>4. doc'[Md(m)] = d /\ \A k \in Targets \ {m} : doc'[Md(k)] = doc[Md(k)]
    BY <2>2, <1>c, <1>i
  <2>5. /\ OpenIn(Md(m))' = cmd[p].other.open \union Pending(cmd[p].text, cmd[p].other)
        /\ \A k \in Targets \ {m} : OpenIn(Md(k))' = OpenIn(Md(k))
    BY <2>3, <2>4, <1>c DEF OpenIn
  <2>6. \A k \in Targets : OpenIn(Md(k)) \subseteq OpenIn(Md(k))'
    BY <2>1, <2>5, <1>h DEF Working, Merging, Passed
  <2>7. Pending(cmd[p].text, cmd[p].other)' = Pending(cmd[p].text, cmd[p].other)
    BY <2>1 DEF Pending
  <2>8. OpenIn(Md(n))' = OpenIn(Md(n))
    BY <2>5, <1>f, <1>g
  <2>. QED
    BY <2>1, <2>5, <2>6, <2>7, <2>8, <1>f, <1>g, <1>h, <1>j, <1>k, <1>l
    DEF Merging, Working, Leaving, Passed
<1>5. CASE MergeYaml(p)
  <2>1. /\ cmd[p].at = "yaml" /\ wanted' = wanted /\ UNCHANGED <<doc, mlock>>
        /\ cmd'[p].op = "merge" /\ cmd'[p].name = n /\ cmd'[p].file = Md(m) /\ cmd'[p].at = "unlink"
        /\ cmd'[p].text = cmd[p].text /\ cmd'[p].other = cmd[p].other
    BY <1>5, <1>b, <1>e, <1>f DEF MergeYaml, At, Onward, Goto, Commands
  <2>2. Listed(m)'
    <3>1. \A k \in Names \ {n} : yaml'.subs[k] = yaml.subs[k]
      BY <1>5, <2>1, <1>c, <1>e, <1>g DEF MergeYaml, With, Records, Leaving
    <3>. QED  BY <3>1, <1>f DEF Listed, Live, Has
  <2>3. Pending(cmd[p].text, cmd[p].other)' = Pending(cmd[p].text, cmd[p].other)
    BY <2>1 DEF Pending
  <2>. QED
    BY <2>1, <2>2, <2>3, <1>g, <1>h, <1>j, <1>k, <1>m
    DEF Merging, Working, Leaving, Passed
<1>6. CASE MergeUnlink(p)
  <2>1. /\ cmd[p].at = "unlink" /\ yaml' = yaml /\ Leave(p) /\ killed' = killed
        /\ doc' = [doc EXCEPT ![Md(n)] = NoDoc]
        /\ wanted' = wanted \ (cmd[p].text.open \intersect cmd[p].other.done)
    BY <1>6, <1>g DEF MergeUnlink, At, Return
  <2>2. \A k \in Targets \ {n} : OpenIn(Md(k))' = OpenIn(Md(k))
    <3>1. \A k \in Targets \ {n} : doc'[Md(k)] = doc[Md(k)]
      BY <2>1, <1>c, <1>i
    <3>. QED  BY <3>1 DEF OpenIn
  <2>3. Listed(m)'
    BY <2>1, <1>f, <1>l
  <2>4. ASSUME NEW g \in wanted' PROVE (\E k \in Targets : Counts(k) /\ Lists(k, g))'
    <3>1. PICK k \in Targets : Counts(k) /\ Lists(k, g)
      BY <2>1, <2>4, GoalsBefore DEF Wants
    <3>2. CASE k # n
      <4>1. Counts(k)'
        <5>1. killed # {} => killed' # {}
          BY <2>1
        <5>2. Going(k) => Going(k)'
          BY <3>2, <1>a, <1>e DEF Going
        <5>3. Coming(k) => Coming(k)'
          BY <1>a, <1>d DEF Coming, At, Merged
        <5>4. Listed(k) => Listed(k)'
          BY <2>1, <1>l
        <5>. QED  BY <5>1, <5>2, <5>3, <5>4, <3>1 DEF Counts
      <4>2. Lists(k, g)'
        <5>1. CASE g \in OpenIn(Md(k))
          BY <5>1, <3>2, <2>2 DEF Lists
        <5>2. CASE g \notin OpenIn(Md(k))
          <6>1. PICK q \in Procs : /\ At(q, "report", "fill") /\ cmd[q].file = Md(k)
                                   /\ g \in cmd[q].text.open
            BY <3>1, <5>2 DEF Lists
          <6>. QED  BY <6>1, <1>a, <1>d DEF Lists, At
        <5>. QED  BY <5>1, <5>2
      <4>. QED  BY <4>1, <4>2
    <3>3. CASE k = n
      <4>1. g \in OpenIn(Md(n))
        <5>. SUFFICES ASSUME g \notin OpenIn(Md(n)) PROVE FALSE  OBVIOUS
        <5>1. PICK q \in Procs : At(q, "report", "fill") /\ cmd[q].file = Md(n)
          BY <3>1, <3>3 DEF Lists
        <5>2. mlock[Md(n)] = q
          BY <5>1, GoalsBefore DEF Keeps, Opens, At, Writers
        <5>. QED  BY <5>1, <5>2, <2>1, <1>d, <1>h DEF At
      <4>2. g \in OpenIn(Md(m))
        BY <4>1, <2>1, <2>4, <1>h DEF Pending, Working, Merging, Passed
      <4>3. g \in OpenIn(Md(m))'
        BY <4>2, <2>2, <1>f
      <4>. QED  BY <4>3, <2>3 DEF Counts, Lists
    <3>. QED  BY <3>2, <3>3
  <2>5. Wants'
    BY <2>4 DEF Wants
  <2>. QED  BY <2>1, <2>5, LeavesLoose
<1>7. CASE MergeFail(p)
  <2>1. /\ cmd[p].at \in Working \ {"restore", "revert"} /\ wanted' = wanted /\ killed' = killed
        /\ UNCHANGED <<yaml, mlock>>
        /\ doc' = doc \/ doc' = [doc EXCEPT ![Archive(n)] = Blank]
        /\ cmd'[p].op = "merge" /\ cmd'[p].name = n /\ cmd'[p].file = Md(m) /\ cmd'[p].at = "restore"
        /\ cmd'[p].text = cmd[p].text /\ cmd'[p].other = cmd[p].other
    BY <1>7, <1>b, <1>d, <1>e, <1>f DEF MergeFail, Onward, Goto, Commands, Working, Merging
  <2>2. \A k \in Targets : doc'[Md(k)] = doc[Md(k)]
    BY <2>1, <1>c, <1>i
  <2>3. \A k \in Targets : OpenIn(Md(k))' = OpenIn(Md(k))
    BY <2>2 DEF OpenIn
  <2>4. Going(n)'
    BY <2>1 DEF Going, Leaving
  <2>5. Passed(cmd[p]) \subseteq Passed(cmd[p])'
    BY <2>1 DEF Passed, Pending
  <2>6. Wants'
    BY <2>1, <2>3, <2>4, <1>n
  <2>. QED  BY <2>1, <2>3, <2>5, <2>6, <1>f, <1>g, <1>h, <1>j, <1>l DEF Merging, Working
<1>8. CASE MergeRestore(p)
  <2>1. /\ cmd[p].at = "restore" /\ wanted' = wanted /\ killed' = killed
        /\ UNCHANGED <<yaml, mlock>> /\ doc' = [doc EXCEPT ![Md(m)] = cmd[p].other]
        /\ cmd'[p].op = "merge" /\ cmd'[p].name = n /\ cmd'[p].file = Md(m) /\ cmd'[p].at = "revert"
        /\ cmd'[p].text = cmd[p].text /\ cmd'[p].other = cmd[p].other
    BY <1>8, <1>b, <1>e, <1>f DEF MergeRestore, At, Onward, Goto, Commands
  <2>2. /\ OpenIn(Md(m))' = cmd[p].other.open
        /\ \A k \in Targets \ {m} : OpenIn(Md(k))' = OpenIn(Md(k))
    <3>1. doc'[Md(m)] = cmd[p].other /\ \A k \in Targets \ {m} : doc'[Md(k)] = doc[Md(k)]
      BY <2>1, <1>c, <1>i
    <3>2. cmd[p].other # NoDoc
      BY Hands, NothingAssumption
    <3>. QED  BY <3>1, <3>2 DEF OpenIn
  <2>3. OpenIn(Md(n))' = cmd[p].text.open /\ OpenIn(Md(n))' = OpenIn(Md(n))
    BY <2>1, <2>2, <1>f, <1>g, <1>h DEF Working, Merging
  <2>4. Going(n)'
    BY <2>1 DEF Going, Leaving
  <2>5. OpenIn(Md(m)) \subseteq cmd[p].other.open \union Pending(cmd[p].text, cmd[p].other)
    BY <2>1, <1>h DEF Working, Merging, Passed
  <2>6. \A k \in Targets : \A g \in OpenIn(Md(k)) :
           g \in OpenIn(Md(k))' \/ (g \in OpenIn(Md(n))' /\ Counts(n)')
    BY <2>2, <2>3, <2>4, <2>5 DEF Pending, Counts
  <2>7. Wants'
    BY <2>1, <2>4, <2>6, <1>n
  <2>. QED
    BY <2>1, <2>2, <2>3, <2>7, <1>f, <1>g, <1>h, <1>j, <1>l DEF Merging, Working, Passed
<1>9. CASE MergeRevert(p)
  <2>1. /\ cmd[p].at = "revert" /\ wanted' = wanted /\ killed' = killed
        /\ UNCHANGED <<doc, mlock>> /\ yaml' = cmd[p].seen
        /\ cmd'[p].op = "merge" /\ cmd'[p].name = n /\ cmd'[p].file = Md(m) /\ cmd'[p].at = "discard"
    BY <1>9, <1>b, <1>e, <1>f, <1>g DEF MergeRevert, At, Onward, Goto, Commands
  <2>2. Listed(n)'
    BY <2>1, <1>g DEF Listed, Live, Has
  <2>3. Listed(m)'
    <3>1. Listed(m)' \/ Going(m)'
      BY <1>d, <1>f, ListedBeside
    <3>2. ~Going(m)'
      <4>. SUFFICES ASSUME NEW q \in Procs, cmd'[q].op = "merge", cmd'[q].at \in Leaving,
                           cmd'[q].name = m
                    PROVE  FALSE
        BY DEF Going
      <4>1. q # p
        BY <2>1 DEF Leaving
      <4>2. Recording(cmd[q]) /\ Recording(cmd[p])
        BY <4>1, <1>a, <1>d DEF Recording, Merging, Leaving
      <4>. QED  BY <4>1, <4>2 DEF LockInv
    <3>. QED  BY <3>1, <3>2
  <2>4. \A k \in Targets : OpenIn(Md(k))' = OpenIn(Md(k))
    BY <2>1, <1>m
  <2>5. Wants'
    BY <2>1, <2>2, <2>4, <1>n
  <2>. QED  BY <2>1, <2>3, <2>5, <1>h, <1>j DEF Merging, Working
<1>10. CASE MergeDiscard(p)
  <2>1. /\ cmd[p].at = "discard" /\ wanted' = wanted /\ Leave(p)
        /\ doc' = [doc EXCEPT ![Archive(n)] = NoDoc]
    BY <1>10, <1>e DEF MergeDiscard, At, Return
  <2>2. \A k \in Targets : doc'[Md(k)] = doc[Md(k)]
    BY <2>1, <1>c, <1>i
  <2>3. \A k \in Targets : OpenIn(Md(k)) = OpenIn(Md(k))'
    BY <2>2 DEF OpenIn
  <2>. QED  BY <2>1, <2>3, <1>k, LeavesLoose DEF Leaving
<1>. QED  BY <1>1, <1>2, <1>3, <1>4, <1>5, <1>6, <1>7, <1>8, <1>9, <1>10

(* What runs alone moves a document with its name.                          *)
LEMMA MoveGoals ==
    ASSUME TypeInv, LockInv, HoldInv, DocInv, GoalInv, NEW p \in Procs, Acts(p),
           ~overlap', killed' \intersect {"rename", "remove", "report"} = {},
           RenameMd(p) \/ RenameYaml(p) \/ RemoveMd(p) \/ RemoveYaml(p)
    PROVE  Wants' /\ Keeps(p, cmd[p])'
<1>a. /\ ~overlap /\ Owned(yaml) /\ Founding /\ (~yaml.made => doc[Md(Main)] = NoDoc)
      /\ Holds(cmd[p]) /\ Kept(cmd[p]) /\ Keeps(p, cmd[p])
      /\ \A r \in Procs \ {p} : cmd'[r] = cmd[r]
  BY GoalsBefore
<1>b. cmd \in [Procs -> Commands] /\ cmd[p] \in Commands /\ Shape(cmd[p])
  BY Here DEF TypeInv, TypeOK
<1>c. /\ yaml \in Records /\ doc \in [Files -> Docs \union {NoDoc}]
      /\ NoEntry \notin Entries /\ NoDoc \notin Docs /\ Stub \in Docs /\ Blank \in Docs
  BY Values, NothingAssumption DEF TypeInv, TypeOK
<1>d. /\ cmd[p].op \in {"rename", "remove"} /\ cmd[p].at \in {"md", "yaml"} /\ killed' = killed
      /\ cmd[p].op \in Unlocked /\ Busy(p) /\ cmd'[p].op \in {"rename", "remove", "none"}
  <2>1. /\ cmd[p].op \in {"rename", "remove"} /\ cmd[p].at \in {"md", "yaml"} /\ killed' = killed
    BY DEF RenameMd, RenameYaml, RemoveMd, RemoveYaml, At, Fail, Return, Onward, Goto
  <2>2. cmd[p].op \in Unlocked /\ Busy(p)
    BY <2>1 DEF Unlocked, Busy
  <2>3. cmd'[p].op \in {cmd[p].op, "none"}
    <3>1. ~\E c \in Commands : Call(p, c)
      BY <2>2 DEF Call
    <3>. QED  BY <3>1, Course
  <2>. QED  BY <2>1, <2>2, <2>3
<1>e. \A q \in Procs : q # p => cmd[q].op = "none" /\ cmd'[q] = cmd[q]
  BY <1>a, <1>d, GoalsBefore DEF Alone, Busy
<1>f. PICK n \in Names : n = cmd[p].name
  BY <1>b, <1>d DEF Shape
<1>g. /\ Has(yaml, n) /\ yaml.subs[n] \in Entries /\ yaml.subs[n].file \in {Md(n), Archive(n)}
      /\ ~yaml.subs[n].archived => yaml.subs[n].file = Md(n)
      /\ n \in Targets /\ Merged(p) = cmd[p].seen.subs[n] /\ yaml.subs[n].file \in Files
      /\ cmd[p].op = "remove" \/ cmd[p].at = "md" => cmd[p].seen = yaml
  BY <1>a, <1>c, <1>d, <1>f, Values DEF Holds, Copies, Merged, Owned, Has, Records
<1>h. ASSUME NEW g \in wanted
      PROVE  \E k \in Targets : g \in OpenIn(Md(k)) /\ (killed # {} \/ Listed(k) \/ Coming(k))
  <2>1. PICK k \in Targets : Counts(k) /\ Lists(k, g)
    BY <1>h, GoalsBefore DEF Wants
  <2>2. g \in OpenIn(Md(k))
    BY <2>1, <1>d, <1>e DEF Lists, At
  <2>3. ~Going(k)
    BY <1>d, <1>e DEF Going, At
  <2>. QED  BY <2>1, <2>2, <2>3 DEF Counts
<1>i. ASSUME \A g \in wanted' : \E k \in Targets :
                g \in OpenIn(Md(k))' /\ (killed # {} \/ Listed(k)' \/ Coming(k)')
      PROVE  Wants'
  <2>1. ASSUME NEW k \in Targets, killed # {} \/ Listed(k)' \/ Coming(k)' PROVE Counts(k)'
    BY <2>1, <1>d DEF Counts
  <2>2. ASSUME NEW k \in Targets, NEW g \in OpenIn(Md(k))' PROVE Lists(k, g)'
    BY <2>2 DEF Lists
  <2>3. ASSUME NEW g \in wanted' PROVE (\E k \in Targets : Counts(k) /\ Lists(k, g))'
    BY <2>1, <2>2, <2>3, <1>i
  <2>. QED  BY <2>3 DEF Wants
<1>j. /\ \A k \in Targets : Md(k) \in Files /\ Md(k) # Archive(n) /\ (Md(k) = Md(n) => k = n)
      /\ cmd[p].op = "rename" =>
            cmd[p].to \in Names /\ cmd[p].to \in Targets /\ ~Has(yaml, cmd[p].to)
  BY <1>a, <1>b, <1>d, Values, NamesApart DEF Shape, Holds
<1>k. ~Coming(n) \/ cmd[p].at = "yaml"
  BY <1>d, <1>e DEF Coming, At
<1>l. ASSUME NEW k \in Targets, ~Listed(k), killed = {}, Coming(k)
      PROVE  cmd[p].op = "rename" /\ cmd[p].at = "yaml" /\ cmd[p].to = k /\ ~Merged(p).archived
  BY <1>e, <1>l DEF Coming, At
<1>1. CASE Fail(p) /\ ~Pivot(cmd[p])
  BY <1>1, QuietGoals
<1>2. CASE RenameMd(p) /\ ~Fail(p)
  <2>1. /\ cmd[p].op = "rename" /\ cmd[p].at = "md" /\ UNCHANGED <<yaml, wanted>>
    BY <1>2 DEF RenameMd, At, files
  <2>2. PICK m \in Names : m = cmd[p].to /\ m \in Targets
    BY <2>1, <1>j
  <2>3. \A k \in Targets : Listed(k) => Listed(k)'
    BY <2>1 DEF Listed, Live, Has
  <2>4. ASSUME NEW g \in wanted'
        PROVE  \E k \in Targets : g \in OpenIn(Md(k)) /\ (killed # {} \/ Listed(k))
    BY <2>1, <2>4, <1>h, <1>l
  <2>. DEFINE Stays == /\ doc' = doc /\ Onward(p, "yaml")
                       /\ doc[yaml.subs[n].file] = NoDoc \/ Md(m) = yaml.subs[n].file
  <2>5. CASE Stays
    <3>1. /\ cmd'[p].op = "rename" /\ cmd'[p].at = "yaml" /\ cmd'[p].name = n /\ cmd'[p].seen = yaml
      BY <2>1, <2>5, <1>b, <1>f, <1>g DEF Onward, Goto, Commands
    <3>2. \A k \in Targets : OpenIn(Md(k))' = OpenIn(Md(k))
      BY <2>5 DEF OpenIn
    <3>3. Wants'
      BY <2>3, <2>4, <3>2, <1>i
    <3>4. n # m
      BY <2>1, <2>2, <1>g, <1>j
    <3>5. ~yaml.subs[n].archived => doc[Md(n)] = NoDoc
      BY <2>2, <2>5, <3>4, <1>g, <1>j
    <3>6. ~yaml.subs[n].archived => OpenIn(Md(n))' = {}
      BY <2>5, <3>5 DEF OpenIn
    <3>7. ~cmd'[p].seen.subs[cmd'[p].name].archived => OpenIn(Md(cmd[p].name))' = {}
      <4>1. OpenIn(Md(cmd[p].name))' = OpenIn(Md(n))'
        BY <3>1 DEF OpenIn
      <4>. QED  BY <3>1, <3>6, <4>1
    <3>. QED  BY <3>1, <3>3, <3>7 DEF Keeps, Aims, Opens, Writers, Making, Merging
  <2>6. CASE ~Stays
    <3>0. PICK f \in Files : f = yaml.subs[n].file /\ f = Merged(p).file
      BY <2>1, <1>g
    <3>1. /\ doc' = [doc EXCEPT ![Md(m)] = doc[f], ![f] = NoDoc] /\ f # Md(m)
          /\ doc[Md(m)] = NoDoc
          /\ cmd' = [cmd EXCEPT ![p] = [cmd[p] EXCEPT !.at = "yaml",
                                            !.seen.subs[cmd[p].name].file = Md(m)]]
      BY <1>2, <2>2, <2>6, <3>0 DEF RenameMd, Goto, files
    <3>2. /\ cmd'[p].op = "rename" /\ cmd'[p].at = "yaml" /\ cmd'[p].name = n /\ cmd'[p].to = m
          /\ cmd'[p].seen = [cmd[p].seen EXCEPT !.subs[cmd[p].name].file = Md(m)]
      BY <3>1, <2>1, <2>2, <1>b, <1>f DEF Commands
    <3>3. cmd'[p].seen.subs[n].archived = yaml.subs[n].archived
      <4>1. cmd'[p].seen = Moved(yaml, n, m)
        BY <3>2, <2>1, <1>f, <1>g DEF Moved, With
      <4>. QED  BY <4>1, <1>c, <1>g DEF Moved, With, Records, Entries
    <3>4. /\ doc'[Md(m)] = doc[f] /\ doc'[f] = NoDoc
          /\ \A k \in Targets : Md(k) # Md(m) /\ Md(k) # f => doc'[Md(k)] = doc[Md(k)]
      BY <3>0, <3>1, <2>2, <1>c, <1>j
    <3>5. /\ OpenIn(Md(m)) = {}
          /\ \A k \in Targets : Md(k) # Md(m) /\ Md(k) # f => OpenIn(Md(k))' = OpenIn(Md(k))
      <4>1. OpenIn(Md(m)) = {}
        BY <3>1 DEF OpenIn
      <4>2. ASSUME NEW k \in Targets, Md(k) # Md(m), Md(k) # f PROVE OpenIn(Md(k))' = OpenIn(Md(k))
        <5>1. doc'[Md(k)] = doc[Md(k)]
          BY <3>4, <4>2
        <5>. QED  BY <5>1 DEF OpenIn
      <4>. QED  BY <4>1, <4>2
    <3>6. OpenIn(Md(m))' = OpenIn(f)
      BY <3>4 DEF OpenIn
    <3>7. ASSUME NEW g \in wanted'
          PROVE  \E k \in Targets :
                    g \in OpenIn(Md(k))' /\ (killed # {} \/ Listed(k)' \/ Coming(k)')
      <4>1. PICK k \in Targets : g \in OpenIn(Md(k)) /\ (killed # {} \/ Listed(k))
        BY <2>4, <3>7
      <4>2. CASE Md(k) = f
        <5>1. k = n
          BY <3>0, <4>2, <1>g, <1>j
        <5>2. g \in OpenIn(Md(m))'
          BY <4>1, <4>2, <3>6
        <5>3. killed # {} \/ ~yaml.subs[n].archived
          BY <4>1, <5>1, NamesAssumption DEF Listed, Live
        <5>4. ~yaml.subs[n].archived => Coming(m)'
          BY <3>2, <3>3 DEF Coming, At, Merged
        <5>. QED  BY <5>2, <5>3, <5>4, <2>2
      <4>3. CASE Md(k) # f
        <5>1. g \in OpenIn(Md(k))'
          BY <4>1, <4>3, <3>5
        <5>. QED  BY <4>1, <5>1, <2>3
      <4>. QED  BY <4>2, <4>3
    <3>8. Wants'
      BY <3>7, <1>i
    <3>9. ~cmd'[p].seen.subs[cmd'[p].name].archived => OpenIn(Md(cmd[p].name))' = {}
      <4>1. ~yaml.subs[n].archived => f = Md(n)
        BY <3>0, <1>g
      <4>2. ~yaml.subs[n].archived => doc'[Md(n)] = NoDoc
        BY <4>1, <3>4
      <4>. QED  BY <4>2, <3>2, <3>3 DEF OpenIn
    <3>. QED  BY <3>2, <3>8, <3>9 DEF Keeps, Aims, Opens, Writers, Making, Merging
  <2>. QED  BY <2>5, <2>6
<1>3. CASE RenameYaml(p)
  <2>1. /\ cmd[p].op = "rename" /\ cmd[p].at = "yaml" /\ UNCHANGED <<doc, wanted>>
        /\ yaml' = Renamed(cmd[p].seen, n, cmd[p].to)
        /\ cmd'[p].op = "rename" /\ cmd'[p].at = "sessions"
    BY <1>3, <1>b, <1>f DEF RenameYaml, At, Onward, Goto, Commands
  <2>2. PICK m \in Names : m = cmd[p].to /\ m \in Targets /\ m # n
    BY <2>1, <1>g, <1>j
  <2>3. PICK y \in Records : y = cmd[p].seen /\ y = Moved(yaml, n, m)
    BY <2>1, <2>2, <1>a, <1>b, <1>f DEF Kept, Commands
  <2>4. /\ y.subs[n] \in Entries /\ y.subs[n].archived = yaml.subs[n].archived
        /\ \A k \in Names \ {n} : y.subs[k] = yaml.subs[k]
    BY <2>3, <2>2, <1>c, <1>g, Values DEF Moved, With, Records, Entries
  <2>5. \A k \in Targets \ {n} : Listed(k) => Listed(k)'
    <3>1. ASSUME NEW k \in Names, k # n, Live(yaml, k) PROVE Live(yaml', k)
      <4>1. k # m
        BY <3>1, <2>1, <2>2, <1>j DEF Live
      <4>2. y.subs[k] # NoEntry /\ ~y.subs[k].archived
        BY <3>1, <2>4 DEF Live, Has
      <4>3. yaml'.subs[k] \in Entries /\ ~yaml'.subs[k].archived
        BY <3>1, <4>1, <4>2, <2>1, <2>2, <2>3, RenamedOne
      <4>. QED  BY <4>3, <1>c DEF Live, Has
    <3>. QED  BY <3>1 DEF Listed, Live, Has
  <2>6. ~yaml.subs[n].archived => Listed(m)' /\ OpenIn(Md(n)) = {}
    <3>1. y.subs[n] # NoEntry
      BY <2>4, <1>c
    <3>2. yaml'.subs[m] \in Entries /\ yaml'.subs[m].archived = y.subs[n].archived
      BY <3>1, <2>1, <2>2, <2>3, RenamedOne
    <3>3. ~yaml.subs[n].archived => OpenIn(Md(n)) = {}
      BY <2>1, <2>3, <2>4, <1>a, <1>f DEF Keeps
    <3>. QED  BY <3>2, <3>3, <2>4, <1>c DEF Listed, Live, Has
  <2>7. ASSUME NEW g \in wanted'
        PROVE  \E k \in Targets : g \in OpenIn(Md(k))' /\ (killed # {} \/ Listed(k)' \/ Coming(k)')
    <3>1. PICK k \in Targets : g \in OpenIn(Md(k)) /\ (killed # {} \/ Listed(k) \/ Coming(k))
      BY <2>1, <2>7, <1>h
    <3>2. g \in OpenIn(Md(k))'
      BY <3>1, <2>1 DEF OpenIn
    <3>3. CASE killed = {} /\ Listed(k)
      <4>1. k # n
        BY <3>1, <3>3, <2>6, NamesAssumption DEF Listed, Live
      <4>. QED  BY <4>1, <3>2, <3>3, <2>5
    <3>4. CASE killed = {} /\ ~Listed(k)
      <4>1. k = m /\ ~Merged(p).archived
        BY <3>1, <3>4, <2>2, <1>l
      <4>2. ~yaml.subs[n].archived
        BY <4>1, <2>3, <2>4, <1>g
      <4>. QED  BY <4>1, <4>2, <3>2, <2>6
    <3>. QED  BY <3>2, <3>3, <3>4
  <2>8. Loose(cmd[p])'
    BY <2>1 DEF Loose, Aims, Making, Merging, Writers
  <2>. QED  BY <2>7, <2>8, <1>i, LooseKeeps
<1>4. CASE RemoveMd(p)
  <2>. DEFINE f == yaml.subs[n].file
  <2>1. /\ cmd[p].op = "remove" /\ cmd[p].at = "md" /\ yaml' = yaml /\ cmd[p].seen = yaml
        /\ doc' = [doc EXCEPT ![f] = NoDoc]
        /\ wanted' = IF doc[f] = NoDoc THEN wanted ELSE wanted \ doc[f].open
        /\ cmd'[p].op = "remove" /\ cmd'[p].at = "yaml" /\ cmd'[p].name = n
        /\ cmd'[p].seen = cmd[p].seen
    BY <1>4, <1>b, <1>d, <1>f, <1>g DEF RemoveMd, At, Onward, Goto, Commands
  <2>2. f \in Files
    BY <1>g
  <2>. HIDE DEF f
  <2>3. /\ doc'[f] = NoDoc /\ \A k \in Targets : Md(k) # f => doc'[Md(k)] = doc[Md(k)]
    BY <2>1, <2>2, <1>c
  <2>4. \A k \in Targets : Md(k) # f => OpenIn(Md(k))' = OpenIn(Md(k))
    BY <2>3 DEF OpenIn
  <2>5. \A g \in wanted' : g \in wanted /\ g \notin OpenIn(f)
    BY <2>1 DEF OpenIn
  <2>6. ASSUME NEW g \in wanted'
        PROVE  \E k \in Targets : g \in OpenIn(Md(k))' /\ (killed # {} \/ Listed(k)' \/ Coming(k)')
    <3>1. PICK k \in Targets : g \in OpenIn(Md(k)) /\ (killed # {} \/ Listed(k))
      BY <2>1, <2>5, <2>6, <1>h, <1>l
    <3>2. g \in OpenIn(Md(k))'
      BY <3>1, <2>4, <2>5
    <3>3. Listed(k) => Listed(k)'
      BY <2>1 DEF Listed, Live, Has
    <3>. QED  BY <3>1, <3>2, <3>3
  <2>7. OpenIn(cmd[p].seen.subs[cmd[p].name].file)' = {}
    <3>1. cmd'[p].seen.subs[cmd'[p].name].file = f
      BY <2>1 DEF f
    <3>. QED  BY <3>1, <2>3 DEF OpenIn
  <2>. QED  BY <2>1, <2>6, <2>7, <1>i DEF Keeps, Aims, Opens, Writers, Making, Merging
<1>5. CASE RemoveYaml(p)
  <2>1. /\ cmd[p].op = "remove" /\ cmd[p].at = "yaml" /\ UNCHANGED <<doc, wanted>>
        /\ yaml' = With(yaml, n, NoEntry) /\ Leave(p) /\ cmd[p].seen = yaml
    BY <1>5, <1>d, <1>f, <1>g DEF RemoveYaml, At, Return
  <2>2. OpenIn(yaml.subs[n].file) = {}
    BY <2>1, <1>a, <1>f DEF Keeps
  <2>3. \A k \in Targets \ {n} : Listed(k) => Listed(k)'
    <3>1. \A k \in Names \ {n} : yaml'.subs[k] = yaml.subs[k]
      BY <2>1, <1>c, WithOne
    <3>. QED  BY <3>1 DEF Listed, Live, Has
  <2>4. ASSUME NEW g \in wanted'
        PROVE  \E k \in Targets : g \in OpenIn(Md(k))' /\ (killed # {} \/ Listed(k)' \/ Coming(k)')
    <3>1. PICK k \in Targets : g \in OpenIn(Md(k)) /\ (killed # {} \/ Listed(k))
      BY <2>1, <2>4, <1>h, <1>l
    <3>2. g \in OpenIn(Md(k))'
      BY <3>1, <2>1 DEF OpenIn
    <3>3. CASE killed = {} /\ k = n
      <4>1. yaml.subs[n].file = Md(n)
        BY <3>1, <3>3, <1>g, NamesAssumption DEF Listed, Live
      <4>. QED  BY <3>1, <3>3, <4>1, <2>2
    <3>. QED  BY <3>1, <3>2, <3>3, <2>3
  <2>. QED  BY <2>1, <2>4, <1>i, LeavesLoose
<1>. QED
  BY <1>1, <1>2, <1>3, <1>4, <1>5, <1>d DEF RenameMd, At, Pivot

(* Entries: a goal written goes where the record lists it, and what a       *)
(* report takes out for a moment it has at hand.                            *)
LEMMA EntryGoals ==
    ASSUME TypeInv, LockInv, HoldInv, DocInv, GoalInv, NEW p \in Procs, Acts(p),
           ~overlap', killed' \intersect {"rename", "remove", "report"} = {},
           Target(p) \/ Read(p) \/ GoalWrite(p) \/ DecisionWrite(p) \/ ReportTruncate(p)
           \/ ReportFill(p)
    PROVE  Wants' /\ Keeps(p, cmd[p])'
<1>a. /\ ~overlap /\ Owned(yaml) /\ Founding /\ (~yaml.made => doc[Md(Main)] = NoDoc)
      /\ Holds(cmd[p]) /\ Kept(cmd[p]) /\ Keeps(p, cmd[p])
      /\ \A r \in Procs \ {p} : cmd'[r] = cmd[r]
  BY GoalsBefore
<1>b. cmd \in [Procs -> Commands] /\ cmd[p] \in Commands /\ Shape(cmd[p])
  BY Here DEF TypeInv, TypeOK
<1>c. /\ yaml \in Records /\ doc \in [Files -> Docs \union {NoDoc}]
      /\ NoEntry \notin Entries /\ NoDoc \notin Docs /\ Stub \in Docs /\ Blank \in Docs
  BY Values, NothingAssumption DEF TypeInv, TypeOK
<1>d. /\ cmd[p].op \in Writers /\ UNCHANGED <<yaml, killed>>
      /\ cmd[p].at \in {"go", "read", "write", "fill"}
  BY DEF Target, Read, GoalWrite, DecisionWrite, ReportTruncate, ReportFill, Stamping,
     Fail, Return,
         Onward, Goto, At, Writers, files
<1>e. \A k \in Targets : Counts(k) => Counts(k)'
  <2>1. TAKE k \in Targets
  <2>2. Listed(k) => Listed(k)'
    BY <1>d DEF Listed, Live, Has
  <2>3. Going(k) => Going(k)'
    BY <1>a, <1>d DEF Going, At, Writers
  <2>4. Coming(k) => Coming(k)'
    BY <1>a, <1>d DEF Coming, At, Merged, Writers
  <2>. QED  BY <2>2, <2>3, <2>4, <1>d DEF Counts
<1>f. ASSUME \A g \in wanted' : \E k \in Targets : Counts(k) /\ Lists(k, g)' PROVE Wants'
  <2>1. ASSUME NEW g \in wanted' PROVE (\E k \in Targets : Counts(k) /\ Lists(k, g))'
    BY <2>1, <1>e, <1>f
  <2>. QED  BY <2>1 DEF Wants
<1>g. ASSUME NEW k \in Targets, NEW g, Lists(k, g), g \notin OpenIn(Md(k)),
             ~(cmd[p].op = "report" /\ cmd[p].at = "fill" /\ cmd[p].file = Md(k))
      PROVE  Lists(k, g)'
  <2>1. PICK q \in Procs : At(q, "report", "fill") /\ cmd[q].file = Md(k) /\ g \in cmd[q].text.open
    BY <1>g DEF Lists
  <2>2. q # p
    BY <2>1, <1>g DEF At
  <2>. QED  BY <2>1, <2>2, <1>a DEF Lists, At
<1>h. \A g \in wanted : \E k \in Targets : Counts(k) /\ Lists(k, g)
  BY GoalsBefore DEF Wants
<1>i. \A k \in Targets : Md(k) \in Files
  BY Values
<1>1. CASE Fail(p) /\ ~Pivot(cmd[p])
  BY <1>1, QuietGoals
<1>2. CASE Target(p) /\ ~Fail(p)
  <2>. DEFINE t == IF cmd[p].op = "goal" THEN cmd[p].name ELSE sess[cmd[p].on].sub
  <2>1. PICK n : n = t
    OBVIOUS
  <2>2. /\ Resolves(yaml, n) /\ UNCHANGED <<doc, wanted>>
        /\ cmd' = [cmd EXCEPT ![p] = [cmd[p] EXCEPT !.at = "read", !.file = FileOf(yaml, n)]]
    BY <2>1, <1>2 DEF Target, Goto, files
  <2>. HIDE DEF t
  <2>3. /\ n \in Targets /\ yaml.made /\ Listed(n) /\ FileOf(yaml, n) = Md(n)
        /\ n = Main \/ Has(yaml, n)
    BY <2>2, <1>a, <1>c, FileTyped DEF Resolves, Listed, FileOf, Owned, Live, Has
  <2>4. cmd'[p].op = cmd[p].op /\ cmd'[p].at = "read" /\ cmd'[p].file = Md(n)
    BY <2>2, <2>3, <1>b DEF Commands
  <2>5. \A k, g : Lists(k, g) => Lists(k, g)'
    <3>1. ASSUME NEW k, NEW g, Lists(k, g) PROVE Lists(k, g)'
      <4>1. OpenIn(Md(k))' = OpenIn(Md(k))
        BY <2>2 DEF OpenIn
      <4>2. ~At(p, "report", "fill")
        BY <1>2 DEF Target, At
      <4>. QED  BY <3>1, <4>1, <4>2, <1>a DEF Lists, At
    <3>. QED  BY <3>1
  <2>6. Wants'
    BY <2>2, <2>5, <1>f, <1>h
  <2>7. Fits(cmd[p], n)' /\ yaml'.made /\ (n = Main \/ Has(yaml, n)')
    BY <2>3, <1>d DEF Fits, Listed, Live, Has
  <2>. QED  BY <2>3, <2>4, <2>6, <2>7, <1>d DEF Keeps, Aims, Opens, Writers, Making, Merging
<1>3. CASE ~Target(p)
  <2>1. Aims(cmd[p]) /\ yaml.made
    BY <1>3, <1>a DEF Keeps, Aims, Read, GoalWrite, DecisionWrite, ReportTruncate,
       ReportFill, At, Writers
  <2>2. PICK n \in Targets : cmd[p].file = Md(n) /\ (n = Main \/ Has(yaml, n)) /\ Fits(cmd[p], n)
    BY <2>1, <1>a DEF Keeps
  <2>3. Md(n) \in Files /\ \A k \in Targets : Md(k) = Md(n) => k = n
    BY <1>i, NamesApart
  <2>4. yaml'.made /\ (n = Main \/ Has(yaml, n)')
    BY <2>1, <2>2, <1>d DEF Has
  <2>5. ASSUME Opens(cmd[p])
        PROVE  /\ mlock[Md(n)] = p
               /\ OpenIn(Md(n)) = IF cmd[p].at = "write" THEN cmd[p].text.open ELSE {}
    BY <2>2, <2>5, <1>a DEF Keeps
  <2>6. ASSUME NEW d \in Docs, doc' = [doc EXCEPT ![Md(n)] = d]
        PROVE  /\ OpenIn(Md(n))' = d.open
               /\ \A k \in Targets \ {n} : OpenIn(Md(k))' = OpenIn(Md(k))
    <3>1. doc'[Md(n)] = d /\ \A k \in Targets \ {n} : doc'[Md(k)] = doc[Md(k)]
      BY <2>3, <2>6, <1>c, <1>i
    <3>. QED  BY <3>1, <1>c DEF OpenIn
  <2>7. cmd[p].text \in Docs /\ Blank.open = {} /\ Blank.section = FALSE
    BY Hands DEF Blank, Stub
  <2>8. Stamping(p) => Keeps(p, cmd[p])'
    <3>. SUFFICES ASSUME Stamping(p) PROVE Keeps(p, cmd[p])'  OBVIOUS
    <3>1. cmd'[p].at = "touch"
      BY <1>b DEF Stamping, Goto, Commands
    <3>. QED  BY <3>1, LooseKeeps DEF Loose, Aims, Merging
  <2>9. CASE Read(p) /\ ~Fail(p)
    <3>. DEFINE d == doc[Md(n)]
                e == IF d = NoDoc THEN Blank ELSE d
    <3>1. /\ cmd[p].at = "read" /\ mlock[Md(n)] = Nobody /\ mlock' = [mlock EXCEPT ![Md(n)] = p]
          /\ UNCHANGED <<doc, wanted>> /\ (cmd[p].op = "goal" => d # NoDoc /\ d.section)
          /\ cmd' = [cmd EXCEPT ![p] = [cmd[p] EXCEPT !.at = "write", !.text = e]]
      BY <2>2, <2>9 DEF Read, LockDoc, Goto, files
    <3>2. /\ cmd'[p].op = cmd[p].op /\ cmd'[p].at = "write" /\ cmd'[p].file = Md(n)
          /\ cmd'[p].text = e
      BY <2>2, <3>1, <1>b DEF Commands
    <3>3. mlock'[Md(n)] = p
      BY <2>3, <3>1 DEF TypeInv, TypeOK
    <3>4. OpenIn(Md(n))' = e.open
      BY <3>1, <2>7 DEF OpenIn
    <3>5. ~Going(n)
      <4>. SUFFICES ASSUME NEW q \in Procs, cmd[q].op = "merge", cmd[q].at \in Leaving, cmd[q].name = n
                    PROVE  FALSE
        BY DEF Going
      <4>1. mlock[Md(n)] = q
        BY GoalsBefore DEF Keeps, Leaving, Merging
      <4>. QED  BY <4>1, <3>1, NobodyAssumption
    <3>6. killed # {} \/ Listed(n) \/ ~e.section
      BY <2>2, <2>7, <3>1, <3>5 DEF Fits, Plain
    <3>7. Fits(cmd[p], n)'
      BY <3>2, <3>6, <1>d DEF Fits, Listed, Live, Has
    <3>8. cmd[p].op = "goal" => e.section
      BY <3>1
    <3>. HIDE DEF e, d
    <3>9. \A k, g : Lists(k, g) => Lists(k, g)'
      <4>1. ASSUME NEW k, NEW g, Lists(k, g) PROVE Lists(k, g)'
        <5>1. OpenIn(Md(k))' = OpenIn(Md(k))
          BY <3>1 DEF OpenIn
        <5>2. ~At(p, "report", "fill")
          BY <3>1 DEF At
        <5>. QED  BY <4>1, <5>1, <5>2, <1>a DEF Lists, At
      <4>. QED  BY <4>1
    <3>10. Wants'
      BY <3>1, <3>9, <1>f, <1>h
    <3>11. OpenIn(cmd[p].file)' = e.open
      BY <3>2, <3>4 DEF OpenIn
    <3>. QED
      BY <2>4, <3>2, <3>3, <3>7, <3>8, <3>10, <3>11, <1>d DEF Keeps, Aims, Opens,
         Writers, Making, Merging
  <2>10. CASE GoalWrite(p) /\ ~Fail(p)
    <3>1. PICK e \in Edited(cmd[p].text, cmd[p].edit, cmd[p].goal) :
             /\ cmd[p].op = "goal" /\ cmd[p].at = "write" /\ doc' = [doc EXCEPT ![Md(n)] = e]
             /\ wanted' = (wanted \ (cmd[p].text.open \ e.open)) \union (e.open \ cmd[p].text.open)
             /\ Stamping(p)
      BY <2>2, <2>10 DEF GoalWrite, At
    <3>2. e \in Docs
      <4>1. cmd[p].goal \in Goals
        BY <3>1, <1>b DEF Shape
      <4>. QED  BY <4>1, <3>1, <2>7, EditedTyped
    <3>3. /\ OpenIn(Md(n)) = cmd[p].text.open /\ OpenIn(Md(n))' = e.open
          /\ \A k \in Targets \ {n} : OpenIn(Md(k))' = OpenIn(Md(k))
      BY <3>1, <3>2, <2>5, <2>6 DEF Opens, Writers
    <3>4. Counts(n)
      <4>1. cmd[p].text.section
        BY <3>1, <1>a DEF Keeps
      <4>. QED  BY <4>1, <3>1, <2>2 DEF Fits, Counts
    <3>5. ASSUME NEW g \in wanted' PROVE \E k \in Targets : Counts(k) /\ Lists(k, g)'
      <4>1. CASE g \in e.open
        BY <4>1, <3>3, <3>4 DEF Lists
      <4>2. CASE g \notin e.open
        <5>1. g \in wanted /\ g \notin OpenIn(Md(n))
          BY <4>2, <3>1, <3>3, <3>5
        <5>2. PICK k \in Targets : Counts(k) /\ Lists(k, g)
          BY <5>1, <1>h
        <5>3. CASE g \in OpenIn(Md(k))
          BY <5>1, <5>2, <5>3, <3>3 DEF Lists
        <5>4. CASE g \notin OpenIn(Md(k))
          BY <5>2, <5>4, <3>1, <1>g
        <5>. QED  BY <5>3, <5>4
      <4>. QED  BY <4>1, <4>2
    <3>. QED  BY <3>1, <3>5, <2>8, <1>f
  <2>11. CASE DecisionWrite(p) \/ ReportFill(p)
    <3>1. /\ Opens(cmd[p]) /\ doc' = [doc EXCEPT ![Md(n)] = cmd[p].text] /\ wanted' = wanted
          /\ Stamping(p)
      BY <2>2, <2>11 DEF DecisionWrite, ReportFill, At, Opens, Writers
    <3>2. /\ OpenIn(Md(n))' = cmd[p].text.open
          /\ \A k \in Targets \ {n} : OpenIn(Md(k))' = OpenIn(Md(k))
      BY <3>1, <2>6, <2>7
    <3>3. OpenIn(Md(n)) \subseteq OpenIn(Md(n))'
      BY <3>1, <3>2, <2>5
    <3>4. ASSUME NEW g \in wanted' PROVE \E k \in Targets : Counts(k) /\ Lists(k, g)'
      <4>1. PICK k \in Targets : Counts(k) /\ Lists(k, g)
        BY <3>1, <3>4, <1>h
      <4>2. CASE g \in OpenIn(Md(k))
        <5>1. g \in OpenIn(Md(k))'
          BY <4>2, <3>2, <3>3
        <5>. QED  BY <4>1, <5>1 DEF Lists
      <4>3. CASE /\ g \notin OpenIn(Md(k))
                 /\ ~(cmd[p].op = "report" /\ cmd[p].at = "fill" /\ cmd[p].file = Md(k))
        BY <4>1, <4>3, <1>g
      <4>4. CASE g \notin OpenIn(Md(k)) /\ cmd[p].file = Md(k)
        <5>1. k = n
          BY <4>4, <2>2, <2>3
        <5>2. CASE g \in cmd[p].text.open
          BY <5>1, <5>2, <4>1, <3>2 DEF Lists
        <5>3. CASE g \notin cmd[p].text.open
          <6>1. PICK q \in Procs : /\ At(q, "report", "fill") /\ cmd[q].file = Md(k)
                                   /\ g \in cmd[q].text.open
            BY <4>1, <4>4 DEF Lists
          <6>2. q # p
            BY <6>1, <5>3
          <6>. QED  BY <6>1, <6>2, <4>1, <1>a DEF Lists, At
        <5>. QED  BY <5>2, <5>3
      <4>. QED  BY <4>2, <4>3, <4>4
    <3>. QED  BY <3>1, <3>4, <2>8, <1>f
  <2>12. CASE ReportTruncate(p)
    <3>1. /\ cmd[p].op = "report" /\ cmd[p].at = "write" /\ doc' = [doc EXCEPT ![Md(n)] = Blank]
          /\ UNCHANGED <<mlock, wanted>> /\ cmd' = [cmd EXCEPT ![p] = [cmd[p] EXCEPT !.at = "fill"]]
      BY <2>2, <2>12 DEF ReportTruncate, At, Onward, Goto
    <3>2. /\ cmd'[p].op = "report" /\ cmd'[p].at = "fill" /\ cmd'[p].file = Md(n)
          /\ cmd'[p].text = cmd[p].text
      BY <2>2, <3>1, <1>b DEF Commands
    <3>3. mlock'[Md(n)] = p /\ OpenIn(Md(n)) = cmd[p].text.open
      BY <3>1, <2>5 DEF Opens, Writers
    <3>4. /\ OpenIn(Md(n))' = {}
          /\ \A k \in Targets \ {n} : OpenIn(Md(k))' = OpenIn(Md(k))
      BY <3>1, <2>6, <2>7, <1>c
    <3>5. Fits(cmd[p], n)'
      BY <2>2, <3>1, <3>2, <1>d DEF Fits, Listed, Live, Has
    <3>6. ASSUME NEW g \in wanted' PROVE \E k \in Targets : Counts(k) /\ Lists(k, g)'
      <4>1. PICK k \in Targets : Counts(k) /\ Lists(k, g)
        BY <3>1, <3>6, <1>h
      <4>2. CASE g \in OpenIn(Md(k)) /\ k # n
        BY <4>1, <4>2, <3>4 DEF Lists
      <4>3. CASE g \in OpenIn(Md(k)) /\ k = n
        <5>1. At(p, "report", "fill")' /\ g \in cmd'[p].text.open
          BY <4>3, <3>2, <3>3 DEF At
        <5>. QED  BY <5>1, <4>1, <4>3, <3>2 DEF Lists
      <4>4. CASE g \notin OpenIn(Md(k))
        BY <4>1, <4>4, <3>1, <1>g
      <4>. QED  BY <4>2, <4>3, <4>4
    <3>7. OpenIn(cmd[p].file)' = {}
      BY <3>2, <3>4 DEF OpenIn
    <3>. QED
      BY <2>4, <3>2, <3>3, <3>5, <3>6, <3>7, <1>f DEF Keeps, Aims, Opens, Writers,
         Making, Merging
  <2>13. Fail(p) => ~Pivot(cmd[p]) \/ ReportFill(p)
    BY <1>3, <1>d DEF Pivot, Writers, Read, GoalWrite, DecisionWrite, ReportTruncate, At
  <2>. QED  BY <2>9, <2>10, <2>11, <2>12, <2>13, <1>1, <1>3
<1>4. Target(p) => ~Pivot(cmd[p])
  BY <1>d DEF Target, Pivot, Writers
<1>. QED  BY <1>1, <1>2, <1>3, <1>4

LEMMA GoalsKept ==
    ASSUME TypeInv, LockInv, HoldInv, DocInv, GoalInv, NEW p \in Procs, Acts(p),
           ~overlap', killed' \intersect {"rename", "remove", "report"} = {}
    PROVE  Wants' /\ (~yaml'.made => doc'[Md(Main)] = NoDoc) /\ \A q \in Procs : Keeps(q, cmd[q])'
<1>1. Wants' /\ Keeps(p, cmd[p])'
  <2>1. Holds(cmd[p])
    BY GoalsBefore
  <2>. QED
    BY <2>1, QuietSteps, QuietGoals, CreateGoals, LookGoals, MergeGoals, MoveGoals,
       EntryGoals
<1>. QED  BY <1>1, MainWaits, KeepsElsewhere

(* A goal that was added stays in a document the record names until it is   *)
(* finished or deleted, for any number of commands, subprojects and goals,  *)
(* within the limits GoalsStay states: a merge takes it over before the     *)
(* branch's document goes, a rollback leaves the branch what it takes back  *)
(* from the parent, a rename moves a document with its name, and nobody     *)
(* writes over a document that he did not read under its lock.              *)
THEOREM GoalsSurvive == Spec => []GoalsStay
<1>1. Init => GoalInv
  <2>. SUFFICES ASSUME Init PROVE GoalInv
    OBVIOUS
  <2>1. PICK i \in Start :
           /\ yaml = i.yaml /\ killed = i.killed
           /\ doc = [f \in Files |-> IF f \in i.docs THEN Stub ELSE NoDoc]
    BY DEF Init
  <2>5. CASE killed = {"rename"}
    BY <2>5 DEF GoalInv
  <2>2. killed = {"rename"} \/ (~yaml.made => doc[Md(Main)] = NoDoc)
    <3>1. ASSUME i = [yaml |-> NoRecord, docs |-> {}, sub |-> Main, killed |-> {}]
          PROVE  doc[Md(Main)] = NoDoc
      BY <2>1, <3>1, Values
    <3>2. ASSUME NEW y \in Records, y.made, NEW r, NEW d, NEW s,
                 i = [yaml |-> [y EXCEPT !.repos = {r}], docs |-> d, sub |-> s, killed |-> {}]
          PROVE  yaml.made
      BY <2>1, <3>2 DEF Records
    <3>3. Founded \in Records /\ Founded.made
      BY Values DEF Founded, NoRecord
    <3>4. ASSUME NEW n \in Names, NEW r \in Repos
          PROVE  With(Founded, n, Branch(n, Main, r)) \in Records
                 /\ With(Founded, n, Branch(n, Main, r)).made
      <4>1. Branch(n, Main, r) \in Entries
        BY Values
      <4>. QED  BY <4>1, <3>3, WithOne
    <3>5. ASSUME NEW n \in Names, NEW m \in Names, NEW r \in Repos,
                 i = [yaml |-> [With(Founded, n, [Regular(n) EXCEPT !.file = Md(m)])
                                   EXCEPT !.repos = {r}],
                      docs |-> {Md(Main), Md(n)}, sub |-> n, killed |-> {"rename"}]
          PROVE  killed = {"rename"}
      BY <2>1, <3>5
    <3>6. \A r \in Repos : \A d, s :
             i = [yaml |-> [Founded EXCEPT !.repos = {r}], docs |-> d, sub |-> s, killed |-> {}]
                => yaml.made
      BY <3>2, <3>3
    <3>7. \A n \in Names, r \in Repos : \A d, s :
             i = [yaml |-> [With(Founded, n, Branch(n, Main, r)) EXCEPT !.repos = {r}],
                  docs |-> d, sub |-> s, killed |-> {}] => yaml.made
      BY <3>2, <3>4
    <3>8. CASE i = [yaml |-> NoRecord, docs |-> {}, sub |-> Main, killed |-> {}]
      BY <3>1, <3>8
    <3>9. CASE \E r \in Repos :
                  i = [yaml |-> [Founded EXCEPT !.repos = {r}], docs |-> {Md(Main)},
                       sub |-> Main, killed |-> {}]
      BY <3>6, <3>9
    <3>10. CASE \E n \in Names, r \in Repos :
                  i = [yaml |-> [With(Founded, n, Branch(n, Main, r)) EXCEPT !.repos = {r}],
                       docs |-> {Md(Main), Md(n)}, sub |-> n, killed |-> {}]
      <4>1. yaml.made
        BY <3>7, <3>10
      <4>. QED  BY <4>1
    <3>11. CASE \E n \in Names, m \in Names, r \in Repos :
                  i = [yaml |-> [With(Founded, n, [Regular(n) EXCEPT !.file = Md(m)])
                                    EXCEPT !.repos = {r}],
                       docs |-> {Md(Main), Md(n)}, sub |-> n, killed |-> {"rename"}]
      <4>1. killed = {"rename"}
        BY <3>5, <3>11
      <4>. QED  BY <4>1
    <3>. QED  BY <3>8, <3>9, <3>10, <3>11, StartKinds
  <2>3. \A p \in Procs : Keeps(p, cmd[p])
    BY DEF Init, Idle, Keeps, Aims, Opens, Writers, Merging, Making
  <2>4. Wants
    BY DEF Init, Wants
  <2>. QED  BY <2>2, <2>3, <2>4, <2>5 DEF GoalInv
<1>2. TypeInv /\ LockInv /\ HoldInv /\ DocInv /\ GoalInv /\ [Next]_vars => GoalInv'
  <2>. SUFFICES ASSUME TypeInv, LockInv, HoldInv, DocInv, GoalInv, [Next]_vars PROVE GoalInv'
    OBVIOUS
  <2>1. CASE UNCHANGED vars
    <3>1. UNCHANGED <<yaml, doc, mlock, cmd, wanted, overlap, killed>>
      BY <2>1 DEF vars, files, history
    <3>2. Wants => Wants'
      BY <3>1 DEF Wants, Counts, Lists, Listed, Going, Coming, At, Merged, OpenIn, Live, Has
    <3>3. ASSUME NEW p \in Procs, Keeps(p, cmd[p]) PROVE Keeps(p, cmd[p])'
      BY <3>1, <3>3 DEF Keeps, OpenIn, Plain, Fits, Going, At, Listed, Live, Has,
         Pending, Passed
    <3>. QED  BY <3>1, <3>2, <3>3 DEF GoalInv
  <2>2. CASE Next
    <3>1. PICK p \in Procs : Acts(p)
      BY <2>2 DEF Next, Acts
    <3>. SUFFICES ASSUME ~overlap', killed' \intersect {"rename", "remove", "report"} = {}
                  PROVE  GoalInv'
      BY Zenon DEF GoalInv
    <3>2. /\ Wants' /\ (~yaml'.made => doc'[Md(Main)] = NoDoc)
          /\ \A q \in Procs : Keeps(q, cmd[q])'
      BY <3>1, GoalsKept
    <3>. QED  BY <3>2 DEF GoalInv
  <2>. QED  BY <2>1, <2>2
<1>3. TypeInv /\ DocInv /\ GoalInv => GoalsStay
  <2>. DEFINE in == IF killed # {} \/ Under("rename") THEN {Md(n) : n \in Targets}
                    ELSE Named \union Closing
              Held == UNION {doc[f].open : f \in {k \in in : doc[k] # NoDoc}}
  <2>. SUFFICES ASSUME TypeInv, DocInv, GoalInv, ~overlap, ~Under("report"),
                       killed \intersect {"rename", "remove"} = {}, NEW g \in wanted
                PROVE  g \in Held
    BY DEF GoalsStay
  <2>1. Wants /\ Owned(yaml) /\ \A p \in Procs : Kept(cmd[p])
    BY DEF GoalInv, DocInv, Under
  <2>2. PICK n \in Targets : Counts(n) /\ Lists(n, g)
    BY <2>1 DEF Wants
  <2>3. doc[Md(n)] # NoDoc /\ g \in doc[Md(n)].open
    BY <2>2 DEF Lists, OpenIn, Under, At
  <2>4. Md(n) \in in
    <3>1. CASE killed # {} \/ Under("rename")
      BY <3>1
    <3>2. CASE killed = {} /\ ~Under("rename")
      <4>1. CASE Listed(n)
        BY <3>2, <4>1, <2>1 DEF Listed, Named, Owned, Live, Has
      <4>2. CASE Going(n)
        <5>1. PICK q \in Procs : cmd[q].op = "merge" /\ cmd[q].at \in Leaving /\ cmd[q].name = n
          BY <4>2 DEF Going
        <5>2. Merged(q).file = Md(n)
          BY <5>1, <2>1 DEF Kept, Merging, Merged, Leaving
        <5>. QED  BY <3>2, <5>1, <5>2 DEF Closing, Leaving
      <4>3. ~Coming(n)
        BY <3>2 DEF Coming, Under, At
      <4>. QED  BY <4>1, <4>2, <4>3, <3>2, <2>2 DEF Counts
    <3>. QED  BY <3>1, <3>2
  <2>. QED  BY <2>3, <2>4
<1>. QED
  BY <1>1, <1>2, <1>3, TypesHold, LocksHold, CommandsHold, DocumentsHold, PTL DEF Spec

=============================================================================
