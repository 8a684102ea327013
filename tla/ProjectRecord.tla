--------------------------- MODULE ProjectRecord ---------------------------
(* One project record: its YAML, its Markdown documents, the repositories  *)
(* it links and the sessions that target it, under the commands that write *)
(* them.  Some take the record's lock for their read and write, some take  *)
(* a document's, and rename, remove, link and relink take none:            *)
(* src/owrap/utils/memory, kind/run/project.py, kind/record, kind/entry.   *)
EXTENDS Naturals, FiniteSets

CONSTANTS
    Names,         \* the ids a subproject can have
    Taken,         \* those reserved, or used in other projects
    Goals,         \* the texts of goals
    Repos,         \* repository ids
    Sessions,      \* the sessions that target the project
    Procs,         \* commands that can run at the same time
    MaxCommands,   \* commands begun, all in all
    MaxKills,      \* kinds of command killed, all in all
    NoEntry, NoDoc, Nobody

Main == "main"
Targets == Names \union {Main}

ASSUME NamesAssumption == Main \notin Names /\ IsFiniteSet(Names) /\ Taken \subseteq Names
ASSUME BudgetAssumption == MaxCommands \in Nat /\ MaxKills \in Nat
ASSUME NobodyAssumption == Nobody \notin Procs

VARIABLES
    yaml,      \* <id>.yaml: whether it exists, its subprojects, its repositories
    doc,       \* the Markdown documents
    catalog,   \* the repositories that have a record
    sess,      \* what each session targets
    ylock,     \* the holder of <id>.yaml.lock
    mlock,     \* the holder of each document's .md.lock
    cmd,       \* the command each process runs
    left,      \* commands that can still begin
    wanted,    \* history: goals added, and not since finished or deleted
    overlap,   \* history: a command without a lock ran beside another one
    killed     \* history: the kinds of command killed, or failing in a rollback

files == <<yaml, doc, catalog, sess>>
history == <<wanted, overlap, killed>>
vars == <<yaml, doc, catalog, sess, ylock, mlock, cmd, left, history>>

-----------------------------------------------------------------------------
Md(n) == <<n, "md">>
Archive(n) == <<n, "archived">>
Files == Targets \X {"md", "archived"}

Entries == [kind : {"regular", "branch"}, parent : Targets, file : Files,
            archived : BOOLEAN, repo : Repos \union {Nobody}]
Regular(n) == [kind |-> "regular", parent |-> Main, file |-> Md(n),
               archived |-> FALSE, repo |-> Nobody]
Branch(n, m, r) == [kind |-> "branch", parent |-> m, file |-> Md(n),
                    archived |-> FALSE, repo |-> r]

(* A document: its goals, and whether it has a Goals section at all.        *)
Docs == [open : SUBSET Goals, done : SUBSET Goals, section : BOOLEAN]
Stub == [open |-> {}, done |-> {}, section |-> TRUE]
Blank == [Stub EXCEPT !.section = FALSE]

ASSUME NothingAssumption == NoEntry \notin Entries /\ NoDoc \notin Docs

NoRecord == [made |-> FALSE, subs |-> [n \in Names |-> NoEntry], repos |-> {}]
Founded == [NoRecord EXCEPT !.made = TRUE]

Has(y, n) == n \in Names /\ y.subs[n] # NoEntry
Live(y, n) == Has(y, n) /\ ~y.subs[n].archived
With(y, n, e) == [y EXCEPT !.subs[n] = e]

(* resolve_memory_target: a subproject is found if it is not archived, its  *)
(* parents lead to main, every linked repository has a record and a branch  *)
(* still has its own among them.                                            *)
Up(y, n) ==
    LET f[k \in 0 .. Cardinality(Names)] ==
            IF k = 0 THEN n
            ELSE IF Has(y, f[k - 1]) THEN y.subs[f[k - 1]].parent
            ELSE f[k - 1]
    IN f[Cardinality(Names)]
Resolves(y, n) ==
    /\ y.made /\ y.repos \subseteq catalog
    /\ \/ n = Main
       \/ /\ Live(y, n) /\ Up(y, n) = Main
          /\ y.subs[n].kind = "branch" => y.subs[n].repo \in y.repos
FileOf(y, n) == IF n = Main THEN Md(Main) ELSE y.subs[n].file

-----------------------------------------------------------------------------
(* Commands and locks.                                                      *)

Ops == {"none", "ensure", "add", "set", "branch", "merge", "rename", "remove", "link",
        "unlink", "found", "catalog", "drop", "relink", "goal", "decision", "report", "risk"}
Steps == {"idle", "go", "sub", "main", "md", "yaml", "select", "point", "lock", "read",
          "archive", "parent", "unlink", "restore", "revert", "discard", "sessions",
          "file", "write", "fill", "touch", "stamp"}
Edits == {"none", "add", "update", "done", "remove", "clear"}

(* What a command was asked (name, to, on, repo, edit, goal), and what it   *)
(* has read: the record, the record again before it writes, the path it     *)
(* works on, and its text and the other document's.                         *)
Idle == [op |-> "none", at |-> "idle", name |-> Main, to |-> Main, on |-> Nobody,
         repo |-> Nobody, new |-> Nobody, edit |-> "none", goal |-> Nobody,
         seen |-> NoRecord, was |-> NoRecord, file |-> Md(Main), text |-> Blank,
         other |-> Blank]
Busy(p) == cmd[p].op # "none"
At(p, op, at) == cmd[p].op = op /\ cmd[p].at = at

(* The commands that write the record without its lock.                     *)
Unlocked == {"rename", "remove", "link", "unlink", "relink", "drop"}

Call(p, c) ==
    /\ ~Busy(p) /\ left > 0
    /\ left' = left - 1
    /\ cmd' = [cmd EXCEPT ![p] = [c EXCEPT !.at = "go"]]
    /\ overlap' = (overlap \/ \E q \in Procs \ {p} :
                       Busy(q) /\ (c.op \in Unlocked \/ cmd[q].op \in Unlocked))
    /\ UNCHANGED <<files, ylock, mlock, wanted, killed>>

CallRecord(p) ==
    \/ \E n \in Targets : Call(p, [Idle EXCEPT !.op = "ensure", !.name = n])
    \/ \E n \in Names, s \in Sessions :
           Call(p, [Idle EXCEPT !.op = "add", !.name = n, !.on = s])
    \/ \E n \in Targets, s \in Sessions :
           Call(p, [Idle EXCEPT !.op = "set", !.name = n, !.on = s])
    \/ \E n \in Names, m \in Targets, r \in Repos :
           Call(p, [Idle EXCEPT !.op = "branch", !.name = n, !.to = m, !.repo = r])
    \/ \E n \in Names, o \in {"merge", "remove"} :
           Call(p, [Idle EXCEPT !.op = o, !.name = n])
    \/ \E n \in Names : \E m \in Names \ {n} :
           Call(p, [Idle EXCEPT !.op = "rename", !.name = n, !.to = m])
CallRepository(p) ==
    \/ \E r \in Repos, o \in {"link", "unlink", "found", "catalog", "drop"} :
           Call(p, [Idle EXCEPT !.op = o, !.repo = r])
    \/ \E r \in Repos : \E q \in Repos \ {r} :
           Call(p, [Idle EXCEPT !.op = "relink", !.repo = r, !.new = q])
CallEntry(p) ==
    \/ \E n \in Targets, g \in Goals, k \in Edits \ {"none"} :
           Call(p, [Idle EXCEPT !.op = "goal", !.name = n, !.edit = k, !.goal = g])
    \/ \E s \in Sessions, o \in {"decision", "report", "risk"} :
           Call(p, [Idle EXCEPT !.op = o, !.on = s])

(* Returning, or failing, gives back the locks; so does being killed.       *)
Leave(p) ==
    /\ cmd' = [cmd EXCEPT ![p] = Idle]
    /\ ylock' = IF ylock = p THEN Nobody ELSE ylock
    /\ mlock' = [f \in Files |-> IF mlock[f] = p THEN Nobody ELSE mlock[f]]
    /\ UNCHANGED <<left, overlap>>
Return(p) == Leave(p) /\ UNCHANGED killed
Fail(p) == Return(p) /\ UNCHANGED <<files, wanted>>

(* A merge whose rollback fails in turn leaves the same.                    *)
Kill(p) ==
    /\ Busy(p) /\ Cardinality(killed) < MaxKills
    /\ killed' = killed \union {cmd[p].op}
    /\ Leave(p)
    /\ UNCHANGED <<files, wanted>>

Goto(p, c) ==
    /\ cmd' = [cmd EXCEPT ![p] = c]
    /\ UNCHANGED <<left, overlap, killed>>
Onward(p, at) == Goto(p, [cmd[p] EXCEPT !.at = at])
LockRecord(p) == ylock = Nobody /\ ylock' = p
LockDoc(p, f) == mlock[f] = Nobody /\ mlock' = [mlock EXCEPT ![f] = p]

-----------------------------------------------------------------------------
(* Creating: ensure_project_exists, project add, branch add.                *)

(* check_new_name.                                                          *)
NewName(y, n) == n \notin Taken /\ ~Has(y, n)

EnsureLock(p) ==
    /\ At(p, "ensure", "go") /\ LockRecord(p)
    /\ yaml' = IF yaml.made THEN yaml ELSE Founded
    /\ Goto(p, [cmd[p] EXCEPT !.at = IF yaml.made THEN "sub" ELSE "main", !.seen = yaml'])
    /\ UNCHANGED <<doc, catalog, sess, mlock, wanted>>

EnsureMain(p) ==
    /\ At(p, "ensure", "main")
    /\ doc' = [doc EXCEPT ![Md(Main)] = Stub]
    /\ Onward(p, "sub")
    /\ UNCHANGED <<yaml, catalog, sess, ylock, mlock, wanted>>

EnsureSub(p) ==
    /\ At(p, "ensure", "sub")
    /\ LET n == cmd[p].name
           fresh == n # Main /\ NewName(cmd[p].seen, n) /\ doc[Md(n)] = NoDoc
       IN \/ ~fresh /\ Fail(p)
          \/ /\ fresh
             /\ doc' = [doc EXCEPT ![Md(n)] = Stub]
             /\ Goto(p, [cmd[p] EXCEPT !.at = "yaml", !.seen = With(@, n, Regular(n))])
             /\ UNCHANGED <<yaml, catalog, sess, ylock, mlock, wanted>>

(* An existing subproject is selected, a new one made.                      *)
AddLook(p) ==
    /\ At(p, "add", "go") /\ ylock = Nobody
    /\ LET n == cmd[p].name
           fresh == NewName(yaml, n) /\ doc[Md(n)] = NoDoc
       IN \/ /\ yaml.made /\ Live(yaml, n)
             /\ Onward(p, "select") /\ UNCHANGED <<files, ylock, mlock, wanted>>
          \/ ~(yaml.made /\ (Live(yaml, n) \/ fresh)) /\ Fail(p)
          \/ /\ yaml.made /\ fresh /\ LockRecord(p)
             /\ Goto(p, [cmd[p] EXCEPT !.at = "md", !.was = yaml,
                                       !.seen = With(yaml, n, Regular(n))])
             /\ UNCHANGED <<files, mlock, wanted>>

BranchLook(p) ==
    /\ At(p, "branch", "go") /\ ylock = Nobody
    /\ LET n == cmd[p].name
           m == cmd[p].to
           allowed == /\ ~Has(yaml, n) /\ doc[Md(n)] = NoDoc
                      /\ Resolves(yaml, m) /\ cmd[p].repo \in yaml.repos
       IN \/ ~allowed /\ Fail(p)
          \/ /\ allowed /\ LockRecord(p)
             /\ Goto(p, [cmd[p] EXCEPT !.at = "md", !.was = yaml,
                                       !.seen = With(yaml, n, Branch(n, m, cmd[p].repo))])
             /\ UNCHANGED <<files, mlock, wanted>>

(* open("x"), then the record.                                              *)
CreateMd(p) ==
    /\ cmd[p].op \in {"add", "branch"} /\ cmd[p].at = "md"
    /\ LET f == Md(cmd[p].name) IN
       \/ doc[f] # NoDoc /\ Fail(p)
       \/ /\ doc[f] = NoDoc
          /\ doc' = [doc EXCEPT ![f] = Stub]
          /\ Onward(p, "yaml")
          /\ UNCHANGED <<yaml, catalog, sess, ylock, mlock, wanted>>

CreateYaml(p) ==
    /\ cmd[p].op \in {"ensure", "add", "branch"} /\ cmd[p].at = "yaml"
    /\ yaml' = cmd[p].seen
    /\ \/ /\ cmd[p].op = "add"
          /\ Goto(p, [cmd[p] EXCEPT !.at = "select", !.seen = NoRecord, !.was = NoRecord])
          /\ ylock' = Nobody /\ UNCHANGED mlock
       \/ cmd[p].op # "add" /\ Return(p)
    /\ UNCHANGED <<doc, catalog, sess, wanted>>

(* The record cannot be written: the document is removed again, and add     *)
(* puts the old record back.                                                *)
CreateFail(p) ==
    /\ cmd[p].op \in {"add", "branch"} /\ cmd[p].at = "yaml"
    /\ yaml' = IF cmd[p].op = "add" THEN cmd[p].was ELSE yaml
    /\ doc' = [doc EXCEPT ![Md(cmd[p].name)] = NoDoc]
    /\ Return(p)
    /\ UNCHANGED <<catalog, sess, wanted>>

-----------------------------------------------------------------------------
(* Selecting: the record is read, then the session file written.            *)

SelectLook(p) ==
    /\ At(p, "add", "select") \/ At(p, "set", "go")
    /\ \/ ~Resolves(yaml, cmd[p].name) /\ Fail(p)
       \/ /\ Resolves(yaml, cmd[p].name)
          /\ Goto(p, [cmd[p] EXCEPT !.at = "point", !.seen = yaml])
          /\ UNCHANGED <<files, ylock, mlock, wanted>>

SelectPoint(p) ==
    /\ cmd[p].at = "point"
    /\ sess' = [sess EXCEPT ![cmd[p].on] = [sub |-> cmd[p].name, repos |-> cmd[p].seen.repos]]
    /\ Return(p)
    /\ UNCHANGED <<yaml, doc, catalog, wanted>>

-----------------------------------------------------------------------------
(* Merging a branch into its parent: under the record's lock and those of   *)
(* both documents; the archive, the parent, the record, and the branch's    *)
(* document removed, all put back when one of them fails.                   *)

Merged(p) == cmd[p].seen.subs[cmd[p].name]    \* the entry of the branch
Pending(branch, parent) == branch.open \ (parent.open \union parent.done)

MergeLook(p) ==
    /\ At(p, "merge", "go") /\ ylock = Nobody
    /\ LET n == cmd[p].name
           e == yaml.subs[n]
           allowed == /\ yaml.made /\ Live(yaml, n) /\ e.kind = "branch"
                      /\ Resolves(yaml, e.parent)
                      /\ doc[e.file] # NoDoc /\ doc[FileOf(yaml, e.parent)] # NoDoc
                      /\ doc[Archive(n)] = NoDoc
       IN \/ ~allowed /\ Fail(p)
          \/ /\ allowed /\ LockRecord(p)
             /\ Goto(p, [cmd[p] EXCEPT !.at = "lock", !.seen = yaml,
                                       !.file = FileOf(yaml, e.parent)])
             /\ UNCHANGED <<files, mlock, wanted>>

(* Mutated: only the parent's lock is taken.                                *)
MergeLockParent(p) ==
    /\ At(p, "merge", "lock") /\ LockDoc(p, cmd[p].file)
    /\ Onward(p, "read")
    /\ UNCHANGED <<files, ylock, wanted>>

(* Two locks, in the order of their paths.  When branch and parent have one *)
(* file it is locked twice, each time anew (filelock.py 17-19): the second  *)
(* waits for the first.                                                     *)
MergeLock(p) ==
    /\ At(p, "merge", "lock")
    /\ \E f \in {Merged(p).file, cmd[p].file} :
        /\ LockDoc(p, f)
        /\ Onward(p, IF \E g \in {Merged(p).file, cmd[p].file} \ {f} : mlock[g] = p
                     THEN "read" ELSE "lock")
    /\ UNCHANGED <<files, ylock, wanted>>

(* Without "apply" it stops here.                                           *)
MergeRead(p) ==
    /\ At(p, "merge", "read")
    /\ LET branch == doc[Merged(p).file]
           parent == doc[cmd[p].file]
           readable == branch # NoDoc /\ parent # NoDoc /\ branch.section /\ parent.section
       IN \/ Fail(p)
          \/ /\ readable
             /\ Goto(p, [cmd[p] EXCEPT !.at = "archive", !.was = yaml,
                                       !.text = branch, !.other = parent])
             /\ UNCHANGED <<files, ylock, mlock, wanted>>

MergeArchive(p) ==
    /\ At(p, "merge", "archive") /\ doc[Archive(cmd[p].name)] = NoDoc
    /\ doc' = [doc EXCEPT ![Archive(cmd[p].name)] = cmd[p].text]
    /\ Onward(p, "parent")
    /\ UNCHANGED <<yaml, catalog, sess, ylock, mlock, wanted>>

MergeParent(p) ==
    /\ At(p, "merge", "parent")
    /\ doc' = [doc EXCEPT ![cmd[p].file] =
                 [cmd[p].other EXCEPT !.open = @ \union Pending(cmd[p].text, cmd[p].other)]]
    /\ Onward(p, "yaml")
    /\ UNCHANGED <<yaml, catalog, sess, ylock, mlock, wanted>>

(* Mutated: the entry keeps naming the document that goes.                  *)
MergeYamlKeepsFile(p) ==
    /\ At(p, "merge", "yaml")
    /\ yaml' = With(cmd[p].seen, cmd[p].name, [Merged(p) EXCEPT !.archived = TRUE])
    /\ Onward(p, "unlink")
    /\ UNCHANGED <<doc, catalog, sess, ylock, mlock, wanted>>

MergeYaml(p) ==
    /\ At(p, "merge", "yaml")
    /\ yaml' = With(cmd[p].seen, cmd[p].name,
                    [Merged(p) EXCEPT !.archived = TRUE, !.file = Archive(cmd[p].name)])
    /\ Onward(p, "unlink")
    /\ UNCHANGED <<doc, catalog, sess, ylock, mlock, wanted>>

(* A goal the parent has done is not taken over.                            *)
MergeUnlink(p) ==
    /\ At(p, "merge", "unlink") /\ doc[Merged(p).file] # NoDoc
    /\ doc' = [doc EXCEPT ![Merged(p).file] = NoDoc]
    /\ wanted' = wanted \ (cmd[p].text.open \intersect cmd[p].other.done)
    /\ Return(p)
    /\ UNCHANGED <<yaml, catalog, sess>>

(* One of the writes fails, the archive's perhaps half done: what was done  *)
(* is put back, in three writes more.                                       *)
MergeFail(p) ==
    /\ cmd[p].op = "merge" /\ cmd[p].at \in {"archive", "parent", "yaml", "unlink"}
    /\ \/ UNCHANGED doc
       \/ /\ cmd[p].at = "archive"
          /\ doc' = [doc EXCEPT ![Archive(cmd[p].name)] = Blank]
    /\ Onward(p, "restore")
    /\ UNCHANGED <<yaml, catalog, sess, ylock, mlock, wanted>>

MergeRestore(p) ==
    /\ At(p, "merge", "restore")
    /\ doc' = [doc EXCEPT ![cmd[p].file] = cmd[p].other]
    /\ Onward(p, "revert")
    /\ UNCHANGED <<yaml, catalog, sess, ylock, mlock, wanted>>

(* Mutated: the record is put back with the text of the document.           *)
MergeRevertSwapped(p) ==
    /\ At(p, "merge", "revert")
    /\ yaml' = cmd[p].other
    /\ Onward(p, "discard")
    /\ UNCHANGED <<doc, catalog, sess, ylock, mlock, wanted>>

MergeRevert(p) ==
    /\ At(p, "merge", "revert")
    /\ yaml' = cmd[p].was
    /\ Onward(p, "discard")
    /\ UNCHANGED <<doc, catalog, sess, ylock, mlock, wanted>>

(* An archive there is its own: there was none when it locked the record.   *)
MergeDiscard(p) ==
    /\ At(p, "merge", "discard")
    /\ doc' = [doc EXCEPT ![Archive(cmd[p].name)] = NoDoc]
    /\ Return(p)
    /\ UNCHANGED <<yaml, catalog, sess, wanted>>

-----------------------------------------------------------------------------
(* Renaming and removing a subproject, without a lock.                      *)

RenameLook(p) ==
    /\ At(p, "rename", "go")
    /\ LET ok == yaml.made /\ Has(yaml, cmd[p].name) /\ ~Has(yaml, cmd[p].to) IN
       \/ ~ok /\ Fail(p)
       \/ /\ ok
          /\ Goto(p, [cmd[p] EXCEPT !.at = "md", !.seen = yaml])
          /\ UNCHANGED <<files, ylock, mlock, wanted>>

RenameMd(p) ==
    /\ At(p, "rename", "md")
    /\ LET f == Merged(p).file
           g == Md(cmd[p].to)
           moves == doc[f] # NoDoc /\ f # g
       IN \/ moves /\ doc[g] # NoDoc /\ Fail(p)
          \/ /\ moves /\ doc[g] = NoDoc
             /\ doc' = [doc EXCEPT ![g] = doc[f], ![f] = NoDoc]
             /\ Goto(p, [cmd[p] EXCEPT !.at = "yaml", !.seen.subs[cmd[p].name].file = g])
             /\ UNCHANGED <<yaml, catalog, sess, ylock, mlock, wanted>>
          \/ ~moves /\ Onward(p, "yaml") /\ UNCHANGED <<files, ylock, mlock, wanted>>

Renamed(y, n, m) ==
    LET moved == [y.subs EXCEPT ![n] = NoEntry, ![m] = y.subs[n]]
    IN [y EXCEPT !.subs = [k \in Names |->
            IF moved[k] # NoEntry /\ moved[k].parent = n
            THEN [moved[k] EXCEPT !.parent = m] ELSE moved[k]]]
RenameYaml(p) ==
    /\ At(p, "rename", "yaml")
    /\ yaml' = Renamed(cmd[p].seen, cmd[p].name, cmd[p].to)
    /\ Onward(p, "sessions")
    /\ UNCHANGED <<doc, catalog, sess, ylock, mlock, wanted>>

(* Mutated: the sessions keep the old name.                                 *)
RenameSessionsNot(p) ==
    /\ At(p, "rename", "sessions")
    /\ Return(p)
    /\ UNCHANGED <<files, wanted>>

RenameSessions(p) ==
    /\ At(p, "rename", "sessions")
    /\ sess' = [s \in Sessions |-> IF sess[s].sub = cmd[p].name
                                   THEN [sess[s] EXCEPT !.sub = cmd[p].to] ELSE sess[s]]
    /\ Return(p)
    /\ UNCHANGED <<yaml, doc, catalog, wanted>>

RemoveLook(p) ==
    /\ At(p, "remove", "go")
    /\ LET ok == yaml.made /\ Has(yaml, cmd[p].name)
                 /\ \A s \in Sessions : sess[s].sub # cmd[p].name
       IN \/ ~ok /\ Fail(p)
          \/ /\ ok
             /\ Goto(p, [cmd[p] EXCEPT !.at = "md", !.seen = yaml])
             /\ UNCHANGED <<files, ylock, mlock, wanted>>

RemoveMd(p) ==
    /\ At(p, "remove", "md")
    /\ LET f == Merged(p).file IN
       /\ doc' = [doc EXCEPT ![f] = NoDoc]
       /\ wanted' = IF doc[f] = NoDoc THEN wanted ELSE wanted \ doc[f].open
    /\ Onward(p, "yaml")
    /\ UNCHANGED <<yaml, catalog, sess, ylock, mlock>>

RemoveYaml(p) ==
    /\ At(p, "remove", "yaml")
    /\ yaml' = With(cmd[p].seen, cmd[p].name, NoEntry)
    /\ Return(p)
    /\ UNCHANGED <<doc, catalog, sess, wanted>>

-----------------------------------------------------------------------------
(* Repositories: found by a dispatch or added by id, linked and unlinked,   *)
(* dropped, renamed.                                                        *)

AddRepository(p) ==
    /\ At(p, "catalog", "go")
    /\ catalog' = catalog \union {cmd[p].repo}
    /\ Return(p)
    /\ UNCHANGED <<yaml, doc, sess, wanted>>

(* One that has a record is linked when the record names this checkout, and *)
(* left alone when it names another.                                        *)
FoundRegister(p) ==
    /\ At(p, "found", "go")
    /\ \/ ~yaml.made /\ Fail(p)
       \/ cmd[p].repo \in catalog /\ Fail(p)
       \/ /\ yaml.made
          /\ catalog' = catalog \union {cmd[p].repo}
          /\ Onward(p, "read")
          /\ UNCHANGED <<yaml, doc, sess, ylock, mlock, wanted>>

FoundRead(p) ==
    /\ At(p, "found", "read") /\ LockRecord(p)
    /\ Goto(p, [cmd[p] EXCEPT !.at = "yaml", !.seen = yaml])
    /\ UNCHANGED <<files, mlock, wanted>>

(* link and unlink, which take no lock.                                     *)
LinkRead(p) ==
    /\ cmd[p].op \in {"link", "unlink"} /\ cmd[p].at = "go"
    /\ LET r == cmd[p].repo
           ok == yaml.made /\ IF cmd[p].op = "link" THEN r \in catalog \ yaml.repos
                              ELSE r \in yaml.repos
       IN \/ ~ok /\ Fail(p)
          \/ /\ ok
             /\ Goto(p, [cmd[p] EXCEPT !.at = "yaml", !.seen = yaml])
             /\ UNCHANGED <<files, ylock, mlock, wanted>>

LinkWrite(p) ==
    /\ cmd[p].op \in {"found", "link", "unlink"} /\ cmd[p].at = "yaml"
    /\ yaml' = [cmd[p].seen EXCEPT !.repos =
                    IF cmd[p].op = "unlink" THEN @ \ {cmd[p].repo}
                    ELSE @ \union {cmd[p].repo}]
    /\ Return(p)
    /\ UNCHANGED <<doc, catalog, sess, wanted>>

DropLook(p) ==
    /\ At(p, "drop", "go")
    /\ LET r == cmd[p].repo
           ok == /\ r \in catalog /\ r \notin yaml.repos
                 /\ \A s \in Sessions : r \notin sess[s].repos
       IN \/ ~ok /\ Fail(p)
          \/ ok /\ Onward(p, "file") /\ UNCHANGED <<files, ylock, mlock, wanted>>

DropRemove(p) ==
    /\ At(p, "drop", "file")
    /\ catalog' = catalog \ {cmd[p].repo}
    /\ Return(p)
    /\ UNCHANGED <<yaml, doc, sess, wanted>>

RelinkMove(p) ==
    /\ At(p, "relink", "go")
    /\ LET ok == cmd[p].repo \in catalog /\ cmd[p].new \notin catalog IN
       \/ ~ok /\ Fail(p)
       \/ /\ ok
          /\ catalog' = catalog \ {cmd[p].repo}
          /\ Onward(p, "file")
          /\ UNCHANGED <<yaml, doc, sess, ylock, mlock, wanted>>

RelinkFile(p) ==
    /\ At(p, "relink", "file")
    /\ catalog' = catalog \union {cmd[p].new}
    /\ Onward(p, "read")
    /\ UNCHANGED <<yaml, doc, sess, ylock, mlock, wanted>>

Swapped(R, r, q) == IF r \in R THEN (R \ {r}) \union {q} ELSE R
Relinked(y, r, q) ==
    [y EXCEPT !.repos = Swapped(@, r, q),
              !.subs = [n \in Names |-> IF Has(y, n) /\ y.subs[n].repo = r
                                        THEN [y.subs[n] EXCEPT !.repo = q] ELSE y.subs[n]]]
RelinkRead(p) ==
    /\ At(p, "relink", "read")
    /\ LET new == Relinked(yaml, cmd[p].repo, cmd[p].new)
       IN Goto(p, [cmd[p] EXCEPT !.at = IF new = yaml THEN "sessions" ELSE "yaml",
                                 !.seen = new])
    /\ UNCHANGED <<files, ylock, mlock, wanted>>

RelinkYaml(p) ==
    /\ At(p, "relink", "yaml")
    /\ yaml' = cmd[p].seen
    /\ Onward(p, "sessions")
    /\ UNCHANGED <<doc, catalog, sess, ylock, mlock, wanted>>

RelinkSessions(p) ==
    /\ At(p, "relink", "sessions")
    /\ sess' = [s \in Sessions |->
                   [sess[s] EXCEPT !.repos = Swapped(@, cmd[p].repo, cmd[p].new)]]
    /\ Return(p)
    /\ UNCHANGED <<yaml, doc, catalog, wanted>>

-----------------------------------------------------------------------------
(* Writing in a document: a goal command, a decision, a context dispatch's  *)
(* report.  The target, any one for a goal and the session's own for the    *)
(* others, is resolved, its document rewritten under its lock, and the      *)
(* record stamped under its own.                                            *)

Writers == {"goal", "decision", "report"}

Target(p) ==
    /\ cmd[p].op \in Writers /\ cmd[p].at = "go"
    /\ LET n == IF cmd[p].op = "goal" THEN cmd[p].name ELSE sess[cmd[p].on].sub IN
       \/ ~Resolves(yaml, n) /\ Fail(p)
       \/ /\ Resolves(yaml, n)
          /\ Goto(p, [cmd[p] EXCEPT !.at = "read", !.file = FileOf(yaml, n)])
          /\ UNCHANGED <<files, ylock, mlock, wanted>>

(* Only the report makes up a document that is missing; only the goals need *)
(* their section.                                                           *)
Read(p) ==
    /\ cmd[p].op \in Writers /\ cmd[p].at = "read" /\ mlock[cmd[p].file] = Nobody
    /\ LET d == doc[cmd[p].file]
           ok == \/ cmd[p].op = "report"
                 \/ d # NoDoc /\ (d.section \/ cmd[p].op = "decision")
       IN \/ ~ok /\ Fail(p)
          \/ /\ ok /\ LockDoc(p, cmd[p].file)
             /\ Goto(p, [cmd[p] EXCEPT !.at = "write", !.text = IF d = NoDoc THEN Blank ELSE d])
             /\ UNCHANGED <<files, ylock, wanted>>

(* What an edit makes of a document; nothing when it matches no goal.       *)
Edited(d, k, g) ==
    CASE k = "add"    -> {[d EXCEPT !.open = @ \union {g}]}
      [] k = "update" -> {[d EXCEPT !.open = (@ \ {h}) \union {g}] : h \in d.open}
                         \union {[d EXCEPT !.done = (@ \ {h}) \union {g}] : h \in d.done}
      [] k = "done"   -> {[d EXCEPT !.open = @ \ {h}, !.done = @ \union {h}] :
                             h \in (d.open \union d.done) \intersect {g}}
      [] k = "remove" -> {[d EXCEPT !.open = @ \ {g}, !.done = @ \ {g}] :
                             h \in (d.open \union d.done) \intersect {g}}
      [] OTHER        -> {[d EXCEPT !.done = {}]}

(* Mutated: the record is stamped before the document is let go.            *)
StampingLocked(p) ==
    /\ Goto(p, [cmd[p] EXCEPT !.at = "touch", !.file = Md(Main), !.text = Blank])
    /\ UNCHANGED <<yaml, catalog, sess, ylock, mlock>>

Stamping(p) ==
    /\ mlock' = [mlock EXCEPT ![cmd[p].file] = Nobody]
    /\ Goto(p, [cmd[p] EXCEPT !.at = "touch", !.file = Md(Main), !.text = Blank])
    /\ UNCHANGED <<yaml, catalog, sess, ylock>>

GoalWrite(p) ==
    /\ At(p, "goal", "write")
    /\ LET d == cmd[p].text IN
       \/ Edited(d, cmd[p].edit, cmd[p].goal) = {} /\ Fail(p)
       \/ \E e \in Edited(d, cmd[p].edit, cmd[p].goal) :
              /\ doc' = [doc EXCEPT ![cmd[p].file] = e]
              /\ wanted' = (wanted \ (d.open \ e.open)) \union (e.open \ d.open)
              /\ Stamping(p)

DecisionWrite(p) ==
    /\ At(p, "decision", "write")
    /\ doc' = [doc EXCEPT ![cmd[p].file] = cmd[p].text]
    /\ Stamping(p) /\ UNCHANGED wanted

(* Not atomic: the file is truncated, then filled.                          *)
ReportTruncate(p) ==
    /\ At(p, "report", "write")
    /\ doc' = [doc EXCEPT ![cmd[p].file] = Blank]
    /\ Onward(p, "fill")
    /\ UNCHANGED <<yaml, catalog, sess, ylock, mlock, wanted>>

ReportFill(p) ==
    /\ At(p, "report", "fill")
    /\ doc' = [doc EXCEPT ![cmd[p].file] = cmd[p].text]
    /\ Stamping(p) /\ UNCHANGED wanted

(* touch_last_updated: read and written back under the record's lock.       *)
TouchRead(p) ==
    /\ cmd[p].op \in Writers /\ cmd[p].at = "touch" /\ ylock = Nobody
    /\ \/ ~yaml.made /\ Fail(p)
       \/ /\ yaml.made /\ LockRecord(p)
          /\ Goto(p, [cmd[p] EXCEPT !.at = "stamp", !.seen = yaml])
          /\ UNCHANGED <<files, mlock, wanted>>

RiskRead(p) ==
    /\ At(p, "risk", "go") /\ ylock = Nobody
    /\ LET n == sess[cmd[p].on].sub
           ok == yaml.made /\ (n = Main \/ Has(yaml, n))
       IN \/ ~ok /\ Fail(p)
          \/ /\ ok /\ LockRecord(p)
             /\ Goto(p, [cmd[p] EXCEPT !.at = "stamp", !.seen = yaml])
             /\ UNCHANGED <<files, mlock, wanted>>

Stamp(p) ==
    /\ cmd[p].at = "stamp"
    /\ yaml' = cmd[p].seen
    /\ Return(p)
    /\ UNCHANGED <<doc, catalog, sess, wanted>>

-----------------------------------------------------------------------------
(* The project does not exist yet, or has its main document; a branch may   *)
(* be open, with the session on it; or a rename was killed once it had      *)
(* moved the document, and done again without it, so that the entry keeps   *)
(* the name of a file that is gone (subproject.py 33-41).                   *)
Start == {[yaml |-> NoRecord, docs |-> {}, sub |-> Main, killed |-> {}]} \union
         {[yaml |-> [Founded EXCEPT !.repos = {r}], docs |-> {Md(Main)}, sub |-> Main,
           killed |-> {}] : r \in Repos} \union
         {[yaml |-> [With(Founded, n, Branch(n, Main, r)) EXCEPT !.repos = {r}],
           docs |-> {Md(Main), Md(n)}, sub |-> n, killed |-> {}] :
             n \in Names, r \in Repos} \union
         {[yaml |-> [With(Founded, n, [Regular(n) EXCEPT !.file = Md(m)])
                        EXCEPT !.repos = {r}],
           docs |-> {Md(Main), Md(n)}, sub |-> n, killed |-> {"rename"}] :
             n \in Names, m \in Names, r \in Repos}

Init ==
    /\ \E i \in Start :
        /\ yaml = i.yaml /\ killed = i.killed
        /\ doc = [f \in Files |-> IF f \in i.docs THEN Stub ELSE NoDoc]
        /\ catalog = i.yaml.repos
        /\ sess = [s \in Sessions |-> [sub |-> i.sub, repos |-> i.yaml.repos]]
    /\ ylock = Nobody /\ mlock = [f \in Files |-> Nobody]
    /\ cmd = [p \in Procs |-> Idle]
    /\ left = MaxCommands /\ wanted = {} /\ overlap = FALSE

Create(p) == EnsureLock(p) \/ EnsureMain(p) \/ EnsureSub(p) \/ AddLook(p) \/ BranchLook(p)
             \/ CreateMd(p) \/ CreateYaml(p) \/ CreateFail(p)
Select(p) == SelectLook(p) \/ SelectPoint(p)
Merge(p) == MergeLook(p) \/ MergeLock(p) \/ MergeRead(p) \/ MergeArchive(p) \/ MergeParent(p)
            \/ MergeYaml(p) \/ MergeUnlink(p) \/ MergeFail(p) \/ MergeRestore(p)
            \/ MergeRevert(p) \/ MergeDiscard(p)
Move(p) == RenameLook(p) \/ RenameMd(p) \/ RenameYaml(p) \/ RenameSessions(p)
           \/ RemoveLook(p) \/ RemoveMd(p) \/ RemoveYaml(p)
Repository(p) == AddRepository(p) \/ FoundRegister(p) \/ FoundRead(p) \/ LinkRead(p)
                 \/ LinkWrite(p) \/ DropLook(p) \/ DropRemove(p) \/ RelinkMove(p)
                 \/ RelinkFile(p) \/ RelinkRead(p) \/ RelinkYaml(p) \/ RelinkSessions(p)
Entry(p) == Target(p) \/ Read(p) \/ GoalWrite(p) \/ DecisionWrite(p) \/ ReportTruncate(p)
            \/ ReportFill(p) \/ TouchRead(p) \/ RiskRead(p) \/ Stamp(p)

Step(p) == Create(p) \/ Select(p) \/ Merge(p) \/ Move(p) \/ Repository(p) \/ Entry(p)
Next == \E p \in Procs : CallRecord(p) \/ CallRepository(p) \/ CallEntry(p)
                         \/ Step(p) \/ Kill(p)

Spec == Init /\ [][Next]_vars

-----------------------------------------------------------------------------
(* Properties.                                                              *)

Records == [made : BOOLEAN, subs : [Names -> Entries \union {NoEntry}], repos : SUBSET Repos]
Commands == [op : Ops, at : Steps, name : Targets, to : Targets,
             on : Sessions \union {Nobody}, repo : Repos \union {Nobody},
             new : Repos \union {Nobody}, edit : Edits, goal : Goals \union {Nobody},
             seen : Records, was : Records, file : Files, text : Docs, other : Docs]

(* The types of the variables.                                              *)
TypeOK ==
    /\ yaml \in Records
    /\ doc \in [Files -> Docs \union {NoDoc}]
    /\ catalog \subseteq Repos
    /\ sess \in [Sessions -> [sub : Targets, repos : SUBSET Repos]]
    /\ ylock \in Procs \union {Nobody}
    /\ mlock \in [Files -> Procs \union {Nobody}]
    /\ cmd \in [Procs -> Commands]
    /\ left \in 0 .. MaxCommands
    /\ wanted \subseteq Goals
    /\ overlap \in BOOLEAN /\ killed \subseteq Ops

Under(o) == o \in killed \/ \E p \in Procs : cmd[p].op = o

(* Every subproject of the record has its document, archived ones included, *)
(* as long as the commands that take no lock run alone: whatever creates,   *)
(* merges, rolls back or is killed between, a document goes only after the  *)
(* record stopped naming it.  rename and remove move it first               *)
(* (subproject.py 38, 83), so one under way or killed is left out.          *)
EntriesHaveDocs ==
    overlap \/ Under("rename") \/ Under("remove")
    \/ \A n \in Names : Has(yaml, n) => doc[yaml.subs[n].file] # NoDoc

(* A goal that was added is in a document the record names, or in the one   *)
(* of a branch under merge, until it is finished or deleted: a merge does   *)
(* not lose the one being added to the branch, nor a rollback one of the    *)
(* parent (branch.py 154-198).  While a rename moves its document, and      *)
(* after a command was killed, it is in a document still, named or not;     *)
(* unless a report was killed, which truncates before it fills, or a rename *)
(* or a remove, which leaves an entry without its document: renamed, it     *)
(* keeps the name of a file (subproject.py 35-41) that a new branch takes,  *)
(* and takes away from both if its record cannot be written (branch.py      *)
(* 116-118).                                                                *)
Named == {Md(Main)} \union {yaml.subs[n].file : n \in {k \in Names : Live(yaml, k)}}
Closing == {Merged(p).file : p \in {q \in Procs :
               cmd[q].op = "merge" /\ cmd[q].at \in {"unlink", "restore", "revert"}}}
GoalsStay ==
    LET in == IF killed # {} \/ Under("rename") THEN {Md(n) : n \in Targets}
              ELSE Named \union Closing
    IN overlap \/ Under("report") \/ killed \intersect {"rename", "remove"} # {}
       \/ wanted \subseteq UNION {doc[f].open : f \in {k \in in : doc[k] # NoDoc}}

(* What a session targets exists, when no command is under way and none     *)
(* was killed: its subproject is in the record, its repositories have one.  *)
(* So do those the project links (repository.py 104, subproject.py 71).     *)
TargetsExist ==
    overlap \/ killed # {} \/ (\E p \in Procs : Busy(p))
    \/ /\ yaml.repos \subseteq catalog
       /\ \A s \in Sessions : /\ sess[s].repos \subseteq catalog
                              /\ sess[s].sub = Main \/ Has(yaml, sess[s].sub)

(* Whom a command waits for: the holder of the record's lock, or of a       *)
(* document's.                                                              *)
NeedsRecord(p) ==
    \/ cmd[p].at = "go" /\ cmd[p].op \in {"ensure", "add", "branch", "merge", "risk"}
    \/ cmd[p].op \in Writers /\ cmd[p].at = "touch"
    \/ At(p, "found", "read")
NeedsDoc(p, f) ==
    \/ cmd[p].op \in Writers /\ cmd[p].at = "read" /\ f = cmd[p].file
    \/ /\ At(p, "merge", "lock") /\ f \in {Merged(p).file, cmd[p].file}
       /\ mlock[f] = p => Merged(p).file = cmd[p].file
WaitsFor(p, q) ==
    \/ NeedsRecord(p) /\ ylock = q
    \/ \E f \in Files : NeedsDoc(p, f) /\ mlock[f] = q

(* Commands, each of which waits for one of them, and so for ever: a merge  *)
(* holds the record while it waits for documents (branch.py 135-157), so    *)
(* one that holds a document must let it go before it stamps the record     *)
(* (entry/__init__.py 28, ctx/records.py 75-94).  There are none, but for   *)
(* the merge that waits for itself, its branch and parent being one file:   *)
(* only after a rename or a remove was killed between the document and the  *)
(* record, or ran beside another command (subproject.py 38-45, 83-87).      *)
Circle(C) == C # {} /\ \A p \in C : \E q \in C : WaitsFor(p, q)
NoneWaitInACircle ==
    \A C \in SUBSET Procs : Circle(C) =>
        /\ \E p \in C : WaitsFor(p, p)
        /\ overlap \/ killed \intersect {"rename", "remove"} # {}
=============================================================================
