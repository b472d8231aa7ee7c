---------------------------- MODULE ModuleInstall ----------------------------
(***************************************************************************)
(* Installing modules (src/runtime/modules.js): a module is downloaded and *)
(* extracted in the staging directory, then the modules it depends on are  *)
(* installed side by side in the same way, and when all are there what is  *)
(* in the staging directory is copied, one module after the other, to the  *)
(* installed modules and removed.                                          *)
(*                                                                         *)
(* Each command is a process of its own; only the directories outlive it.  *)
(* The registry and npm are external: they answer or fail.                 *)
(***************************************************************************)
EXTENDS Naturals, FiniteSets, SequencesExt

CONSTANTS Modules, ModuleVersions,
          Dependencies,       \* for a module and version: the compatible versions
                              \* of each module it depends on
          MaxCommands,        \* bound: install commands
          MaxInstallFailures  \* bound: requests and file operations that fail, and
                              \* processes that are killed

ASSUME InstallAssumption ==
  /\ IsFiniteSet(Modules)
  /\ IsFiniteSet(ModuleVersions) /\ ModuleVersions \subseteq Nat \ {0, 100, 101}
  /\ \A x \in DOMAIN Dependencies : x \in Modules \X ModuleVersions /\ DOMAIN Dependencies[x] \subseteq Modules
  /\ MaxCommands \in Nat /\ MaxInstallFailures \in Nat

VARIABLES archive, extracted,     \* the staging directory: the version of each file and
                                  \* directory, Empty, Broken, or NoVersion if it is not there
          installed, enabled,     \* the modules directory
          tasks,                  \* the calls of installModule, by the path of requests
          moves,                  \* the modules that are being moved, and how far they are
          stagedModules, required,\* variables of the process: required is node's cache
          commands, installFailures,
          tainted,                \* history: this command found a staging directory that
                                  \* was not empty, or installs a module twice
          target, moved, cut      \* history: the module that the last command was for, those
                                  \* it found to move, and those of them not copied

installVars == <<archive, extracted, installed, enabled, tasks, moves, stagedModules, required,
          commands, installFailures, tainted, target, moved, cut>>

NoVersion == 0
Empty == 100
Broken == 101   \* a directory without a description, or an archive that is cut off
None == [m \in Modules |-> NoVersion]
Requires(m, v) == Dependencies[<<m, v>>]
VersionsOf(m) == {v \in ModuleVersions : <<m, v>> \in DOMAIN Dependencies}
Best(S) == CHOOSE v \in S : \A w \in S : w <= v

\* A call: where it is, and the versions that the registry answered.
Tasks == [version : ModuleVersions,
          at : {"download", "rmrf", "mkdir", "tar", "rmArchive", "npm", "resolve", "asking",
                "waiting", "done", "failed"},
          answers : UNION {[S -> ModuleVersions \cup {NoVersion}] : S \in SUBSET Modules}]

InstallTypeOK ==
  /\ archive \in [Modules -> ModuleVersions \cup {NoVersion, Broken}]
  /\ extracted \in [Modules -> ModuleVersions \cup {NoVersion, Empty, Broken}]
  /\ installed \in [Modules -> ModuleVersions \cup {NoVersion, Broken}] /\ enabled \subseteq Modules
  /\ DOMAIN tasks \subseteq Seq(Modules)
  /\ tasks \in [DOMAIN tasks -> Tasks]
  /\ DOMAIN moves \subseteq Modules /\ moves \in [DOMAIN moves -> {"copy", "rmrf", "rmdir"}]
  /\ stagedModules \in [Modules -> ModuleVersions \cup {NoVersion}]
  /\ required \in [Modules -> ModuleVersions \cup {NoVersion}]
  /\ commands \in 0..MaxCommands /\ installFailures \in 0..MaxInstallFailures
  /\ tainted \in BOOLEAN /\ target \subseteq Modules /\ moved \subseteq Modules /\ cut \subseteq Modules

InstallInit ==
  /\ archive = None /\ extracted = None /\ installed = None /\ enabled = {}
  /\ tasks = <<>> /\ moves = <<>> /\ stagedModules = None /\ required = None
  /\ commands = 0 /\ installFailures = 0
  /\ tainted = FALSE /\ target = {} /\ moved = {} /\ cut = {}

NoAnswers == [m \in {} |-> NoVersion]
Task(v) == [version |-> v, at |-> "download", answers |-> NoAnswers]
Idle == DOMAIN tasks = {} /\ DOMAIN moves = {}
Directories == <<archive, extracted, installed, enabled>>
Moving == <<moves, moved, cut>>
History == <<commands, tainted, target, Moving>>

To(p, pc) == tasks' = [tasks EXCEPT ![p].at = pc]

-----------------------------------------------------------------------------
(* Commands *)

Fails == installFailures < MaxInstallFailures /\ installFailures' = installFailures + 1

\* What may be there when the removal of a directory does not end.
Remains(x) == IF x = NoVersion THEN {NoVersion} ELSE {x, Broken, NoVersion}

\* install: of a version of a module, whatever is installed of it already.
install(m, v) ==
  /\ Idle /\ commands < MaxCommands
  /\ commands' = commands + 1
  /\ tasks' = [p \in {<<m>>} |-> Task(v)]
  /\ tainted' = (archive # None \/ extracted # None)
  /\ target' = {m} /\ moved' = {} /\ cut' = {}
  /\ UNCHANGED <<Directories, moves, stagedModules, required, installFailures>>

\* enable links to a module whose description it can read.
enableModule(m) ==
  /\ Idle /\ installed[m] \in ModuleVersions
  /\ enabled' = enabled \cup {m}
  /\ UNCHANGED <<archive, extracted, installed, tasks, stagedModules, required, installFailures, History>>

disableModule(m) ==
  /\ Idle /\ m \in enabled
  /\ enabled' = enabled \ {m}
  /\ UNCHANGED <<archive, extracted, installed, tasks, stagedModules, required, installFailures, History>>

\* uninstall disables the module first, and removes it even if that fails; nobody
\* asks who depends on it.
uninstall(m) ==
  /\ Idle /\ (installed[m] # NoVersion \/ m \in enabled)
  /\ \/ /\ enabled' = enabled \ {m} /\ installed' = [installed EXCEPT ![m] = NoVersion]
        /\ UNCHANGED installFailures
     \/ /\ Fails /\ enabled' \in {enabled, enabled \ {m}}
        /\ \E x \in Remains(installed[m]) : installed' = [installed EXCEPT ![m] = x]
  /\ moved' = {} /\ cut' = {}
  /\ UNCHANGED <<archive, extracted, tasks, moves, stagedModules, required, commands, tainted, target>>

\* The calls are over: the variables of the process are gone, its files are not.
Exits == tasks' = <<>> /\ stagedModules' = None /\ required' = None

-----------------------------------------------------------------------------
(* installModule *)

\* The archive is written to a file that is named after the module alone.
downloadModule(p) ==
  /\ tasks[p].at = "download"
  /\ archive' = [archive EXCEPT ![Last(p)] = tasks[p].version]
  /\ To(p, "rmrf")
  /\ UNCHANGED <<extracted, installed, enabled, stagedModules, required, installFailures, History>>

\* extractModule: remove the directory, make it, unpack into it, remove the
\* archive.  Another task of the same module may do so at the same time.
extractModule(p) ==
  LET m == Last(p)
      Directory(version) == extracted' = [extracted EXCEPT ![m] = version]
      Unpacks == archive[m] \in ModuleVersions /\ extracted[m] # NoVersion
  IN  /\ \/ tasks[p].at = "rmrf" /\ Directory(NoVersion) /\ To(p, "mkdir") /\ UNCHANGED archive
         \/ /\ tasks[p].at = "mkdir" /\ UNCHANGED archive
            /\ \/ extracted[m] = NoVersion /\ Directory(Empty) /\ To(p, "tar")
               \/ extracted[m] # NoVersion /\ UNCHANGED extracted /\ To(p, "failed")
         \/ /\ tasks[p].at = "tar" /\ UNCHANGED archive
            /\ \/ Unpacks /\ Directory(archive[m]) /\ To(p, "rmArchive")
               \/ ~Unpacks /\ UNCHANGED extracted /\ To(p, "failed")
         \/ /\ tasks[p].at = "rmArchive" /\ UNCHANGED extracted
            /\ archive' = [archive EXCEPT ![m] = NoVersion] /\ To(p, "npm")
      /\ UNCHANGED <<installed, enabled, stagedModules, required, installFailures, History>>

\* What may be there of a module's directory in the middle of extractModule.
Unpacked(m) ==
  IF extracted[m] = NoVersion THEN {NoVersion}
  ELSE {extracted[m], Empty, Broken} \cup ({archive[m]} \cap ModuleVersions)

\* What require() gives for a module's devicejs.json: what it gave the first time.
Require(m) ==
  IF required[m] # NoVersion THEN required[m]
  ELSE IF extracted[m] \in ModuleVersions THEN extracted[m] ELSE NoVersion

installModuleNPMDependencies(p) ==
  LET v == Require(Last(p)) IN
  /\ tasks[p].at = "npm"
  /\ required' = [required EXCEPT ![Last(p)] = v]
  /\ To(p, IF v = NoVersion THEN "failed" ELSE "resolve")
  /\ UNCHANGED <<Directories, stagedModules, installFailures, History>>

\* Mutant: only what is installed is looked at, not what is about to be.
ConflictsInstalled(needs) ==
  \E d \in DOMAIN needs : installed[d] # NoVersion /\ installed[d] \notin needs[d]

\* A dependency is installed, or about to be, in a version that is not compatible.
Conflicts(needs) ==
  \E d \in DOMAIN needs : \/ installed[d] # NoVersion /\ installed[d] \notin needs[d]
                          \/ installed[d] = NoVersion /\ stagedModules[d] # NoVersion
                             /\ stagedModules[d] \notin needs[d]

\* All dependencies are looked at together; for those that nobody has staged yet
\* the registry is asked for the version to take.
Resolve(p) ==
  LET needs == Requires(Last(p), required[Last(p)])
      ask == {d \in DOMAIN needs : installed[d] = NoVersion /\ stagedModules[d] = NoVersion}
  IN  /\ tasks[p].at = "resolve"
      /\ IF Conflicts(needs)
           THEN To(p, "failed")
           ELSE tasks' = [tasks EXCEPT ![p].at = "asking", ![p].answers = [d \in ask |-> NoVersion]]
      /\ UNCHANGED <<Directories, stagedModules, required, installFailures, History>>

\* getActualVersion answers: only now is the dependency staged.
getActualVersion(p, d) ==
  LET needs == Requires(Last(p), required[Last(p)])
      found == needs[d] \cap VersionsOf(d)
  IN  /\ tasks[p].at = "asking" /\ d \in DOMAIN tasks[p].answers
      /\ tasks[p].answers[d] = NoVersion
      /\ IF found = {}
           THEN To(p, "failed") /\ UNCHANGED stagedModules
           ELSE /\ tasks' = [tasks EXCEPT ![p].answers[d] = Best(found)]
                /\ stagedModules' = [stagedModules EXCEPT ![d] = Best(found)]
      /\ UNCHANGED <<Directories, required, installFailures, History>>

\* All answers are there: the dependencies are installed side by side.
InstallDependencies(p) ==
  LET answers == tasks[p].answers
      children == {Append(p, d) : d \in DOMAIN answers}
  IN  /\ tasks[p].at = "asking" /\ \A d \in DOMAIN answers : answers[d] # NoVersion
      /\ tasks' = [q \in DOMAIN tasks \cup children |->
           IF q \in children THEN Task(answers[Last(q)])
           ELSE IF q = p THEN [tasks[p] EXCEPT !.at = "waiting"] ELSE tasks[q]]
      /\ tainted' = (tainted \/ \E q \in DOMAIN tasks : Last(q) \in DOMAIN answers)
      /\ UNCHANGED <<Directories, stagedModules, required, commands, installFailures, target, Moving>>

Children(p) == {q \in DOMAIN tasks : Len(q) = Len(p) + 1 /\ IsPrefix(p, q)}

\* One dependency that fails is enough; the others go on all the same.
Settle(p) ==
  /\ tasks[p].at = "waiting"
  /\ \/ (\E q \in Children(p) : tasks[q].at = "failed") /\ To(p, "failed")
     \/ (\A q \in Children(p) : tasks[q].at = "done") /\ To(p, "done")
  /\ UNCHANGED <<Directories, stagedModules, required, installFailures, History>>

\* A request to the registry, npm or a file operation fails, perhaps halfway, or
\* the module is not for this version of DeviceJS.
Fail(p) ==
  LET m == Last(p) IN
  /\ tasks[p].at \notin {"waiting", "done", "failed"} /\ Fails
  /\ tasks[p].at = "asking" => \E d \in DOMAIN tasks[p].answers : tasks[p].answers[d] = NoVersion
  /\ To(p, "failed")
  /\ archive' \in {archive} \cup
       IF tasks[p].at = "download" THEN {[archive EXCEPT ![m] = Broken]} ELSE {}
  /\ extracted' \in {extracted} \cup
       IF tasks[p].at \in {"rmrf", "tar"} THEN {[extracted EXCEPT ![m] = x] : x \in Unpacked(m)} ELSE {}
  /\ required' = IF tasks[p].at = "npm" THEN [required EXCEPT ![m] = Require(m)] ELSE required
  /\ UNCHANGED <<installed, enabled, stagedModules, History>>

-----------------------------------------------------------------------------
(* The end of an install command *)

Root == CHOOSE p \in DOMAIN tasks : Len(p) = 1
Over == DOMAIN tasks # {} /\ \A p \in DOMAIN tasks : tasks[p].at \in {"done", "failed"}

\* Everything that is in the staging directory is moved, also what others left
\* there.  (Of an archive nothing can be copied; it stays.)
moveStagingToInstalled ==
  LET staged == {m \in Modules : extracted[m] # NoVersion} IN
  /\ DOMAIN tasks # {} /\ tasks[Root].at = "done"
  /\ moves' = [m \in staged |-> "copy"] /\ moved' = staged /\ cut' = {}
  /\ Exits
  /\ UNCHANGED <<Directories, commands, installFailures, tainted, target>>

Moved(m) == moves' = [x \in DOMAIN moves \ {m} |-> moves[x]]

\* What may be installed of a module while it is copied: what was there is
\* deleted first.
Copied(m) == {installed[m], NoVersion, Broken} \cup ({extracted[m]} \ {Empty})

\* mv copies one module after the other; that fails when there is none in the
\* directory, and then the directory stays.
mv(m) ==
  /\ moves[m] = "copy"
  /\ \/ /\ extracted[m] # Empty
        /\ installed' = [installed EXCEPT ![m] = extracted[m]]
        /\ moves' = [moves EXCEPT ![m] = "rmrf"]
        /\ UNCHANGED <<cut, installFailures>>
     \/ /\ IF extracted[m] = Empty THEN UNCHANGED installFailures ELSE Fails
        /\ \E x \in Copied(m) : installed' = [installed EXCEPT ![m] = x]
        /\ Moved(m) /\ cut' = cut \cup {m}
  /\ UNCHANGED <<archive, extracted, enabled, tasks, stagedModules, required, commands, tainted, target, moved>>

\* When all are copied each is removed from the staging directory, and then its
\* directory there.
rmrf(m) ==
  /\ \A x \in DOMAIN moves : moves[x] # "copy"
  /\ \/ /\ moves[m] = "rmrf" /\ extracted' = [extracted EXCEPT ![m] = Empty]
        /\ moves' = [moves EXCEPT ![m] = "rmdir"]
        /\ UNCHANGED installFailures
     \/ /\ moves[m] = "rmdir" /\ extracted' = [extracted EXCEPT ![m] = NoVersion]
        /\ Moved(m) /\ UNCHANGED installFailures
     \/ /\ Fails /\ Moved(m)
        /\ \E x \in {extracted[m], Empty, Broken} : extracted' = [extracted EXCEPT ![m] = x]
  /\ UNCHANGED <<archive, installed, enabled, tasks, stagedModules, required, commands, tainted, target, moved, cut>>

\* The install failed: the staging directory is left as it is.
GiveUp ==
  /\ Over /\ tasks[Root].at = "failed"
  /\ Exits
  /\ UNCHANGED <<Directories, installFailures, History>>

\* The process is killed, or the staging directory cannot be read: what is written
\* or removed at the time may be there in part, and nothing more is copied.
Killed ==
  LET At(places) == {Last(p) : p \in {q \in DOMAIN tasks : tasks[q].at \in places}}
      MovesAt(places) == {m \in DOMAIN moves : moves[m] \in places}
      half == At({"rmrf", "tar"}) \cup MovesAt({"rmrf"})
  IN  /\ ~Idle /\ Fails
      /\ \E S \in SUBSET At({"download"}) :
           archive' = [m \in Modules |-> IF m \in S THEN Broken ELSE archive[m]]
      /\ \E f \in [half -> ModuleVersions \cup {NoVersion, Empty, Broken}] :
           /\ \A m \in half : f[m] \in Unpacked(m)
           /\ extracted' = [m \in Modules |-> IF m \in half THEN f[m] ELSE extracted[m]]
      /\ \/ UNCHANGED installed
         \/ \E m \in MovesAt({"copy"}) : \E x \in Copied(m) : installed' = [installed EXCEPT ![m] = x]
      /\ moves' = <<>> /\ cut' = cut \cup MovesAt({"copy"})
      /\ Exits
      /\ UNCHANGED <<enabled, commands, tainted, target, moved>>

InstallNext ==
  \/ \E m \in Modules : \/ \E v \in VersionsOf(m) : install(m, v)
                        \/ enableModule(m) \/ disableModule(m) \/ uninstall(m)
  \/ \E p \in DOMAIN tasks :
       \/ downloadModule(p) \/ extractModule(p) \/ installModuleNPMDependencies(p)
       \/ Resolve(p) \/ InstallDependencies(p) \/ Settle(p) \/ Fail(p)
       \/ \E d \in Modules : getActualVersion(p, d)
  \/ moveStagingToInstalled \/ GiveUp \/ Killed
  \/ \E m \in DOMAIN moves : mv(m) \/ rmrf(m)

InstallSpec == InstallInit /\ [][InstallNext]_installVars

-----------------------------------------------------------------------------
(* Properties *)

\* Where a module is that the last command was to install: in the staging
\* directory until it is copied.
InPlace(m) ==
  IF m \in cut \/ (m \in DOMAIN moves /\ moves[m] = "copy") THEN extracted[m] ELSE installed[m]

\* What a command installs has all it needs: the versions of its dependencies that
\* were chosen at different places of the tree, or were installed before, suit each
\* other, and all are installed, or, if the move was cut short, wait with it in the
\* staging directory.  Left out are commands that met with what another one left
\* behind or that install a module twice, and the command's own module where what
\* it needs needs it in turn.
InstalledCanRun ==
  /\ InstallTypeOK
  /\ ~tainted => \A m \in moved :
       /\ InPlace(m) \in VersionsOf(m)
       /\ LET needs == Requires(m, InPlace(m))
          IN  \A d \in DOMAIN needs \ target : InPlace(d) \in needs[d]

\* Stated by modules.js: "dependencies lower in the tree will have knowledge of
\* other dependencies that are yet to be installed [...] so that they can see if
\* the version is compatible".
DependenciesSeeEachOther ==
  \A m \in moved : DOMAIN moves = {} =>
    LET needs == Requires(m, installed[m]) IN \A d \in DOMAIN needs : installed[d] \in needs[d]
=============================================================================
