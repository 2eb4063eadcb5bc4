---------------------------- MODULE WindbgInstall ----------------------------
(***************************************************************************)
(* `windbg install`, `windbg update` and `windbg run`: the latest WinDbg   *)
(* package is downloaded, verified and unpacked into a directory of its    *)
(* version, and its version is written down (crates/windbg-install; the    *)
(* commands are in crates/windbg-tool, cli/platform.rs).  Several commands *)
(* may run at once; a file in the directory, .install.lock, keeps them     *)
(* apart.  Any of them may be killed between two of its steps, and any     *)
(* call of the file system or the network may fail.                        *)
(***************************************************************************)
EXTENDS Naturals

CONSTANTS
  Installers,   (* the commands                                            *)
  MaxVersion    (* how many versions are published one after the other     *)

ASSUME InstallAssumption == MaxVersion \in Nat \ {0}

Versions == 1..MaxVersion
Requests == [force : BOOLEAN, run : BOOLEAN]

VARIABLES
  latest,      (* the version that is published                            *)
  phase,       (* the next step of each command                            *)
  request,     (* its arguments                                            *)
  version,     (* what it installs, 0 before it knows                      *)
  answer,      (* "none", "present", "installed", "error", "launched"      *)
  lock,        (* .install.lock is there                                   *)
  download,    (* .download, and the package in it                         *)
  tree,        (* the directory of each version                            *)
  recorded,    (* version.txt: 0 if it is absent or empty                  *)
  broken,      (* versions that were cleared and not unpacked since        *)
  abandoned    (* a command was killed, or could not remove the lock       *)

installVars ==
  <<latest, phase, request, version, answer, lock, download, tree, recorded, broken, abandoned>>

(* A tree is "absent", "partial" without DbgX.Shell.exe, "startable" with  *)
(* that file but not all the others, or "whole".                           *)
HasShell(v) == tree[v] \in {"startable", "whole"}

InstallInit ==
  /\ latest = 1
  /\ phase = [i \in Installers |-> "idle"]
  /\ request = [i \in Installers |-> [force |-> FALSE, run |-> FALSE]]
  /\ version = [i \in Installers |-> 0]
  /\ answer = [i \in Installers |-> "none"]
  /\ lock = FALSE
  /\ download = "absent"
  /\ tree = [v \in Versions |-> "absent"]
  /\ recorded = 0
  /\ broken = {}
  /\ abandoned = FALSE

-----------------------------------------------------------------------------

GoTo(i, p) == phase' = [phase EXCEPT ![i] = p]
Gives(i, a) == answer' = [answer EXCEPT ![i] = a]
Disk == <<download, tree, recorded, broken>>
Unasked == UNCHANGED <<latest, request, abandoned>>

\* run_windbg_command: install, update (never forced) and run (update first).
StartInstall(i, r) ==
  /\ phase[i] = "idle"
  /\ r.force => ~r.run
  /\ request' = [request EXCEPT ![i] = r]
  /\ GoTo(i, "locking")
  /\ UNCHANGED <<latest, version, answer, lock, Disk, abandoned>>

\* Faulty: the file is created whether or not it is there.
LockFreeAnyway == TRUE

\* create_new.
LockFree == ~lock

\* The directory cannot be created, or the lock is taken.
AcquireLock(i, created) ==
  /\ phase[i] = "locking"
  /\ IF created /\ LockFree
     THEN lock' = TRUE /\ GoTo(i, "fetching") /\ UNCHANGED answer
     ELSE GoTo(i, "done") /\ Gives(i, "error") /\ UNCHANGED lock
  /\ Unasked /\ UNCHANGED <<version, Disk>>

\* `?` behind the lock: the error is returned, and the lock dropped.
Stop(i) == GoTo(i, "releasing") /\ Gives(i, "error")

Fails(i) ==
  /\ phase[i] \in {"fetching", "clearing", "downloading", "verifying", "removing", "extracting",
                   "recording", "writing"}
  /\ Stop(i)
  /\ Unasked /\ UNCHANGED <<version, lock, Disk>>

FetchAppinstaller(i) ==
  /\ phase[i] = "fetching"
  /\ version' = [version EXCEPT ![i] = latest]
  /\ GoTo(i, "checking")
  /\ Unasked /\ UNCHANGED <<answer, lock, Disk>>

\* Faulty: a directory of the version will do.
PresentIfDirectory(v) == tree[v] # "absent"

\* The one file that is looked for.
Present(v) == HasShell(v)

CheckInstalled(i) ==
  /\ phase[i] = "checking"
  /\ IF ~request[i].force /\ Present(version[i])
     THEN GoTo(i, "recording") /\ Gives(i, "present")
     ELSE GoTo(i, "clearing") /\ UNCHANGED answer
  /\ Unasked /\ UNCHANGED <<version, lock, Disk>>

ClearDownload(i) ==
  /\ phase[i] = "clearing"
  /\ download' = "empty"
  /\ GoTo(i, "downloading")
  /\ Unasked /\ UNCHANGED <<version, answer, lock, tree, recorded, broken>>

\* The bundle, and the package for this architecture out of it.
Download(i, signed) ==
  /\ phase[i] = "downloading"
  /\ download' = IF signed THEN "signed" ELSE "unsigned"
  /\ GoTo(i, "verifying")
  /\ Unasked /\ UNCHANGED <<version, answer, lock, tree, recorded, broken>>

VerifyMsixTrust(i) ==
  /\ phase[i] = "verifying"
  /\ IF download = "signed" THEN GoTo(i, "removing") /\ UNCHANGED answer ELSE Stop(i)
  /\ Unasked /\ UNCHANGED <<version, lock, Disk>>

\* What is there goes; remove_dir_all may fail half-way, files that are in use among them.
RemoveTree(i, removed) ==
  /\ phase[i] = "removing"
  /\ broken' = broken \cup {version[i]}
  /\ \E left \in {"partial", "startable"} :
       /\ removed \/ (tree[version[i]] # "absent" /\ (left = "startable" => HasShell(version[i])))
       /\ tree' = [tree EXCEPT ![version[i]] = IF removed THEN "absent" ELSE left]
  /\ IF removed THEN GoTo(i, "extracting") /\ UNCHANGED answer ELSE Stop(i)
  /\ Unasked /\ UNCHANGED <<version, lock, download, recorded>>

\* Entry by entry, the shell somewhere among them, if the package has it.
ExtractEntries(i) ==
  /\ phase[i] = "extracting"
  /\ tree[version[i]] \in {"absent", "partial"}
  /\ \E t \in {"partial", "startable"} : tree' = [tree EXCEPT ![version[i]] = t]
  /\ Unasked /\ UNCHANGED <<phase, version, answer, lock, download, recorded, broken>>

\* The last entry is out: the shell must be there.
ExtractEnds(i) ==
  /\ phase[i] = "extracting"
  /\ IF HasShell(version[i])
     THEN /\ tree' = [tree EXCEPT ![version[i]] = "whole"]
          /\ broken' = broken \ {version[i]}
          /\ GoTo(i, "recording")
          /\ Gives(i, "installed")
     ELSE Stop(i) /\ UNCHANGED <<tree, broken>>
  /\ Unasked /\ UNCHANGED <<version, lock, download, recorded>>

\* fs::write empties the file and then writes it.
TruncateVersion(i) ==
  /\ phase[i] = "recording"
  /\ recorded' = 0
  /\ GoTo(i, "writing")
  /\ Unasked /\ UNCHANGED <<version, answer, lock, download, tree, broken>>

WriteVersion(i) ==
  /\ phase[i] = "writing"
  /\ recorded' = version[i]
  /\ GoTo(i, IF answer[i] = "installed" THEN "cleaning" ELSE "releasing")
  /\ Unasked /\ UNCHANGED <<version, answer, lock, download, tree, broken>>

\* Whether or not .download can be removed.
CleanUp(i, removed) ==
  /\ phase[i] = "cleaning"
  /\ download' = IF removed THEN "absent" ELSE download
  /\ GoTo(i, "releasing")
  /\ Unasked /\ UNCHANGED <<version, answer, lock, tree, recorded, broken>>

\* Faulty: the lock is left behind by a command that fails.
ReleasesOnSuccess(i) == answer[i] # "error"

\* InstallLock::drop, however the function is left.
Releases(i) == TRUE

ReleaseLock(i, removed) ==
  /\ phase[i] = "releasing"
  /\ lock' = ~(removed /\ Releases(i))
  /\ abandoned' = (abandoned \/ ~removed)
  /\ GoTo(i, IF request[i].run /\ answer[i] # "error" THEN "launching" ELSE "done")
  /\ UNCHANGED <<latest, request, version, answer, Disk>>

\* Without the lock: the shell may have gone meanwhile.
Launch(i) ==
  /\ phase[i] = "launching"
  /\ Gives(i, IF HasShell(version[i]) THEN "launched" ELSE "error")
  /\ GoTo(i, "done")
  /\ Unasked /\ UNCHANGED <<version, lock, Disk>>

\* Nothing of it is undone.
Killed(i) ==
  /\ phase[i] \notin {"idle", "done"}
  /\ GoTo(i, "done")
  /\ Gives(i, "none")
  /\ abandoned' = TRUE
  /\ UNCHANGED <<latest, request, version, lock, Disk>>

Publish ==
  /\ latest < MaxVersion
  /\ latest' = latest + 1
  /\ UNCHANGED <<phase, request, version, answer, lock, Disk, abandoned>>

InstallNext ==
  \/ \E i \in Installers :
       \/ \E r \in Requests : StartInstall(i, r)
       \/ \E yes \in BOOLEAN :
            AcquireLock(i, yes) \/ Download(i, yes) \/ RemoveTree(i, yes) \/ CleanUp(i, yes) \/ ReleaseLock(i, yes)
       \/ Fails(i)
       \/ FetchAppinstaller(i) \/ CheckInstalled(i) \/ ClearDownload(i) \/ VerifyMsixTrust(i)
       \/ ExtractEntries(i) \/ ExtractEnds(i)
       \/ TruncateVersion(i) \/ WriteVersion(i)
       \/ Launch(i)
       \/ Killed(i)
  \/ Publish

InstallSpec == InstallInit /\ [][InstallNext]_installVars

-----------------------------------------------------------------------------

\* `windbg status`, which takes no lock.
Shown ==
  [installed |-> recorded # 0 /\ HasShell(recorded),
   update |-> recorded # latest]

\* The command has the lock: its InstallLock is not dropped yet.
Holding(i) == phase[i] \notin {"idle", "locking", "launching", "done"}

LockIsHeld ==
  /\ \A i, k \in Installers : Holding(i) /\ Holding(k) => i = k
  /\ \A i \in Installers : Holding(i) => lock
  /\ lock => abandoned \/ \E i \in Installers : Holding(i)

AnsweredIsWhole ==
  \A i \in Installers :
    /\ phase[i] \in {"removing", "extracting"} => download = "signed"
    /\ phase[i] \in {"cleaning", "releasing"} /\ answer[i] # "error" =>
         /\ recorded = version[i]
         /\ \/ tree[version[i]] = "whole"
            \/ answer[i] = "present" /\ tree[version[i]] = "startable" /\ version[i] \in broken

RecordedIsWhole ==
  /\ \A v \in Versions : recorded = v /\ tree[v] # "whole" => v \in broken
  /\ ~Shown.installed /\ ~Shown.update => latest \in broken

(* One command at a time works in the directory, and the lock outlives it  *)
(* only if it was killed or could not remove it.  What is unpacked is what *)
(* was verified; what is answered is written down and whole, or was found  *)
(* with its shell but broken off by an earlier command; and the version    *)
(* that is written down is whole, is being replaced or was broken off:     *)
(* only then does status show neither an install nor an update (install,   *)
(* InstallLock, status).                                                   *)
InstallsAreWhole == LockIsHeld /\ AnsweredIsWhole /\ RecordedIsWhole
=============================================================================
