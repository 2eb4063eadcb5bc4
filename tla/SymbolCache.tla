---------------------------- MODULE SymbolCache ----------------------------
(***************************************************************************)
(* The cache of images and PDBs that dump sessions share (crates/          *)
(* windbg-symbols, lib.rs), and its two users: the daemon's dump targets   *)
(* (crates/windbg-ttd, targets.rs, prefetch_dump_symbols) and              *)
(* `windbg-tool dump inspect` (cli/platform.rs,                            *)
(* prepare_dump_native_symbols).  Several processes use one directory at   *)
(* once; each prefetches for one module at a time, and may die at any      *)
(* moment.  All of them want the same image: others have paths of their    *)
(* own.                                                                    *)
(*                                                                         *)
(* A file's content is "match" (the timestamp and SizeOfImage asked for),  *)
(* "wrong" (another image, or none at all) or "partial".                   *)
(***************************************************************************)
EXTENDS Naturals, Sequences

CONSTANTS
  Processes,      (* process ids                                           *)
  MaxRedirects,   (* MAX_REDIRECTS                                         *)
  MaxCrashes      (* bound on the processes that die                       *)

ASSUME CacheAssumption ==
  /\ Processes # {}
  /\ MaxRedirects \in Nat /\ MaxCrashes \in Nat

VARIABLES
  server,         (* the image the symbol server has                       *)
  store,          (* the image in the cache                                *)
  temp,           (* the temporary file ".<image>.<process id>.download"   *)
  pdb,            (* whether the PDB is in the cache                       *)
  step,           (* where each process's prefetch is                      *)
  offline,        (* its --offline option                                  *)
  requests,       (* HTTP requests it has sent for the image               *)
  image,          (* the image it has found: "none", "local" or "cache"    *)
  imagePath,      (* the image directory its DbgEng session has been given *)
  leftover,       (* history: its temporary file may be a leftover         *)
  crashes         (* how many processes have died                          *)

storeVars == <<server, store, temp, pdb>>
prefetchVars == <<step, offline, requests, image>>
cacheVars == <<storeVars, prefetchVars, imagePath, leftover, crashes>>

CacheInit ==
  /\ server \in {"match", "wrong"}
  /\ store \in {"absent", "match", "wrong"}
  /\ temp = [p \in Processes |-> "absent"]
  /\ pdb = FALSE
  /\ step = [p \in Processes |-> "idle"]
  /\ offline = [p \in Processes |-> FALSE]
  /\ requests = [p \in Processes |-> 0]
  /\ image = [p \in Processes |-> "none"]
  /\ imagePath = [p \in Processes |-> "none"]
  /\ leftover = [p \in Processes |-> FALSE]
  /\ crashes = 0

-----------------------------------------------------------------------------
(* What is prefetched.                                                     *)

(* An address that may be absent: of a bugcheck, the one a code says is    *)
(* the fault's.                                                            *)
NoAddress == "no_address"

\* dump_fault_address: KMODE_EXCEPTION_NOT_HANDLED and SYSTEM_SERVICE_EXCEPTION.
InspectedFault(bugcheck) ==
  IF bugcheck \in {"1E", "3B"} THEN "parameter" ELSE NoAddress

\* prefetch_dump_symbols knows the second of them only.
TargetFault(bugcheck) ==
  IF bugcheck = "3B" THEN "parameter" ELSE NoAddress

OrElse(address, other) == IF address = NoAddress THEN other ELSE address

(* The address to prefetch for: the one a client asks about, if any, the   *)
(* fault's, or the current instruction.                                    *)
TargetAddress(asked, bugcheck, instruction) ==
  OrElse(asked, OrElse(TargetFault(bugcheck), instruction))
InspectAddress(bugcheck, instruction) ==
  OrElse(InspectedFault(bugcheck), instruction)

(* image_names: a target takes DbgEng's first name for the module, an      *)
(* inspection the alphabetically first one, which need not be the image's. *)
TargetName(names) == IF names = <<>> THEN "none" ELSE names[1]
InspectName(names) ==
  IF names = <<>> THEN "none"
  ELSE IF "pdb" \in {names[i] : i \in DOMAIN names} THEN "pdb" ELSE names[1]

(* What both do before the first file is looked at; "prefetch" goes on.    *)
Prepared(address, name, inModule, parameters) ==
  CASE address = NoAddress -> "not_applicable"
    [] address # NoAddress /\ ~(inModule /\ parameters /\ name # "none") -> "unavailable"
    [] OTHER -> "prefetch"

-----------------------------------------------------------------------------
(* prefetch_dump_symbols and prepare_dump_native_symbols, step by step.    *)

Goes(p, to) == step' = [step EXCEPT ![p] = to]

(* A status is answered, which nothing reads again, and what the prefetch  *)
(* knew is forgotten.                                                      *)
Ends(p) ==
  /\ Goes(p, "idle")
  /\ offline' = [offline EXCEPT ![p] = FALSE]
  /\ requests' = [requests EXCEPT ![p] = 0]
  /\ image' = [image EXCEPT ![p] = "none"]

\* Every way a prefetch can begin.
Beginnings ==
  LET addresses == {NoAddress, "address"}
      codes == {"1E", "3B", "other"}
      lists == {<<>>, <<"image">>, <<"image", "pdb">>}
      Begin(address, name) ==
        {<<Prepared(address, name, known, parameters), name>> : known, parameters \in BOOLEAN}
  IN UNION {Begin(TargetAddress(asked, code, instruction), TargetName(names)) :
              asked, instruction \in addresses, code \in codes, names \in lists}
     \cup
     UNION {Begin(InspectAddress(code, instruction), InspectName(names)) :
              instruction \in addresses, code \in codes, names \in lists}

(* The image is looked for in the directories given and in those of the    *)
(* host, up to the first that matches; files that differ or cannot be read *)
(* are listed.  The module's name decides whether there is one to find.    *)
BeginPrefetch(p) ==
  /\ step[p] = "idle"
  /\ \E begin \in Beginnings, off \in BOOLEAN :
       /\ begin[1] = "prefetch"
       /\ offline' = [offline EXCEPT ![p] = off]
       /\ \/ /\ image' = [image EXCEPT ![p] = "local"]
             /\ Goes(p, "pdb")
          \/ /\ Goes(p, IF begin[2] = "image" THEN "look" ELSE "other_image")
             /\ UNCHANGED image
  /\ UNCHANGED <<storeVars, requests, imagePath, leftover, crashes>>

(* An inspection that goes by the PDB's name asks the cache and the server *)
(* for an image of that name, and finds none.                              *)
NotAnImage(p) ==
  /\ step[p] = "other_image"
  /\ Ends(p)
  /\ UNCHANGED <<storeVars, imagePath, leftover, crashes>>

(* image_matches on the file in the cache.                                 *)
Matches == store = "match"

FoundInCache(p) ==
  /\ image' = [image EXCEPT ![p] = "cache"]
  /\ Goes(p, "pdb")
  /\ UNCHANGED <<offline, requests>>

(* prefetch_image, before the download.                                    *)
LookInCache(p) ==
  /\ step[p] = "look"
  /\ IF Matches THEN FoundInCache(p)
     ELSE IF offline[p] THEN Ends(p)
     ELSE Goes(p, "request") /\ UNCHANGED <<offline, requests, image>>
  /\ UNCHANGED <<storeVars, imagePath, leftover, crashes>>

(* get_microsoft_response: one request to an allowed host, and the answer: *)
(* the image, a redirection, or an HTTP error, none at all, or too long.   *)
(* What it redirects to is checked before the next request.                *)
Request(p) ==
  /\ step[p] = "request"
  /\ \/ /\ requests[p] <= MaxRedirects
        /\ \/ Goes(p, "create") /\ requests' = [requests EXCEPT ![p] = 0]
           \/ requests' = [requests EXCEPT ![p] = @ + 1] /\ UNCHANGED step
        /\ UNCHANGED <<offline, image>>
     \/ Ends(p)
  /\ UNCHANGED <<storeVars, imagePath, leftover, crashes>>

(* download_image_blocking: create_new, which a leftover file refuses.     *)
CreateTemporary(p) ==
  /\ step[p] = "create"
  /\ \/ /\ temp[p] = "absent"
        /\ temp' = [temp EXCEPT ![p] = "partial"]
        /\ leftover' = [leftover EXCEPT ![p] = FALSE]
        /\ Goes(p, "copy")
        /\ UNCHANGED <<offline, requests, image>>
     \/ Ends(p) /\ UNCHANGED <<temp, leftover>>
  /\ UNCHANGED <<server, store, pdb, imagePath, crashes>>

\* remove_file, whose failure is ignored.
RemoveTemporary(p) ==
  \/ /\ temp' = [temp EXCEPT ![p] = "absent"]
     /\ UNCHANGED leftover
  \/ /\ UNCHANGED temp
     /\ leftover' = [leftover EXCEPT ![p] = TRUE]

(* The image arrives, or the connection breaks, the disk is full, or it is *)
(* longer than MAX_IMAGE_DOWNLOAD_BYTES.                                   *)
Copy(p) ==
  /\ step[p] = "copy"
  /\ \/ /\ temp' = [temp EXCEPT ![p] = server]
        /\ Goes(p, "rename")
        /\ UNCHANGED <<offline, requests, image, leftover>>
     \/ RemoveTemporary(p) /\ Ends(p)
  /\ UNCHANGED <<server, store, pdb, imagePath, crashes>>

\* Faulty: the file of a rename that lost against another process stays.
RemoveUnlessPresent(p) ==
  IF store # "absent" THEN UNCHANGED <<temp, leftover>> ELSE RemoveTemporary(p)

\* A rename that fails removes the temporary file in each case.
RemoveAfterRename(p) == RemoveTemporary(p)

(* fs::rename replaces what is there; it fails while another program has   *)
(* the image open, and an image that is there then will do, for now.       *)
Rename(p) ==
  /\ step[p] = "rename"
  /\ \/ /\ store' = temp[p]
        /\ temp' = [temp EXCEPT ![p] = "absent"]
        /\ Goes(p, "check")
        /\ UNCHANGED <<offline, requests, image, leftover>>
     \/ /\ RemoveAfterRename(p)
        /\ IF store # "absent" THEN Goes(p, "check") /\ UNCHANGED <<offline, requests, image>>
           ELSE Ends(p)
        /\ UNCHANGED store
  /\ UNCHANGED <<server, pdb, imagePath, crashes>>

\* Faulty: the image that is in the cache after a download is not looked at.
AcceptsAny == TRUE

\* prefetch_image, after the download.
Accepts == Matches

CheckDownload(p) ==
  /\ step[p] = "check"
  /\ IF Accepts THEN FoundInCache(p) ELSE Ends(p)
  /\ UNCHANGED <<storeVars, imagePath, leftover, crashes>>

(* prefetch_pdb: an image without a usable CodeView record has no PDB; one *)
(* in the cache is taken as it is; download_pdb is symsrv's.               *)
PrefetchPdb(p) ==
  /\ step[p] = "pdb"
  /\ \/ Ends(p) /\ UNCHANGED pdb
     \/ /\ pdb \/ ~offline[p]
        /\ pdb' = TRUE
        /\ Goes(p, "configure")
        /\ UNCHANGED <<offline, requests, image>>
  /\ UNCHANGED <<server, store, temp, imagePath, leftover, crashes>>

(* configure_local_symbol_paths: a symbol-server expression is refused,    *)
(* then the symbol path is set and the image path, and refresh_symbols     *)
(* reloads the module.  A failure only shows in "forced_reload".           *)
ConfigurePaths(p) ==
  /\ step[p] = "configure"
  /\ imagePath' \in {imagePath, [imagePath EXCEPT ![p] = image[p]]}
  /\ Ends(p)
  /\ UNCHANGED <<storeVars, leftover, crashes>>

(* The process dies; the next one may be given its id, or another one: the *)
(* file it leaves is not in that one's way then.                           *)
Crash(p) ==
  /\ crashes < MaxCrashes
  /\ crashes' = crashes + 1
  /\ \/ /\ leftover' = [leftover EXCEPT ![p] = TRUE]
        /\ UNCHANGED temp
     \/ /\ temp' = [temp EXCEPT ![p] = "absent"]
        /\ leftover' = [leftover EXCEPT ![p] = FALSE]
  /\ Ends(p)
  /\ imagePath' = [imagePath EXCEPT ![p] = "none"]
  /\ UNCHANGED <<server, store, pdb>>

CacheNext ==
  \E p \in Processes :
    \/ BeginPrefetch(p)
    \/ NotAnImage(p)
    \/ LookInCache(p)
    \/ Request(p)
    \/ CreateTemporary(p)
    \/ Copy(p)
    \/ Rename(p)
    \/ CheckDownload(p)
    \/ PrefetchPdb(p)
    \/ ConfigurePaths(p)
    \/ Crash(p)

-----------------------------------------------------------------------------

(* A session that has been pointed at the cache for its image finds the    *)
(* image with the timestamp and size it asked for there, then and for as   *)
(* long as it runs, however downloads, renames and deaths of the processes *)
(* that share the cache fall (prefetch_image, download_image_blocking).    *)
CachedImageMatches ==
  \A p \in Processes : imagePath[p] = "cache" => store = "match"

(* A temporary file outlives the download it belongs to only if its        *)
(* process died or the system refused to remove it: nothing else can stand *)
(* in the way of the next download (download_image_blocking).              *)
TemporaryIsRemoved ==
  \A p \in Processes :
    temp[p] # "absent" => step[p] \in {"copy", "rename"} \/ leftover[p]

(* What the processes leave in the cache that they share can be used: the  *)
(* image is the one that was asked for, and no temporary file is in the    *)
(* way of the next download but one nobody could remove.                   *)
CacheIsSound == CachedImageMatches /\ TemporaryIsRemoved
=============================================================================
