---------------------------- MODULE SkillRegistry ----------------------------
(***************************************************************************)
(* The skills the gateway serves: the registry's cache                     *)
(* (src/skills/registry.py), filled from the manifests it was shipped with *)
(* the first time it is asked, and the store of uploaded skills            *)
(* (src/gateway/skill_store.py), whose manifests are in Redis and whose    *)
(* code is on disk.                                                        *)
(*                                                                         *)
(* Handlers run on the event loop and are one step up to their next await. *)
(* Discovery and submissions ask the registry from a thread: such a load   *)
(* reads the disk while the event loop goes on, and assigns the cache at   *)
(* its end.  The gateway never reloads the registry nor records executions *)
(* in it, so that no skill is jailed there.                                *)
(***************************************************************************)
EXTENDS Integers, Sequences, FiniteSets

CONSTANTS
  Static,         (* skills the registry was shipped with                   *)
  Uploads,        (* skills people may upload, known ones or new            *)
  NotLoaded,      (* _cache is None                                         *)
  MaxLoads        (* bound on the loads under way at once                   *)

ASSUME RegistryAssumption ==
  /\ MaxLoads \in Nat
  /\ \A skills \in SUBSET (Static \cup Uploads) : skills # NotLoaded

VARIABLES
  cache,          (* _cache                                                 *)
  manifests,      (* uploaded manifests, in Redis                           *)
  logic,          (* directories of uploaded code                           *)
  loading,        (* threads inside load_all                                *)
  dropped         (* what a load wiped from the cache: history              *)

registry == <<cache, manifests, logic, loading, dropped>>

Installed == IF cache = NotLoaded THEN {} ELSE cache
Stored == manifests \cap logic

InitRegistry ==
  /\ cache = NotLoaded /\ manifests = {} /\ logic = {}
  /\ loading = 0 /\ dropped = {}

-----------------------------------------------------------------------------
(* load_all: what is cached, else the manifests on disk.                   *)
Served == IF cache = NotLoaded THEN Static ELSE cache

(* On the event loop, at once.                                             *)
Load == cache' = Served /\ UNCHANGED <<manifests, logic, loading, dropped>>

StartLoad ==
  /\ cache = NotLoaded
  /\ loading < MaxLoads
  /\ loading' = loading + 1
  /\ UNCHANGED <<cache, manifests, logic, dropped>>

FinishLoad ==
  /\ loading > 0
  /\ loading' = loading - 1
  /\ cache' = Static
  /\ dropped' = dropped \cup (Installed \ Static)
  /\ UNCHANGED <<manifests, logic>>

(* install_skill, where _cache may be None.                                *)
InstallSkill(u) == cache' = Installed \cup {u} /\ dropped' = dropped \ {u}

(* install_zip, which replaces the skill if there is one, and              *)
(* install_skill.  An archive that fails a check changes nothing.          *)
Upload(u) ==
  /\ manifests' = manifests \cup {u}
  /\ logic' = logic \cup {u}
  /\ InstallSkill(u)
  /\ UNCHANGED loading

(* load_into_registry, at every start.  Mutant: only the registry's own    *)
(* manifests are loaded.                                                   *)
NotRecovered(code) == NotLoaded
Recovered(code) == IF manifests \cap code = {} THEN NotLoaded ELSE manifests \cap code

(* The process dies and comes back.  install_zip removes the directory,    *)
(* makes it anew and then writes the manifest: an upload cut short leaves  *)
(* either half undone.                                                     *)
RestartRegistry ==
  \E code \in {logic} \cup {logic \ {u} : u \in Uploads} \cup {logic \cup {u} : u \in Uploads} :
    /\ logic' = code
    /\ cache' = Recovered(code)
    /\ loading' = 0 /\ dropped' = {}
    /\ UNCHANGED manifests

RegistryNext ==
  \/ Load
  \/ StartLoad
  \/ FinishLoad
  \/ \E u \in Uploads : Upload(u)
  \/ RestartRegistry

RegistrySpec == InitRegistry /\ [][RegistryNext]_registry

-----------------------------------------------------------------------------
RegistryTypeOK ==
  /\ cache = NotLoaded \/ cache \in SUBSET (Static \cup Uploads)
  /\ manifests \subseteq Uploads /\ logic \subseteq Uploads
  /\ loading \in 0..MaxLoads
  /\ dropped \subseteq Uploads

(* A skill that was uploaded whole is served until the process ends and    *)
(* again by the next one, unless a load that had begun before the upload   *)
(* overwrote the cache (SkillStore.install_zip, load_into_registry).       *)
UploadsServed == Stored \subseteq Installed \cup dropped

(* skill_store.py: uploaded skills are served "alongside static            *)
(* manifests".  Does not hold: an upload, and every start with an upload   *)
(* in the store, fill a cache that load_all then takes for loaded.         *)
ServedAlongside == cache # NotLoaded => Static \cup Stored \subseteq cache
=============================================================================
