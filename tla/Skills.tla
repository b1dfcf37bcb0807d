--------------------------------- MODULE Skills ---------------------------------
(***************************************************************************)
(* The skills of roboagent/skill: the loader discovers them in the         *)
(* directories of the project and of the user, the manager keeps one       *)
(* catalogue of what was discovered and the catalogue every active Run was *)
(* started with, and the read_skill Tool reads from the latter.  Files are *)
(* edited, catalogues reloaded and Runs started and ended meanwhile.       *)
(***************************************************************************)
EXTENDS Integers, FiniteSets

CONSTANTS
    Directories,   \* of a source
    SkillNames,
    SkillRuns,     \* ids of Runs
    MaxEdits       \* bound: edits, each of which writes a body of its own

ASSUME SkillsAssumption == MaxEdits \in Nat

VARIABLES
    skillFiles,   \* per source and directory: the skill there, or NoSkill
    catalog,      \* _catalog, and the half that a reload has read
    bound,        \* _runs: the catalogues of active Runs
    skillRun,     \* per Run: its phase and its _skill_catalog, which its prompt shows
    skillRead     \* the last answer of read_skill to a Run, and whether it was active

skillVars == <<skillFiles, catalog, bound, skillRun, skillRead>>

SkillSources == {"project", "user"}
NoSkill == [name |-> "none", body |-> 0]
Unreadable == [name |-> "invalid", body |-> 0]     \* a symlink, a bad header, too large
NoCatalog == [name \in {} |-> 0]
NotRead == [run |-> "", name |-> "", active |-> FALSE, body |-> 0]
Bodies == 1..MaxEdits

SkillsInit ==
    /\ skillFiles = [source \in SkillSources |-> [d \in Directories |-> NoSkill]]
    /\ catalog = [now |-> NoCatalog, project |-> NoCatalog, loading |-> FALSE]
    /\ bound = [r \in {} |-> NoCatalog]
    /\ skillRun = [r \in SkillRuns |-> [phase |-> "new", catalog |-> NoCatalog]]
    /\ skillRead = NotRead

-----------------------------------------------------------------------------
\* _source: the valid skills of a source, without those of a name that is there twice.
Discovered(files) ==
    LET valid == {d \in Directories : files[d].name \in SkillNames}
        unique == {d \in valid : \A e \in valid \ {d} : files[e].name # files[d].name}
        names == {files[d].name : d \in unique}
    IN [name \in names |-> files[CHOOSE d \in unique : files[d].name = name].body]

\* discover: a skill of the project hides that of the user.
Selection(project, user) ==
    [name \in DOMAIN project \cup DOMAIN user |->
       IF name \in DOMAIN project THEN project[name] ELSE user[name]]

\* reload does not await, but other processes may change the files between the sources.
ReloadProject ==
    /\ ~catalog.loading
    /\ catalog' = [catalog EXCEPT !.project = Discovered(skillFiles["project"]), !.loading = TRUE]
    /\ UNCHANGED <<skillFiles, bound, skillRun, skillRead>>

ReloadUser ==
    /\ catalog.loading
    /\ catalog' = [now |-> Selection(catalog.project, Discovered(skillFiles["user"])),
                   project |-> NoCatalog, loading |-> FALSE]
    /\ UNCHANGED <<skillFiles, bound, skillRun, skillRead>>

WrittenBodies == {skillFiles[source][d].body : source \in SkillSources, d \in Directories}

\* Somebody edits, adds, breaks or removes a skill.
EditSkill ==
    /\ \E source \in SkillSources, d \in Directories :
         \/ \E name \in SkillNames, body \in Bodies \ WrittenBodies :
              skillFiles' = [skillFiles EXCEPT ![source][d] = [name |-> name, body |-> body]]
         \/ skillFiles' = [skillFiles EXCEPT ![source][d] = Unreadable]
    /\ UNCHANGED <<catalog, bound, skillRun, skillRead>>

-----------------------------------------------------------------------------
\* Session.start and _start_nested: the Run is bound, or the start fails after that.
StartSkillRun(r) ==
    /\ skillRun[r].phase = "new" /\ ~catalog.loading
    /\ \/ /\ bound' = [q \in DOMAIN bound \cup {r} |-> IF q = r THEN catalog.now ELSE bound[q]]
          /\ skillRun' = [skillRun EXCEPT ![r] = [phase |-> "active", catalog |-> catalog.now]]
       \/ skillRun' = [skillRun EXCEPT ![r].phase = "over"] /\ UNCHANGED bound
    /\ UNCHANGED <<skillFiles, catalog, skillRead>>

\* Run._execute releases it when its hooks have run, whatever its outcome.
EndSkillRun(r) ==
    /\ skillRun[r].phase = "active"
    /\ bound' = [q \in DOMAIN bound \ {r} |-> bound[q]]
    /\ skillRun' = [skillRun EXCEPT ![r].phase = "over"]
    /\ UNCHANGED <<skillFiles, catalog, skillRead>>

\* Variant: the manager's own catalogue is read.
LatestCatalog(r) == catalog.now
CatalogOf(r) == IF r \in DOMAIN bound THEN bound[r] ELSE catalog.now

\* read_skill: a Tool of the Run, or one that the Run has given up waiting for.
ReadSkill(r, name) ==
    /\ skillRun[r].phase # "new"
    /\ LET from == CatalogOf(r) IN
       skillRead' = [run |-> r, name |-> name, active |-> skillRun[r].phase = "active",
                     body |-> IF name \in DOMAIN from THEN from[name] ELSE 0]
    /\ UNCHANGED <<skillFiles, catalog, bound, skillRun>>

SkillsNext ==
    \/ ReloadProject \/ ReloadUser \/ EditSkill
    \/ \E r \in SkillRuns : \/ StartSkillRun(r) \/ EndSkillRun(r)
                            \/ \E name \in SkillNames : ReadSkill(r, name)

SkillsSpec == SkillsInit /\ [][SkillsNext]_skillVars

-----------------------------------------------------------------------------
\* docs/modules/skill.md:7-9 and manager.py:50-64: whatever is edited and reloaded, an
\* active Run reads the very body of the revision whose names its prompt shows; and its
\* revision is the manager's as long as the Run is active and no longer, so none is kept
\* for a Run that ended or never started.
SkillsPinned ==
    /\ skillRead.active =>
         LET shown == skillRun[skillRead.run].catalog IN
         skillRead.body = IF skillRead.name \in DOMAIN shown THEN shown[skillRead.name] ELSE 0
    /\ DOMAIN bound = {r \in SkillRuns : skillRun[r].phase = "active"}
    /\ \A r \in DOMAIN bound : bound[r] = skillRun[r].catalog
=============================================================================
