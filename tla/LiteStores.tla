----------------------------- MODULE LiteStores -----------------------------
(***************************************************************************)
(* The stores of the Lite edition in one process, which may crash.  They   *)
(* have no state in common, so what goes on in one while another is used   *)
(* makes no difference to either: a behaviour is about one store, that all *)
(* clients call, one call at a time each.                                  *)
(***************************************************************************)
EXTENDS SkillStore, ArtifactStore, LiteToolRegistry, LiteSecretStore

VARIABLE store      \* the store that is called

vars == <<skillVars, artVars, toolVars, secretVars, faults, store>>

Init ==
    /\ SkillInit /\ ArtifactInit /\ ToolsInit /\ SecretsInit
    /\ faults = 0
    /\ store \in {"skills", "artifacts", "tools", "secrets"}

Skill ==
    /\ store = "skills"
    /\ \E c \in Clients : (At(c, "idle") /\ SkillCall(c)) \/ SkillStep(c)
    /\ UNCHANGED <<artVars, toolVars, secretVars, store>>

Artifact ==
    /\ store = "artifacts"
    /\ \E c \in Clients : (artOp[c] = NotBusy /\ ArtifactCall(c)) \/ ArtifactStep(c)
    /\ UNCHANGED <<skillVars, toolVars, secretVars, faults, store>>

Tool ==
    /\ store = "tools"
    /\ ToolStep
    /\ UNCHANGED <<skillVars, artVars, secretVars, faults, store>>

Secret ==
    /\ store = "secrets"
    /\ \E c \in Clients : SecretStep(c)
    /\ UNCHANGED <<skillVars, artVars, toolVars, faults, store>>

Crash ==
    /\ Fault
    /\ SkillsCrash /\ ArtifactsCrash /\ ToolsCrash /\ SecretsCrash
    /\ UNCHANGED store

Next == Skill \/ Artifact \/ Tool \/ Secret \/ Crash

Spec == Init /\ [][Next]_vars

-----------------------------------------------------------------------------
(* Resolve never fails to read the whole prompt of a skill it has found in *)
(* the map, however its reads fall between the steps of uploads and        *)
(* deletes, although no file operation of those is under the lock.         *)
PromptsAreThere == \A c \in Clients : ~At(c, "unreadable")

(* The disk holds nothing but the skills in the map, what a call under way *)
(* is about to add or remove, and the orphans that a failed or interrupted *)
(* upload or removal, or the end of a process, has left; none of these is  *)
(* in the map.                                                             *)
OrphansOnly ==
    /\ \A s \in Skills : disk[s] # "nothing" =>
          \/ s \in DOMAIN skills \cup orphans
          \/ \E c \in Clients : skillOp[c] \in Uploads \cup Deletes /\ skillOp[c].id = s
    /\ orphans \cap DOMAIN skills = {}

(* A Get that no Put of its key overlaps reads all of the latest Put and   *)
(* nothing else, if that Put ended well.                                   *)
QuietGetsReadTheLatest == ~misread
=============================================================================
