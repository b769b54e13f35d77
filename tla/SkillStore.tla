----------------------------- MODULE SkillStore -----------------------------
(***************************************************************************)
(* lite.LiteSkillStore (src/harness/lite/skill.go): the metadata of skills *)
(* in a map under an RWMutex, their prompts in files that the lock covers  *)
(* only in part.                                                           *)
(*                                                                         *)
(* Upload writes the directory and the file before it takes the lock,      *)
(* Delete removes them after it has released it, Resolve reads the files   *)
(* under the read lock.  The map is not persisted.                         *)
(***************************************************************************)
EXTENDS LiteProcess

CONSTANT Skills     \* ids of the skills ever uploaded (they are UUIDs)

VARIABLES
    skills,     \* the map: a tenant for every id that is in it
    disk,       \* disk[s]: what is under baseDir/tenant/s
    used,       \* ids already drawn
    skillOp,    \* skillOp[c]: the call c is in
    orphans     \* skills whose upload or removal failed or was cut off, or
                \* that were in the map when the process ended (history)

skillVars == <<skills, disk, used, skillOp, orphans>>

Idle == [at |-> "idle"]
Uploads == [at : {"mkdir", "create", "write", "insert"}, id : Skills, tenant : Tenants]
Deletes == [at : {"lock", "removeAll"}, id : Skills, tenant : Tenants]

SkillInit ==
    /\ skills = <<>>
    /\ disk = [s \in Skills |-> "nothing"]
    /\ used = {}
    /\ skillOp = [c \in Clients |-> Idle]
    /\ orphans = {}

-----------------------------------------------------------------------------
Goto(c, op) == skillOp' = [skillOp EXCEPT ![c] = op]
At(c, place) == skillOp[c].at = place

UnlockedForReads == \A c \in Clients : ~At(c, "lookup")    \* variant for PromptsAreThere
Unlocked == \A c \in Clients : ~At(c, "lookup") /\ ~At(c, "read")

Upload(c) ==
    /\ \E s \in Skills \ used, t \in Tenants :
         /\ used' = used \cup {s}
         /\ Goto(c, [at |-> "mkdir", id |-> s, tenant |-> t])
    /\ UNCHANGED <<skills, disk, orphans, faults>>

UploadFails(c) ==   \* MkdirAll, ReadAll or WriteFile: what is there stays
    /\ skillOp[c] \in Uploads /\ ~At(c, "insert")
    /\ Fault
    /\ orphans' = orphans \cup {skillOp[c].id}
    /\ Goto(c, Idle)
    /\ UNCHANGED <<skills, disk, used>>

(* MkdirAll, then WriteFile: the file is empty before it has its content.  *)
UploadDisk(c) ==
    LET op == skillOp[c] IN
    /\ op \in Uploads
    /\ \/ /\ op.at = "mkdir"
          /\ disk' = [disk EXCEPT ![op.id] = "directory"]
          /\ Goto(c, [op EXCEPT !.at = "create"])
       \/ /\ op.at = "create"
          /\ disk' = [disk EXCEPT ![op.id] = "torn"]
          /\ Goto(c, [op EXCEPT !.at = "write"])
       \/ /\ op.at = "write"
          /\ disk' = [disk EXCEPT ![op.id] = "whole"]
          /\ Goto(c, [op EXCEPT !.at = "insert"])
    /\ UNCHANGED <<skills, used, orphans, faults>>

UploadInsert(c) ==
    LET op == skillOp[c] IN
    /\ At(c, "insert")
    /\ Unlocked
    /\ skills' = With(skills, op.id, op.tenant)
    /\ Goto(c, Idle)
    /\ UNCHANGED <<disk, used, orphans, faults>>

Resolve(c) ==
    /\ \E refs \in SUBSET used \ {{}} : Goto(c, [at |-> "lookup", todo |-> refs])
    /\ UNCHANGED <<skills, disk, used, orphans, faults>>

(* The references are taken one by one; one that is not in the map ends    *)
(* the call with ErrSkillNotFound.                                         *)
ResolveLookup(c) ==
    /\ At(c, "lookup")
    /\ \E s \in skillOp[c].todo :
         Goto(c, IF s \in DOMAIN skills
                 THEN [at |-> "read", id |-> s, todo |-> skillOp[c].todo \ {s}]
                 ELSE Idle)
    /\ UNCHANGED <<skills, disk, used, orphans, faults>>

(* A prompt that is not there, or not whole, is an error, or half a prompt.*)
ResolveRead(c) ==
    LET op == skillOp[c] IN
    /\ At(c, "read")
    /\ Goto(c, IF disk[op.id] # "whole" THEN [op EXCEPT !.at = "unreadable"]
               ELSE IF op.todo = {} THEN Idle
               ELSE [at |-> "lookup", todo |-> op.todo])
    /\ UNCHANGED <<skills, disk, used, orphans, faults>>

Delete(c) ==
    /\ \E s \in used, t \in Tenants : Goto(c, [at |-> "lock", id |-> s, tenant |-> t])
    /\ UNCHANGED <<skills, disk, used, orphans, faults>>

DeleteEntry(c) ==
    LET op == skillOp[c] IN
    /\ At(c, "lock")
    /\ Unlocked
    /\ \/ /\ op.id \in DOMAIN skills /\ skills[op.id] = op.tenant
          /\ skills' = Without(skills, op.id)
          /\ Goto(c, [op EXCEPT !.at = "removeAll"])
       \/ /\ op.id \in DOMAIN skills => skills[op.id] # op.tenant
          /\ UNCHANGED skills
          /\ Goto(c, Idle)
    /\ UNCHANGED <<disk, used, orphans, faults>>

LeftOfSkill == "directory"      \* variant for OrphansOnly: the file only
Removed == "nothing"

DeleteFiles(c) ==       \* os.RemoveAll
    /\ At(c, "removeAll")
    /\ \/ disk' = [disk EXCEPT ![skillOp[c].id] = Removed] /\ UNCHANGED <<orphans, faults>>
       \/ Fault /\ orphans' = orphans \cup {skillOp[c].id} /\ UNCHANGED disk
    /\ Goto(c, Idle)
    /\ UNCHANGED <<skills, used>>

SkillCall(c) == Upload(c) \/ Resolve(c) \/ Delete(c)
SkillStep(c) ==
    \/ UploadDisk(c) \/ UploadFails(c) \/ UploadInsert(c)
    \/ ResolveLookup(c) \/ ResolveRead(c) \/ DeleteEntry(c) \/ DeleteFiles(c)

InHand == {skillOp[c].id : c \in {d \in Clients : skillOp[d] \in Uploads \/ At(d, "removeAll")}}

(* The process dies: the map is gone, the files are not.                   *)
SkillsCrash ==
    /\ skills' = <<>>
    /\ orphans' = orphans \cup DOMAIN skills \cup InHand
    /\ skillOp' = [c \in Clients |-> Idle]
    /\ UNCHANGED <<disk, used>>
=============================================================================
