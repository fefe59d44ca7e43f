---------------------------- MODULE MCGroupQueue ----------------------------
(***************************************************************************)
(* Instances of GroupQueue for TLC: two chats that share a folder (a web    *)
(* chat and an IM chat bound to it), a conversation agent and an isolated   *)
(* task of that folder, and a chat of another folder.  Each .cfg picks the  *)
(* JIDs of its question; the placement below covers all of them.            *)
(***************************************************************************)
EXTENDS GroupQueue

CONSTANTS web, im, agent, task, other,     \* JIDs
          home, guest,                     \* folders
          alice, bob,                      \* users
          warmup, conv, cron        \* task ids

MCFolderOf == [j \in Jids |-> IF j = other THEN guest ELSE home]

\* Serialization keys: the folder for chats, folder#id for virtual JIDs.
MCKeys == {<<home>>, <<guest>>, <<home, agent>>, <<home, task>>}
MCKeyOf == [j \in Jids |-> IF j \in AgentJids \cup TaskJids
                             THEN <<home, j>> ELSE <<MCFolderOf[j]>>]

MCOwnerOf == [j \in Jids |-> IF j = other THEN bob ELSE alice]
MCHomeOf == [t \in TaskIds |-> IF t = warmup THEN web
                               ELSE IF t = cron THEN task ELSE agent]

\* No quota, a quota below what the limits allow.
NoQuota == [u \in Users |-> 10]
TightQuota == [u \in Users |-> 1]
=============================================================================
