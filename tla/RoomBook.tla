------------------------------ MODULE RoomBook ------------------------------
(***************************************************************************)
(* Rooms, the rooms that device documentation and light groups name, and   *)
(* the requests that change them (modules/web/src/main.rs), over the       *)
(* stores of crates/homenode-definitions.                                  *)
(*                                                                         *)
(* A room has an id, made from the name it was created with, and a name;   *)
(* documents and groups hold the name.  docs_store is a lock that a        *)
(* request keeps while it changes rooms or groups as well; the stores of   *)
(* these lock only their map: they list it again to save it, and write the *)
(* file with no lock held.  Once a request has docs_store it awaits        *)
(* nothing, but requests run on several threads: between two of its steps  *)
(* others take theirs.  One that waits for docs_store may be dropped.      *)
(***************************************************************************)
EXTENDS WebRequests, Functions

CONSTANTS
  Names,         \* names of rooms, up to case
  NoRoom,        \* None, and a room that does not exist
  Slug,          \* slugify_room_id: the id a name gives
  Keys,          \* keys of documents
  BridgeLights,  \* keys of lights the Hue bridge lists in its rooms
  DefaultKeys,   \* Govee devices that are documented at the start
  Groups,        \* ids of light groups
  DefaultGroup,  \* the group made when there is none
  DefaultRoom    \* the room that group and the Govee documents name

ASSUME RoomAssumption ==
  /\ NoRoom \notin Names /\ DefaultRoom \in Names
  /\ BridgeLights \cup DefaultKeys \subseteq Keys
  /\ DefaultGroup \in Groups /\ DOMAIN Slug = Names

VARIABLES
  rooms,      \* name of each room
  roomsFile,
  docs,       \* documents: room, other text, product
  docsFile,
  groups,     \* room of each light group
  groupsFile,
  loose,      \* names that may be in use without a room, and why: see Loosen
  deleted,    \* groups deleted while no rename was carrying them
  mixed       \* stores changed while another request was saving them

bookVars == <<rooms, roomsFile, docs, docsFile, groups, groupsFile,
              loose, deleted, mixed>>

Ids == Range(Slug)
NoDoc == [room |-> NoRoom, text |-> FALSE, product |-> FALSE]
RoomNames == Range(rooms) \ {NoRoom}
NamesIn(d, g) == ({d[k].room : k \in Keys} \cup Range(g)) \ {NoRoom}

-----------------------------------------------------------------------------
(* Locks, and saves under way                                              *)

\* docs_store is held through the creation of a room, through an import, and
\* by a rename from the documents to its last group.
HoldsDocs(r) ==
  \/ r.op \in {"save_doc", "import"}
  \/ r.op = "save_room" /\ r.pc \in {"groups", "gput", "glist", "gwrite"}
DocsFree == \A c \in Calls : ~HoldsDocs(calls[c])

Saving(store) ==
  {c \in Calls : calls[c].pc \in IF store = "rooms" THEN {"list", "write"}
                                                    ELSE {"glist", "gwrite"}}

\* A change of a store by call c: is another save of it under way?
Mix(c, store) ==
  mixed' = IF Saving(store) \subseteq {c} THEN mixed \ {store} ELSE mixed \cup {store}

\* Old names of rooms whose documents, and whose groups, a rename is to carry.
Renamed(r) == r.op = "save_room" /\ r.old \notin {NoRoom, r.name}
Awaited(pcs) ==
  {calls[c].old : c \in {c \in Under({"save_room"}, pcs) : Renamed(calls[c])}}
Pending == Awaited({"list", "write", "docs"})

\* Names that lose their room other than by a rename that will carry their
\* users: a deleted or overwritten room; a name given to a document or a group
\* without looking for the room; a rename overtaken by the next one, or dropped
\* while it waited for the documents; a restart, see Interrupted.
Loosen(names, book) == loose' = loose \cup (names \ (Range(book) \cup Pending))

BookInit(files) ==
  /\ rooms = files.rooms /\ roomsFile = files.rooms
  /\ docs = files.docs /\ docsFile = files.docs
  /\ groups = files.groups /\ groupsFile = files.groups
  /\ loose = NamesIn(files.docs, files.groups) \ Range(files.rooms)
  /\ deleted = {} /\ mixed = {}

-----------------------------------------------------------------------------
(* RoomsStore                                                              *)

\* RoomsStore::upsert: what is put in place of another name is overwritten,
\* unless call c renames it.
PutRoom(c, i, n, carried) ==
  /\ rooms' = [rooms EXCEPT ![i] = n]
  /\ Loosen({rooms[i]} \ {NoRoom, n, carried}, rooms')
  /\ Mix(c, "rooms")
  /\ UNCHANGED <<roomsFile, groups, groupsFile, deleted>>

\* RoomsStore::persist
ListRooms(c) ==
  /\ calls[c].pc = "list"
  /\ Continue(c, [calls[c] EXCEPT !.pc = "write", !.copy = rooms])
  /\ UNCHANGED bookVars

WriteRooms(c) ==
  /\ calls[c].pc = "write"
  /\ roomsFile' = calls[c].copy
  /\ LET r == calls[c]
         then == CASE r.op = "save_doc" -> "persist"
                   [] r.op = "import" -> "assign"
                   [] r.op = "fallback" /\ r.todo # {} -> "next"
                   [] Renamed(r) -> "docs"
                   [] OTHER -> "done"
     IN  IF then = "done" THEN Return(c)
         ELSE Continue(c, [r EXCEPT !.pc = then, !.copy = {}])
  /\ UNCHANGED <<rooms, docs, docsFile, groups, groupsFile, loose, deleted, mixed>>

Request(op, pc, n) ==
  [op |-> op, pc |-> pc, name |-> n, id |-> IF n = NoRoom THEN "" ELSE Slug[n],
   old |-> NoRoom, copy |-> {}, todo |-> {}, at |-> {}, dirty |-> FALSE]

-----------------------------------------------------------------------------
(* Documents                                                               *)

\* save_device_doc_handler: a room that is not found is created.
SaveDoc(c, k, n, text) ==
  /\ DocsFree
  /\ docs' = [docs EXCEPT ![k] = [room |-> n, text |-> text, product |-> @.product]]
  /\ IF n = NoRoom \/ n \in RoomNames
       THEN Brief /\ docsFile' = docs'
       ELSE Begin(c, Request("save_doc", "create", n)) /\ UNCHANGED docsFile
  /\ UNCHANGED <<rooms, roomsFile, groups, groupsFile, loose, deleted, mixed>>

CreateRoom(c) ==
  /\ calls[c].pc = "create"
  /\ PutRoom(c, calls[c].id, calls[c].name, NoRoom)
  /\ Goto(c, "list")
  /\ UNCHANGED <<docs, docsFile>>

PersistDoc(c) ==
  /\ calls[c].pc = "persist"
  /\ docsFile' = docs
  /\ Return(c)
  /\ UNCHANGED <<rooms, roomsFile, docs, groups, groupsFile, loose, deleted, mixed>>

\* v1_claim_device_handler
Claim(k, n) ==
  /\ DocsFree
  /\ docs' = [docs EXCEPT ![k] = [room |-> IF n = NoRoom THEN @.room ELSE n,
                                  text |-> TRUE, product |-> @.product]]
  /\ docsFile' = docs'
  /\ Loosen({n} \ {NoRoom}, rooms)
  /\ Brief
  /\ UNCHANGED <<rooms, roomsFile, groups, groupsFile, deleted, mixed>>

\* assign_device_product_handler, of a product in the catalog
AssignProduct(k) ==
  /\ DocsFree
  /\ docs' = [docs EXCEPT ![k].product = TRUE]
  /\ docsFile' = docs'
  /\ Brief
  /\ UNCHANGED <<rooms, roomsFile, groups, groupsFile, loose, deleted, mixed>>

-----------------------------------------------------------------------------
(* Rooms                                                                   *)

\* save_room_handler: the form of room i, or of a new one (i = "").
SaveRoom(c, i, n) ==
  /\ Begin(c, [Request("save_room", "put", n) EXCEPT
                 !.id = IF i = "" THEN Slug[n] ELSE i,
                 !.old = IF i = "" THEN NoRoom ELSE rooms[i]])
  /\ UNCHANGED bookVars

SaveRoomPut(c) ==
  /\ calls[c].pc = "put"
  /\ PutRoom(c, calls[c].id, calls[c].name, calls[c].old)
  /\ Goto(c, "list")
  /\ UNCHANGED <<docs, docsFile>>

\* Mutant: the request carries what still has the name it gives.
CarryDocs_Back(c) ==
  /\ calls[c].pc = "docs"
  /\ DocsFree
  /\ docs' = [k \in Keys |-> IF docs[k].room = calls[c].name
                               THEN [docs[k] EXCEPT !.room = calls[c].old] ELSE docs[k]]
  /\ docsFile' = docs'
  /\ Loosen({calls[c].name : k \in {k \in Keys : docs'[k] # docs[k]}}, rooms)
  /\ Goto(c, "groups")
  /\ UNCHANGED <<rooms, roomsFile, groups, groupsFile, deleted, mixed>>

CarryDocs(c) ==
  /\ calls[c].pc = "docs"
  /\ DocsFree
  /\ docs' = [k \in Keys |-> IF docs[k].room = calls[c].old
                               THEN [docs[k] EXCEPT !.room = calls[c].name] ELSE docs[k]]
  /\ docsFile' = IF docs' = docs THEN docsFile ELSE docs'
  /\ Loosen({calls[c].name : k \in {k \in Keys : docs'[k] # docs[k]}}, rooms)
  /\ Goto(c, "groups")
  /\ UNCHANGED <<rooms, roomsFile, groups, groupsFile, deleted, mixed>>

\* The client goes away while save_room_handler waits for docs_store: the room
\* has its new name, and nobody will carry documents and groups.
GiveUpRename(c) ==
  /\ calls[c].op = "save_room" /\ calls[c].pc = "docs"
  /\ loose' = loose \cup ({calls[c].old} \ RoomNames)
  /\ Fail(c, Idle)
  /\ UNCHANGED <<rooms, roomsFile, docs, docsFile, groups, groupsFile, deleted, mixed>>

\* Mutant: the groups are those of the file.
CarryGroups_Saved(c) ==
  /\ calls[c].pc = "groups"
  /\ LET mine == {g \in Groups : groupsFile[g] = calls[c].old}
     IN  IF mine = {} THEN Return(c)
                      ELSE Continue(c, [calls[c] EXCEPT !.pc = "gput", !.todo = mine])
  /\ UNCHANGED bookVars

CarryGroups(c) ==
  /\ calls[c].pc = "groups"
  /\ LET mine == {g \in Groups : groups[g] = calls[c].old}
     IN  IF mine = {} THEN Return(c)
                      ELSE Continue(c, [calls[c] EXCEPT !.pc = "gput", !.todo = mine])
  /\ UNCHANGED bookVars

CarryGroup(c, g) ==
  /\ calls[c].pc = "gput" /\ g \in calls[c].todo
  /\ groups' = [groups EXCEPT ![g] = calls[c].name]
  /\ Continue(c, [calls[c] EXCEPT !.pc = "glist", !.todo = @ \ {g}])
  /\ Mix(c, "groups")
  /\ UNCHANGED <<rooms, roomsFile, docs, docsFile, groupsFile, deleted>>
  /\ Loosen({calls[c].name}, rooms)

\* Mutant: the file is written before the room is removed.
DeleteRoom_SaveFirst(c, i) ==
  /\ rooms[i] # NoRoom
  /\ rooms' = [rooms EXCEPT ![i] = NoRoom]
  /\ Loosen({rooms[i]}, rooms')
  /\ Mix(c, "rooms")
  /\ Begin(c, [Request("delete_room", "write", NoRoom) EXCEPT !.copy = rooms])
  /\ UNCHANGED <<roomsFile, docs, docsFile, groups, groupsFile, deleted>>

\* delete_room_handler
DeleteRoom(c, i) ==
  /\ rooms[i] # NoRoom
  /\ rooms' = [rooms EXCEPT ![i] = NoRoom]
  /\ Loosen({rooms[i]}, rooms')
  /\ Mix(c, "rooms")
  /\ Begin(c, Request("delete_room", "list", NoRoom))
  /\ UNCHANGED <<roomsFile, docs, docsFile, groups, groupsFile, deleted>>

\* import_hue_rooms_handler: the bridge answers with its rooms and the lights
\* in them; without it, the Hue module answers with its rooms alone.
ImportRooms(c, at) ==
  /\ DocsFree
  /\ Begin(c, [Request("import", "next", NoRoom) EXCEPT !.todo = Range(at), !.at = at])
  /\ UNCHANGED bookVars

ImportFallback(c, names) ==
  /\ Begin(c, [Request("fallback", "next", NoRoom) EXCEPT !.todo = names])
  /\ UNCHANGED bookVars

ImportRoom(c, n) ==
  /\ calls[c].pc = "next" /\ n \in calls[c].todo
  /\ PutRoom(c, Slug[n], n, NoRoom)
  /\ Continue(c, [calls[c] EXCEPT !.pc = "list", !.name = n, !.todo = @ \ {n}])
  /\ UNCHANGED <<docs, docsFile>>

ImportAssign(c) ==
  /\ calls[c].pc = "assign"
  /\ LET r == calls[c]
         mine == {k \in BridgeLights : r.at[k] = r.name}
         dirty == r.dirty \/ \E k \in mine : docs[k].room # r.name
     IN  /\ docs' = [k \in Keys |-> IF k \in mine THEN [docs[k] EXCEPT !.room = r.name]
                                                 ELSE docs[k]]
         /\ Loosen({r.name : k \in mine}, rooms)
         /\ docsFile' = IF r.todo = {} /\ dirty THEN docs' ELSE docsFile
         /\ IF r.todo = {} THEN Return(c)
                           ELSE Continue(c, [r EXCEPT !.pc = "next", !.dirty = dirty])
  /\ UNCHANGED <<rooms, roomsFile, groups, groupsFile, deleted, mixed>>

-----------------------------------------------------------------------------
(* LightGroupsStore                                                        *)

CreateGroup(c, g, n) ==
  /\ groups' = [groups EXCEPT ![g] = n]
  /\ Loosen({n}, rooms)
  /\ deleted' = deleted \ {g}
  /\ Mix(c, "groups")
  /\ Begin(c, Request("create_group", "glist", n))
  /\ UNCHANGED <<rooms, roomsFile, docs, docsFile, groupsFile>>

Carrying(g) == \E c \in Calls : calls[c].pc \in {"gput", "glist", "gwrite"} /\ g \in calls[c].todo

DeleteGroup(c, g) ==
  /\ groups[g] # NoRoom
  /\ groups' = [groups EXCEPT ![g] = NoRoom]
  /\ deleted' = IF Carrying(g) THEN deleted ELSE deleted \cup {g}
  /\ Mix(c, "groups")
  /\ Begin(c, Request("delete_group", "glist", NoRoom))
  /\ UNCHANGED <<rooms, roomsFile, docs, docsFile, groupsFile, loose>>

\* LightGroupsStore::save
ListGroups(c) ==
  /\ calls[c].pc = "glist"
  /\ Continue(c, [calls[c] EXCEPT !.pc = "gwrite", !.copy = groups])
  /\ UNCHANGED bookVars

WriteGroups(c) ==
  /\ calls[c].pc = "gwrite"
  /\ groupsFile' = calls[c].copy
  /\ IF calls[c].todo = {} THEN Return(c)
     ELSE Continue(c, [calls[c] EXCEPT !.pc = "gput", !.copy = {}])
  /\ UNCHANGED <<rooms, roomsFile, docs, docsFile, groups, loose, deleted, mixed>>

-----------------------------------------------------------------------------
\* Names that a restart may leave without their room: what a request under way
\* was to create or to carry, what a file does not have yet or still has, and
\* the one that main gives to lamps and to the default group.
Interrupted ==
  {calls[c].old : c \in {c \in Calls : Renamed(calls[c])}}
    \cup {calls[c].name : c \in Under({"save_doc"}, {"create"})}
    \cup (RoomNames \ Range(roomsFile))
    \cup {docsFile[k].room : k \in {k \in Keys : docsFile[k] # docs[k]}}
    \cup {groupsFile[g] : g \in {g \in Groups : groupsFile[g] # groups[g]}}
    \cup {DefaultRoom}

\* main: the stores are loaded; Govee devices without a document get one, and
\* a group is made when there is none.
Reload ==
  LET d == [k \in Keys |-> IF k \in DefaultKeys /\ docsFile[k] = NoDoc
                             THEN [NoDoc EXCEPT !.room = DefaultRoom, !.text = TRUE,
                                                !.product = TRUE]
                             ELSE docsFile[k]]
      g == IF \A x \in Groups : groupsFile[x] = NoRoom
             THEN [groupsFile EXCEPT ![DefaultGroup] = DefaultRoom] ELSE groupsFile
  IN  /\ rooms' = roomsFile
      /\ docs' = d /\ docsFile' = d
      /\ groups' = g /\ groupsFile' = g
      /\ loose' = (loose \cup Interrupted) \cap (NamesIn(d, g) \ Range(roomsFile))
      /\ deleted' = {} /\ mixed' = {}
      /\ UNCHANGED roomsFile

BookRequest(c) ==
  \/ \E k \in Keys, n \in Names \cup {NoRoom}, text \in BOOLEAN : SaveDoc(c, k, n, text)
  \/ \E i \in Ids \cup {""}, n \in Names : SaveRoom(c, i, n)
  \/ \E i \in Ids : DeleteRoom(c, i)
  \/ \E at \in [BridgeLights -> Names] : ImportRooms(c, at)
  \/ \E names \in SUBSET Names : names # {} /\ ImportFallback(c, names)
  \/ \E g \in Groups, n \in Names : CreateGroup(c, g, n)
  \/ \E g \in Groups : DeleteGroup(c, g)

BookStep(c) ==
  \/ ListRooms(c) \/ WriteRooms(c) \/ CreateRoom(c) \/ PersistDoc(c)
  \/ SaveRoomPut(c) \/ CarryDocs(c) \/ GiveUpRename(c) \/ CarryGroups(c)
  \/ \E g \in Groups : CarryGroup(c, g)
  \/ \E n \in Names : ImportRoom(c, n)
  \/ ImportAssign(c) \/ ListGroups(c) \/ WriteGroups(c)

BookBrief ==
  \/ \E k \in Keys, n \in Names \cup {NoRoom} : Claim(k, n)
  \/ \E k \in Keys : AssignProduct(k)

-----------------------------------------------------------------------------
(* Properties                                                              *)

\* A room that documents or groups name exists, or a rename is about to carry
\* them, or its name was let go in one of the ways Loosen lists: a rename that
\* is dropped before the documents, or that a restart cuts short, is one.
\* (main.rs 1447-1474, 786-799: the rename is spread over three stores.)
RoomsNamed ==
  /\ \A k \in Keys :
       docs[k].room \in RoomNames \cup {NoRoom} \cup Pending \cup loose
                         \cup {calls[c].name : c \in Under({"save_doc"}, {"create"})}
  /\ \A g \in Groups :
       \/ groups[g] \in RoomNames \cup {NoRoom} \cup Pending \cup loose
       \/ groups[g] \in Awaited({"groups"})
       \/ \E c \in Under({"save_room"}, {"gput", "glist", "gwrite"}) :
            g \in calls[c].todo /\ groups[g] = calls[c].old

\* With nobody saving, the files hold what the stores hold, unless a request
\* changed a store while another one was saving it; the documents' file always
\* does when their lock is free.  (rooms.rs 308-362, light_groups.rs 92-161)
FilesCurrent ==
  /\ Saving("rooms") = {} /\ "rooms" \notin mixed => roomsFile = rooms
  /\ Saving("groups") = {} /\ "groups" \notin mixed => groupsFile = groups
  /\ DocsFree => docsFile = docs

\* A deleted group comes back only if a rename had listed it before.
\* (main.rs 1467-1474: groups are listed, then put back one by one.)
DeletedStays == \A g \in deleted : groups[g] = NoRoom
=============================================================================
