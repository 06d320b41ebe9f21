-------------------------- MODULE WebModuleProofs ---------------------------
(***************************************************************************)
(* Theorems about the web module for any number of requests under way:     *)
(* first the requests and the rooms, documents and light groups, then the  *)
(* links, the BLE devices, the ignore list and the page, then the lights.  *)
(***************************************************************************)
EXTENDS WebModule, WellFoundedInduction, TLAPS

MaybeNames == Names \cup {NoRoom}
RoomMaps == [Ids -> MaybeNames]
DocMaps == [Keys -> [room : MaybeNames, text : BOOLEAN, product : BOOLEAN]]
GroupMaps == [Groups -> MaybeNames]

\* A slot holds a request of one of the three parts.
RoomSlot(r) ==
  /\ DOMAIN r = {"op", "pc", "name", "id", "old", "copy", "todo", "at", "dirty"}
  /\ \/ r.op = "save_doc" /\ r.pc \in {"create", "list", "write", "persist"}
     \/ r.op = "save_room" /\ r.pc \in {"put", "list", "write", "docs", "groups",
                                        "gput", "glist", "gwrite"}
     \/ r.op = "delete_room" /\ r.pc \in {"list", "write"}
     \/ r.op = "import" /\ r.pc \in {"next", "list", "write", "assign"}
     \/ r.op = "fallback" /\ r.pc \in {"next", "list", "write"}
     \/ r.op \in {"create_group", "delete_group"} /\ r.pc \in {"glist", "gwrite"}
  /\ r.pc \in {"docs", "groups"} => Renamed(r)
  /\ r.op = "save_room" /\ r.pc \in {"gput", "glist", "gwrite"} => Renamed(r)
  /\ r.pc \in {"create", "put"} => r.id \in Ids /\ r.name \in Names
  /\ r.op \in {"import", "fallback"} => r.todo \subseteq Names
  /\ r.op \in {"import", "fallback"} /\ r.pc # "next" => r.name \in Names
  /\ r.op = "save_room" => r.name \in Names /\ r.old \in MaybeNames
  /\ r.op \in {"create_group", "delete_group"} => r.todo = {}
  /\ r.dirty \in BOOLEAN
  /\ r.pc = "write" => r.copy \in RoomMaps
  /\ r.pc = "gwrite" => r.copy \in GroupMaps

DeviceFields == {"op", "pc", "items", "copy", "devs"}

DeviceSlot(r) ==
  /\ DOMAIN r = DeviceFields
  /\ r.items \subseteq Items
  /\ \/ r.op = "page" /\ r.pc \in {"snapshot", "write_back"}
     \/ r.op = "ingest" /\ r.pc \in {"store", "upsert", "reread", "relink", "write_back", "adrift"}
     \/ r.op = "forget" /\ r.pc \in {"replace", "adrift"}
     \/ r.op = "ignore" /\ r.pc \in {"ilist", "iwrite"}

LightSlot(r) ==
  /\ DOMAIN r = {"op", "pc", "ids", "passes", "todo"}
  /\ r.op = "lights" /\ r.pc \in {"snapshot", "send", "cache", "query", "adrift"}

Slotted(r) == r = Idle \/ RoomSlot(r) \/ DeviceSlot(r) \/ LightSlot(r)

Shaped == DOMAIN calls = Calls /\ \A c \in Calls : Slotted(calls[c])

RoomTypes ==
  /\ rooms \in RoomMaps /\ roomsFile \in RoomMaps
  /\ docs \in DocMaps /\ docsFile \in DocMaps
  /\ groups \in GroupMaps /\ groupsFile \in GroupMaps

\* Slot c is given to r, the others are left alone.
Put(c, r) ==
  /\ DOMAIN calls' = Calls
  /\ calls'[c] = r
  /\ \A e \in Calls \ {c} : calls'[e] = calls[e]

LEMMA Puts ==
  ASSUME Shaped, NEW c \in Calls, NEW r
  PROVE  /\ Continue(c, r) => Put(c, r)
         /\ Begin(c, r) => Put(c, r) /\ calls[c] = Idle
         /\ BeginLong(c, r, 2) => Put(c, r) /\ calls[c] = Idle
         /\ Fail(c, r) => Put(c, r)
         /\ Return(c) => Put(c, Idle)
BY DEF Shaped, Continue, Begin, BeginLong, Fail, Return, Put

LEMMA Gotos ==
  ASSUME Shaped, NEW c \in Calls, NEW p, Goto(c, p)
  PROVE  Put(c, [calls[c] EXCEPT !.pc = p])
BY DEF Shaped, Continue, Goto, Put

LEMMA Reshaped ==
  ASSUME Shaped, NEW c \in Calls, NEW r, Put(c, r), Slotted(r)
  PROVE  Shaped'
BY DEF Shaped, Put, Slotted, RoomSlot, DeviceSlot, LightSlot, Renamed, Idle

-----------------------------------------------------------------------------
(* Shape                                                                   *)

\* Request c goes on to another step of a room request, or ends.
Moved(c) == UNCHANGED calls \/ \E r : Put(c, r) /\ (r = Idle \/ RoomSlot(r))

LEMMA BookMoves ==
  ASSUME Shaped, RoomTypes, NEW c \in Calls, BookRequest(c) \/ BookStep(c)
  PROVE  Moved(c)
<1>0. ASSUME NEW r, r = Idle \/ RoomSlot(r), Begin(c, r) \/ Continue(c, r) \/ Put(c, r)
      PROVE  Moved(c)
  BY <1>0, Puts DEF Moved
<1>. USE DEF Request, RoomSlot, Renamed, Slotted
<1>1. ASSUME NEW k \in Keys, NEW n \in Names \cup {NoRoom}, NEW text \in BOOLEAN,
             SaveDoc(c, k, n, text)
      PROVE  Moved(c)
  <2>1. CASE Brief
    BY <2>1 DEF Brief, Moved
  <2>2. CASE n \in Names /\ Begin(c, Request("save_doc", "create", n))
    <3>1. RoomSlot(Request("save_doc", "create", n))
      BY <2>2, RoomAssumption DEF Range, Ids
    <3>q. QED BY <2>2, <3>1, <1>0
  <2>q. QED BY <1>1, <2>1, <2>2 DEF SaveDoc
<1>2. ASSUME NEW i \in Ids \cup {""}, NEW n \in Names, SaveRoom(c, i, n)
      PROVE  Moved(c)
  <2>. DEFINE r == [Request("save_room", "put", n) EXCEPT
                      !.id = IF i = "" THEN Slug[n] ELSE i,
                      !.old = IF i = "" THEN NoRoom ELSE rooms[i]]
  <2>1. RoomSlot(r)
    BY RoomAssumption DEF Range, Ids, RoomTypes, RoomMaps, MaybeNames
  <2>2. Begin(c, r)
    BY <1>2 DEF SaveRoom
  <2>q. QED BY ONLY <2>1, <2>2, <1>0
<1>3. ASSUME NEW i \in Ids, DeleteRoom(c, i)
      PROVE  Moved(c)
  <2>1. RoomSlot(Request("delete_room", "list", NoRoom))
    OBVIOUS
  <2>q. QED BY <1>3, <2>1, <1>0 DEF DeleteRoom
<1>4. ASSUME NEW at \in [BridgeLights -> Names], ImportRooms(c, at)
      PROVE  Moved(c)
  <2>1. RoomSlot([Request("import", "next", NoRoom) EXCEPT !.todo = Range(at), !.at = at])
    BY DEF Range
  <2>q. QED BY <1>4, <2>1, <1>0 DEF ImportRooms
<1>5. ASSUME NEW names \in SUBSET Names, ImportFallback(c, names)
      PROVE  Moved(c)
  <2>1. RoomSlot([Request("fallback", "next", NoRoom) EXCEPT !.todo = names])
    OBVIOUS
  <2>q. QED BY <1>5, <2>1, <1>0 DEF ImportFallback
<1>6. ASSUME NEW g \in Groups, NEW n \in Names, CreateGroup(c, g, n)
      PROVE  Moved(c)
  <2>1. RoomSlot(Request("create_group", "glist", n))
    OBVIOUS
  <2>q. QED BY <1>6, <2>1, <1>0 DEF CreateGroup
<1>7. ASSUME NEW g \in Groups, DeleteGroup(c, g)
      PROVE  Moved(c)
  <2>1. RoomSlot(Request("delete_group", "glist", NoRoom))
    OBVIOUS
  <2>q. QED BY <1>7, <2>1, <1>0 DEF DeleteGroup
<1>. USE DEF Shaped, Idle, DeviceSlot, LightSlot
<1>9. ASSUME ListRooms(c) PROVE Moved(c)
  <2>1. RoomSlot([calls[c] EXCEPT !.pc = "write", !.copy = rooms])
    BY <1>9 DEF ListRooms, RoomTypes
  <2>2. Continue(c, [calls[c] EXCEPT !.pc = "write", !.copy = rooms])
    BY ONLY <1>9 DEF ListRooms
  <2>q. QED BY ONLY <2>1, <2>2, <1>0
<1>10. ASSUME WriteRooms(c) PROVE Moved(c)
  <2>1. ASSUME NEW p \in {"persist", "assign", "next", "docs"},
               p = "persist" => calls[c].op = "save_doc",
               p = "assign" => calls[c].op = "import",
               p = "next" => calls[c].op = "fallback",
               p = "docs" => Renamed(calls[c]),
               Continue(c, [calls[c] EXCEPT !.pc = p, !.copy = {}])
        PROVE  Moved(c)
    <3>1. RoomSlot([calls[c] EXCEPT !.pc = p, !.copy = {}])
      BY <1>10, <2>1 DEF WriteRooms
    <3>q. QED BY ONLY <2>1, <3>1, <1>0
  <2>2. ASSUME Return(c) PROVE Moved(c)
    BY <2>2, <1>0, Puts
  <2>q. QED BY <1>10, <2>1, <2>2 DEF WriteRooms
<1>11. ASSUME NEW p \in {"list", "groups"}, Goto(c, p), calls[c].pc \in {"create", "put", "docs"},
              p = "groups" <=> calls[c].pc = "docs"
       PROVE  Moved(c)
  <2>1. RoomSlot([calls[c] EXCEPT !.pc = p])
    BY <1>11
  <2>2. Put(c, [calls[c] EXCEPT !.pc = p])
    BY <1>11, Gotos
  <2>q. QED BY ONLY <2>1, <2>2, <1>0
<1>12. ASSUME CarryGroups(c) PROVE Moved(c)
  <2>1. ASSUME NEW mine, Continue(c, [calls[c] EXCEPT !.pc = "gput", !.todo = mine])
        PROVE  Moved(c)
    <3>1. RoomSlot([calls[c] EXCEPT !.pc = "gput", !.todo = mine])
      BY <1>12 DEF CarryGroups
    <3>q. QED BY ONLY <2>1, <3>1, <1>0
  <2>2. ASSUME Return(c) PROVE Moved(c)
    BY <2>2, <1>0, Puts
  <2>q. QED BY <1>12, <2>1, <2>2 DEF CarryGroups
<1>13. ASSUME NEW g \in Groups, CarryGroup(c, g) PROVE Moved(c)
  <2>1. RoomSlot([calls[c] EXCEPT !.pc = "glist", !.todo = @ \ {g}])
    BY <1>13 DEF CarryGroup
  <2>2. Continue(c, [calls[c] EXCEPT !.pc = "glist", !.todo = @ \ {g}])
    BY ONLY <1>13 DEF CarryGroup
  <2>q. QED BY ONLY <2>1, <2>2, <1>0
<1>14. ASSUME NEW n \in Names, ImportRoom(c, n) PROVE Moved(c)
  <2>1. RoomSlot([calls[c] EXCEPT !.pc = "list", !.name = n, !.todo = @ \ {n}])
    BY <1>14 DEF ImportRoom
  <2>2. Continue(c, [calls[c] EXCEPT !.pc = "list", !.name = n, !.todo = @ \ {n}])
    BY ONLY <1>14 DEF ImportRoom
  <2>q. QED BY ONLY <2>1, <2>2, <1>0
<1>15. ASSUME ImportAssign(c) PROVE Moved(c)
  <2>1. ASSUME NEW dirty \in BOOLEAN, Continue(c, [calls[c] EXCEPT !.pc = "next", !.dirty = dirty])
        PROVE  Moved(c)
    <3>1. RoomSlot([calls[c] EXCEPT !.pc = "next", !.dirty = dirty])
      BY <1>15 DEF ImportAssign
    <3>q. QED BY ONLY <2>1, <3>1, <1>0
  <2>2. ASSUME Return(c) PROVE Moved(c)
    BY <2>2, <1>0, Puts
  <2>q. QED BY <1>15, <2>1, <2>2 DEF ImportAssign
<1>16. ASSUME ListGroups(c) PROVE Moved(c)
  <2>1. RoomSlot([calls[c] EXCEPT !.pc = "gwrite", !.copy = groups])
    BY <1>16 DEF ListGroups, RoomTypes
  <2>2. Continue(c, [calls[c] EXCEPT !.pc = "gwrite", !.copy = groups])
    BY ONLY <1>16 DEF ListGroups
  <2>q. QED BY ONLY <2>1, <2>2, <1>0
<1>17. ASSUME WriteGroups(c) PROVE Moved(c)
  <2>1. ASSUME calls[c].todo # {}, Continue(c, [calls[c] EXCEPT !.pc = "gput", !.copy = {}])
        PROVE  Moved(c)
    <3>1. RoomSlot([calls[c] EXCEPT !.pc = "gput", !.copy = {}])
      BY <1>17, <2>1 DEF WriteGroups
    <3>q. QED BY ONLY <2>1, <3>1, <1>0
  <2>2. ASSUME Return(c) PROVE Moved(c)
    BY <2>2, <1>0, Puts
  <2>q. QED BY <1>17, <2>1, <2>2 DEF WriteGroups
<1>18. ASSUME PersistDoc(c) PROVE Moved(c)
  BY <1>18, <1>0, Puts DEF PersistDoc
<1>19. ASSUME GiveUpRename(c) PROVE Moved(c)
  BY <1>19, <1>0, Puts DEF GiveUpRename
<1>q. QED
  BY ONLY <1>1, <1>2, <1>3, <1>4, <1>5, <1>6, <1>7, <1>9, <1>10, <1>11, <1>12, <1>13,
     <1>14, <1>15, <1>16, <1>17, <1>18, <1>19, BookRequest(c) \/ BookStep(c)
     DEF BookRequest, BookStep, CreateRoom, SaveRoomPut, CarryDocs

LEMMA BookShape ==
  ASSUME Shaped, RoomTypes, NEW c \in Calls, BookRequest(c) \/ BookStep(c)
  PROVE  Shaped'
<1>1. CASE UNCHANGED calls
  BY <1>1 DEF Shaped
<1>2. ASSUME NEW r, Put(c, r), r = Idle \/ RoomSlot(r)
      PROVE  Shaped'
  BY <1>2, Reshaped DEF Slotted
<1>q. QED BY <1>1, <1>2, BookMoves DEF Moved

LEMMA BookTypes ==
  ASSUME Shaped, RoomTypes, NEW c \in Calls, BookBrief \/ BookRequest(c) \/ BookStep(c)
  PROVE  RoomTypes'
<1>. USE DEF RoomTypes
<1>1. ASSUME NEW k \in Keys, NEW n \in Names \cup {NoRoom}, NEW text \in BOOLEAN,
             SaveDoc(c, k, n, text)
      PROVE  RoomTypes'
  BY <1>1 DEF SaveDoc, DocMaps, MaybeNames
<1>2. ASSUME NEW k \in Keys, NEW n \in Names \cup {NoRoom}, Claim(k, n)
      PROVE  RoomTypes'
  BY <1>2 DEF Claim, DocMaps, MaybeNames
<1>3. ASSUME NEW k \in Keys, AssignProduct(k)
      PROVE  RoomTypes'
  BY <1>3 DEF AssignProduct, DocMaps
<1>4. ASSUME NEW i \in Ids, NEW n \in Names, NEW m, PutRoom(c, i, n, m),
             UNCHANGED <<docs, docsFile>>
      PROVE  RoomTypes'
  BY <1>4 DEF PutRoom, RoomMaps, MaybeNames
<1>5. ASSUME CreateRoom(c) \/ SaveRoomPut(c)
      PROVE  RoomTypes'
  <2>1. calls[c].id \in Ids /\ calls[c].name \in Names
    BY <1>5 DEF CreateRoom, SaveRoomPut, Shaped, Slotted, RoomSlot, DeviceSlot, LightSlot, Idle
  <2>q. QED BY <1>4, <1>5, <2>1 DEF CreateRoom, SaveRoomPut
<1>6. ASSUME NEW n \in Names, ImportRoom(c, n)
      PROVE  RoomTypes'
  BY <1>4, <1>6, RoomAssumption DEF ImportRoom, Ids, Range
<1>7. ASSUME NEW i \in Ids, DeleteRoom(c, i)
      PROVE  RoomTypes'
  BY <1>7 DEF DeleteRoom, RoomMaps, MaybeNames
<1>8. ASSUME WriteRooms(c)
      PROVE  RoomTypes'
  <2>1. calls[c].copy \in RoomMaps
    BY <1>8 DEF WriteRooms, Shaped, Slotted, RoomSlot, DeviceSlot, LightSlot, Idle
  <2>q. QED BY <1>8, <2>1 DEF WriteRooms
<1>9. ASSUME CarryDocs(c)
      PROVE  RoomTypes'
  <2>1. calls[c].name \in MaybeNames
    BY <1>9 DEF CarryDocs, Shaped, Slotted, RoomSlot, DeviceSlot, LightSlot, Idle, MaybeNames
  <2>q. QED BY <1>9, <2>1 DEF CarryDocs, DocMaps
<1>10. ASSUME ImportAssign(c)
       PROVE  RoomTypes'
  <2>1. calls[c].name \in MaybeNames
    BY <1>10 DEF ImportAssign, Shaped, Slotted, RoomSlot, DeviceSlot, LightSlot, Idle, MaybeNames
  <2>q. QED BY <1>10, <2>1 DEF ImportAssign, DocMaps
<1>11. ASSUME NEW g \in Groups, CarryGroup(c, g)
       PROVE  RoomTypes'
  <2>1. calls[c].name \in MaybeNames
    BY <1>11 DEF CarryGroup, Shaped, Slotted, RoomSlot, DeviceSlot, LightSlot, Idle, MaybeNames
  <2>q. QED BY <1>11, <2>1 DEF CarryGroup, GroupMaps
<1>12. ASSUME NEW g \in Groups, NEW n \in Names, CreateGroup(c, g, n)
       PROVE  RoomTypes'
  BY <1>12 DEF CreateGroup, GroupMaps, MaybeNames
<1>13. ASSUME NEW g \in Groups, DeleteGroup(c, g)
       PROVE  RoomTypes'
  BY <1>13 DEF DeleteGroup, GroupMaps, MaybeNames
<1>14. ASSUME WriteGroups(c)
       PROVE  RoomTypes'
  <2>1. calls[c].copy \in GroupMaps
    BY <1>14 DEF WriteGroups, Shaped, Slotted, RoomSlot, DeviceSlot, LightSlot, Idle
  <2>q. QED BY <1>14, <2>1 DEF WriteGroups
<1>15. ASSUME UNCHANGED <<rooms, roomsFile, docs, groups, groupsFile>>,
              docsFile' = docs \/ UNCHANGED docsFile
       PROVE  RoomTypes'
  BY <1>15
<1>q. QED
  BY ONLY <1>1, <1>2, <1>3, <1>5, <1>6, <1>7, <1>8, <1>9, <1>10, <1>11, <1>12, <1>13,
     <1>14, <1>15, BookBrief \/ BookRequest(c) \/ BookStep(c)
     DEF BookBrief, BookRequest, BookStep, SaveRoom, ImportRooms, ImportFallback, ListRooms,
         PersistDoc, GiveUpRename, CarryGroups, ListGroups, bookVars

-----------------------------------------------------------------------------
(* Saves                                                                   *)

\* While a store is not changed under a save, one request saves it, what it
\* has listed is the store, and before and after it the file is.
SavesOf(store, now, file) ==
  /\ \A a, b \in Saving(store) : a = b
  /\ \A a \in Saving(store) : calls[a].pc \in {"write", "gwrite"} => calls[a].copy = now
  /\ Saving(store) = {} => file = now

RoomSaves == "rooms" \notin mixed => SavesOf("rooms", rooms, roomsFile)
GroupSaves == "groups" \notin mixed => SavesOf("groups", groups, groupsFile)

\* A step that saves nothing leaves the saves alone.
LEMMA SavesApart ==
  ASSUME NEW c \in Calls, NEW r, Put(c, r),
         calls[c].pc \notin {"list", "write"}, r.pc \notin {"list", "write"},
         UNCHANGED <<rooms, roomsFile>>, "rooms" \in mixed' <=> "rooms" \in mixed, RoomSaves
  PROVE  RoomSaves'
BY DEF Put, RoomSaves, SavesOf, Saving

LEMMA GroupSavesApart ==
  ASSUME NEW c \in Calls, NEW r, Put(c, r),
         calls[c].pc \notin {"glist", "gwrite"}, r.pc \notin {"glist", "gwrite"},
         UNCHANGED <<groups, groupsFile>>, "groups" \in mixed' <=> "groups" \in mixed, GroupSaves
  PROVE  GroupSaves'
BY DEF Put, GroupSaves, SavesOf, Saving

LEMMA RoomsSaved ==
  ASSUME NEW c \in Calls, NEW r, Put(c, r), RoomSaves,
         calls[c].pc \notin {"list", "write"}, r.pc = "list", UNCHANGED roomsFile, Mix(c, "rooms")
  PROVE  RoomSaves'
<1>1. ASSUME "rooms" \notin mixed'
      PROVE  Saving("rooms") = {}
  BY <1>1 DEF Mix, Saving
<1>2. Saving("rooms") = {} => Saving("rooms")' = {c}
  BY DEF Saving, Put
<1>3. ASSUME "rooms" \notin mixed' PROVE SavesOf("rooms", rooms, roomsFile)'
  BY <1>1, <1>2, <1>3 DEF SavesOf, Put
<1>q. QED BY <1>3 DEF RoomSaves

LEMMA RoomsListed ==
  ASSUME NEW c \in Calls, NEW r, Put(c, r), RoomSaves,
         calls[c].pc = "list", r.pc = "write", r.copy = rooms, UNCHANGED <<rooms, roomsFile, mixed>>
  PROVE  RoomSaves'
<1>1. Saving("rooms")' = Saving("rooms") /\ c \in Saving("rooms")
  BY DEF Saving, Put
<1>q. QED BY <1>1 DEF RoomSaves, SavesOf, Put

LEMMA RoomsWritten ==
  ASSUME NEW c \in Calls, NEW r, Put(c, r), RoomSaves,
         calls[c].pc = "write", r.pc \notin {"list", "write"},
         roomsFile' = calls[c].copy, UNCHANGED <<rooms, mixed>>
  PROVE  RoomSaves'
<1>1. Saving("rooms")' = Saving("rooms") \ {c} /\ c \in Saving("rooms")
  BY DEF Saving, Put
<1>q. QED BY <1>1 DEF RoomSaves, SavesOf, Put

LEMMA GroupsSaved ==
  ASSUME NEW c \in Calls, NEW r, Put(c, r), GroupSaves,
         calls[c].pc \notin {"glist", "gwrite"}, r.pc = "glist", UNCHANGED groupsFile,
         Mix(c, "groups")
  PROVE  GroupSaves'
<1>1. ASSUME "groups" \notin mixed'
      PROVE  Saving("groups") = {}
  BY <1>1 DEF Mix, Saving
<1>2. Saving("groups") = {} => Saving("groups")' = {c}
  BY DEF Saving, Put
<1>3. ASSUME "groups" \notin mixed' PROVE SavesOf("groups", groups, groupsFile)'
  BY <1>1, <1>2, <1>3 DEF SavesOf, Put
<1>q. QED BY <1>3 DEF GroupSaves

LEMMA GroupsListed ==
  ASSUME NEW c \in Calls, NEW r, Put(c, r), GroupSaves,
         calls[c].pc = "glist", r.pc = "gwrite", r.copy = groups,
         UNCHANGED <<groups, groupsFile, mixed>>
  PROVE  GroupSaves'
<1>1. Saving("groups")' = Saving("groups") /\ c \in Saving("groups")
  BY DEF Saving, Put
<1>q. QED BY <1>1 DEF GroupSaves, SavesOf, Put

LEMMA GroupsWritten ==
  ASSUME NEW c \in Calls, NEW r, Put(c, r), GroupSaves,
         calls[c].pc = "gwrite", r.pc \notin {"glist", "gwrite"},
         groupsFile' = calls[c].copy, UNCHANGED <<groups, mixed>>
  PROVE  GroupSaves'
<1>1. Saving("groups")' = Saving("groups") \ {c} /\ c \in Saving("groups")
  BY DEF Saving, Put
<1>q. QED BY <1>1 DEF GroupSaves, SavesOf, Put

LEMMA BookSaves ==
  ASSUME Shaped, RoomTypes, RoomSaves, GroupSaves, NEW c \in Calls,
         BookRequest(c) \/ BookStep(c)
  PROVE  RoomSaves' /\ GroupSaves'
<1>1. ASSUME NEW r, Put(c, r), calls[c].pc \notin {"list", "write", "glist", "gwrite"},
             r.pc = "list", UNCHANGED <<roomsFile, groups, groupsFile>>, Mix(c, "rooms")
      PROVE  RoomSaves' /\ GroupSaves'
  <2>1. "groups" \in mixed' <=> "groups" \in mixed
    BY <1>1 DEF Mix
  <2>q. QED BY ONLY <1>1, <2>1, RoomsSaved, GroupSavesApart, RoomSaves, GroupSaves, c \in Calls
<1>2. ASSUME NEW r, Put(c, r), calls[c].pc \notin {"list", "write", "glist", "gwrite"},
             r.pc = "glist", UNCHANGED <<rooms, roomsFile, groupsFile>>, Mix(c, "groups")
      PROVE  RoomSaves' /\ GroupSaves'
  <2>1. "rooms" \in mixed' <=> "rooms" \in mixed
    BY <1>2 DEF Mix
  <2>q. QED BY ONLY <1>2, <2>1, GroupsSaved, SavesApart, RoomSaves, GroupSaves, c \in Calls
<1>3. ASSUME NEW r, Put(c, r), calls[c].pc \notin {"list", "write", "glist", "gwrite"},
             r.pc \notin {"list", "write", "glist", "gwrite"},
             UNCHANGED <<rooms, roomsFile, groups, groupsFile, mixed>>
      PROVE  RoomSaves' /\ GroupSaves'
  BY ONLY <1>3, SavesApart, GroupSavesApart, RoomSaves, GroupSaves, c \in Calls
<1>4. ASSUME UNCHANGED <<calls, rooms, roomsFile, groups, groupsFile, mixed>>
      PROVE  RoomSaves' /\ GroupSaves'
  BY <1>4 DEF RoomSaves, GroupSaves, SavesOf, Saving
<1>. USE Puts DEF Request, Idle
<1>5. ASSUME NEW k \in Keys, NEW n \in Names \cup {NoRoom}, NEW text \in BOOLEAN,
             SaveDoc(c, k, n, text)
      PROVE  RoomSaves' /\ GroupSaves'
  <2>1. CASE Brief
    BY ONLY <1>4, <1>5, <2>1 DEF SaveDoc, Brief
  <2>2. CASE Begin(c, Request("save_doc", "create", n))
    <3>1. Put(c, Request("save_doc", "create", n)) /\ calls[c] = Idle
      BY ONLY <2>2, Shaped, c \in Calls, Puts
    <3>2. Request("save_doc", "create", n).pc = "create" /\ Idle.pc = "none"
      BY DEF Request, Idle
    <3>q. QED BY ONLY <1>3, <1>5, <3>1, <3>2 DEF SaveDoc
  <2>q. QED BY <1>5, <2>1, <2>2 DEF SaveDoc
<1>6. ASSUME NEW i \in Ids \cup {""}, NEW n \in Names, SaveRoom(c, i, n)
      PROVE  RoomSaves' /\ GroupSaves'
  <2>. DEFINE r == [Request("save_room", "put", n) EXCEPT
                      !.id = IF i = "" THEN Slug[n] ELSE i,
                      !.old = IF i = "" THEN NoRoom ELSE rooms[i]]
  <2>1. r.pc = "put" /\ Idle.pc = "none"
    OBVIOUS
  <2>2. Put(c, r) /\ calls[c] = Idle
    BY <1>6 DEF SaveRoom
  <2>. HIDE DEF r
  <2>q. QED BY ONLY <1>3, <1>6, <2>1, <2>2 DEF SaveRoom, bookVars
<1>7. ASSUME NEW i \in Ids, DeleteRoom(c, i)
      PROVE  RoomSaves' /\ GroupSaves'
  <2>. DEFINE r == Request("delete_room", "list", NoRoom)
  <2>1. r.pc = "list" /\ Idle.pc = "none"
    OBVIOUS
  <2>2. Put(c, r) /\ calls[c] = Idle
    BY <1>7 DEF DeleteRoom
  <2>. HIDE DEF r
  <2>q. QED BY ONLY <1>1, <1>7, <2>1, <2>2 DEF DeleteRoom
<1>8. ASSUME NEW at \in [BridgeLights -> Names], ImportRooms(c, at)
      PROVE  RoomSaves' /\ GroupSaves'
  <2>. DEFINE r == [Request("import", "next", NoRoom) EXCEPT !.todo = Range(at), !.at = at]
  <2>1. r.pc = "next" /\ Idle.pc = "none"
    OBVIOUS
  <2>2. Put(c, r) /\ calls[c] = Idle
    BY <1>8 DEF ImportRooms
  <2>. HIDE DEF r
  <2>q. QED BY ONLY <1>3, <1>8, <2>1, <2>2 DEF ImportRooms, bookVars
<1>9. ASSUME NEW names \in SUBSET Names, ImportFallback(c, names)
      PROVE  RoomSaves' /\ GroupSaves'
  <2>. DEFINE r == [Request("fallback", "next", NoRoom) EXCEPT !.todo = names]
  <2>1. r.pc = "next" /\ Idle.pc = "none"
    OBVIOUS
  <2>2. Put(c, r) /\ calls[c] = Idle
    BY <1>9 DEF ImportFallback
  <2>. HIDE DEF r
  <2>q. QED BY ONLY <1>3, <1>9, <2>1, <2>2 DEF ImportFallback, bookVars
<1>10. ASSUME NEW g \in Groups, NEW n \in Names, CreateGroup(c, g, n)
       PROVE  RoomSaves' /\ GroupSaves'
  <2>. DEFINE r == Request("create_group", "glist", n)
  <2>1. r.pc = "glist" /\ Idle.pc = "none"
    OBVIOUS
  <2>2. Put(c, r) /\ calls[c] = Idle
    BY <1>10 DEF CreateGroup
  <2>. HIDE DEF r
  <2>q. QED BY ONLY <1>2, <1>10, <2>1, <2>2 DEF CreateGroup
<1>11. ASSUME NEW g \in Groups, DeleteGroup(c, g)
       PROVE  RoomSaves' /\ GroupSaves'
  <2>. DEFINE r == Request("delete_group", "glist", NoRoom)
  <2>1. r.pc = "glist" /\ Idle.pc = "none"
    OBVIOUS
  <2>2. Put(c, r) /\ calls[c] = Idle
    BY <1>11 DEF DeleteGroup
  <2>. HIDE DEF r
  <2>q. QED BY ONLY <1>2, <1>11, <2>1, <2>2 DEF DeleteGroup
<1>. USE DEF Shaped, Slotted, RoomSlot, DeviceSlot, LightSlot
<1>12. ASSUME ListRooms(c) PROVE RoomSaves' /\ GroupSaves'
  <2>. DEFINE r == [calls[c] EXCEPT !.pc = "write", !.copy = rooms]
  <2>1. r.pc = "write" /\ r.copy = rooms
    BY <1>12 DEF ListRooms
  <2>2. Put(c, r)
    BY ONLY <1>12, Shaped, c \in Calls, Puts DEF ListRooms
  <2>. HIDE DEF r
  <2>3. RoomSaves'
    BY ONLY <1>12, <2>1, <2>2, RoomsListed, RoomSaves, c \in Calls DEF ListRooms, bookVars
  <2>4. GroupSaves'
    BY ONLY <1>12, <2>1, <2>2, GroupSavesApart, GroupSaves, c \in Calls DEF ListRooms, bookVars
  <2>q. QED BY <2>3, <2>4
<1>13. ASSUME WriteRooms(c) PROVE RoomSaves' /\ GroupSaves'
  <2>1. \E r : Put(c, r) /\ r.pc \in {"persist", "assign", "next", "docs", "none"}
    <3>1. ASSUME NEW p \in {"persist", "assign", "next", "docs"},
                 Continue(c, [calls[c] EXCEPT !.pc = p, !.copy = {}])
          PROVE  \E r : Put(c, r) /\ r.pc \in {"persist", "assign", "next", "docs", "none"}
      <4>1. [calls[c] EXCEPT !.pc = p, !.copy = {}].pc = p
        BY <1>13 DEF WriteRooms
      <4>q. QED BY ONLY <3>1, <4>1, Shaped, c \in Calls, Puts
    <3>2. ASSUME Return(c)
          PROVE  \E r : Put(c, r) /\ r.pc \in {"persist", "assign", "next", "docs", "none"}
      BY ONLY <3>2, Shaped, c \in Calls, Puts DEF Idle
    <3>q. QED BY ONLY <1>13, <3>1, <3>2 DEF WriteRooms
  <2>2. PICK r : Put(c, r) /\ r.pc \in {"persist", "assign", "next", "docs", "none"}
    BY <2>1
  <2>3. RoomSaves'
    BY ONLY <1>13, <2>2, RoomsWritten, RoomSaves, c \in Calls DEF WriteRooms
  <2>4. GroupSaves'
    BY ONLY <1>13, <2>2, GroupSavesApart, GroupSaves, c \in Calls DEF WriteRooms
  <2>q. QED BY <2>3, <2>4
<1>14. ASSUME NEW i, NEW n, NEW m, PutRoom(c, i, n, m), Goto(c, "list"),
              calls[c].pc \in {"create", "put"}
       PROVE  RoomSaves' /\ GroupSaves'
  <2>1. [calls[c] EXCEPT !.pc = "list"].pc = "list"
    BY <1>14
  <2>q. QED BY ONLY <1>1, <1>14, <2>1, Gotos, Shaped, c \in Calls DEF PutRoom
<1>15. ASSUME NEW n \in Names, ImportRoom(c, n) PROVE RoomSaves' /\ GroupSaves'
  <2>. DEFINE r == [calls[c] EXCEPT !.pc = "list", !.name = n, !.todo = @ \ {n}]
  <2>1. r.pc = "list"
    BY <1>15 DEF ImportRoom
  <2>2. Put(c, r)
    BY ONLY <1>15, Shaped, c \in Calls, Puts DEF ImportRoom
  <2>q. QED BY ONLY <1>1, <1>15, <2>1, <2>2 DEF ImportRoom, PutRoom
<1>16. ASSUME CarryDocs(c) PROVE RoomSaves' /\ GroupSaves'
  <2>1. [calls[c] EXCEPT !.pc = "groups"].pc = "groups"
    BY <1>16 DEF CarryDocs
  <2>q. QED BY ONLY <1>3, <1>16, <2>1, Gotos, Shaped, c \in Calls DEF CarryDocs
<1>17. ASSUME CarryGroups(c) PROVE RoomSaves' /\ GroupSaves'
  <2>1. ASSUME NEW mine, Continue(c, [calls[c] EXCEPT !.pc = "gput", !.todo = mine])
        PROVE  RoomSaves' /\ GroupSaves'
    <3>1. [calls[c] EXCEPT !.pc = "gput", !.todo = mine].pc = "gput"
      BY <1>17 DEF CarryGroups
    <3>q. QED BY ONLY <1>3, <1>17, <2>1, <3>1, Puts, Shaped, c \in Calls DEF CarryGroups, bookVars
  <2>2. ASSUME Return(c) PROVE RoomSaves' /\ GroupSaves'
    BY ONLY <1>3, <1>17, <2>2, Puts, Shaped, c \in Calls DEF CarryGroups, bookVars, Idle
  <2>q. QED BY ONLY <1>17, <2>1, <2>2 DEF CarryGroups
<1>18. ASSUME NEW g \in Groups, CarryGroup(c, g) PROVE RoomSaves' /\ GroupSaves'
  <2>. DEFINE r == [calls[c] EXCEPT !.pc = "glist", !.todo = @ \ {g}]
  <2>1. r.pc = "glist"
    BY <1>18 DEF CarryGroup
  <2>2. Put(c, r)
    BY ONLY <1>18, Shaped, c \in Calls, Puts DEF CarryGroup
  <2>q. QED BY ONLY <1>2, <1>18, <2>1, <2>2 DEF CarryGroup
<1>19. ASSUME ImportAssign(c) PROVE RoomSaves' /\ GroupSaves'
  <2>1. ASSUME NEW dirty, Continue(c, [calls[c] EXCEPT !.pc = "next", !.dirty = dirty])
        PROVE  RoomSaves' /\ GroupSaves'
    <3>1. [calls[c] EXCEPT !.pc = "next", !.dirty = dirty].pc = "next"
      BY <1>19 DEF ImportAssign
    <3>q. QED BY ONLY <1>3, <1>19, <2>1, <3>1, Puts, Shaped, c \in Calls DEF ImportAssign
  <2>2. ASSUME Return(c) PROVE RoomSaves' /\ GroupSaves'
    BY ONLY <1>3, <1>19, <2>2, Puts, Shaped, c \in Calls DEF ImportAssign, Idle
  <2>q. QED BY ONLY <1>19, <2>1, <2>2 DEF ImportAssign
<1>20. ASSUME ListGroups(c) PROVE RoomSaves' /\ GroupSaves'
  <2>. DEFINE r == [calls[c] EXCEPT !.pc = "gwrite", !.copy = groups]
  <2>1. r.pc = "gwrite" /\ r.copy = groups
    BY <1>20 DEF ListGroups
  <2>2. Put(c, r)
    BY ONLY <1>20, Shaped, c \in Calls, Puts DEF ListGroups
  <2>. HIDE DEF r
  <2>3. RoomSaves'
    BY ONLY <1>20, <2>1, <2>2, SavesApart, RoomSaves, c \in Calls DEF ListGroups, bookVars
  <2>4. GroupSaves'
    BY ONLY <1>20, <2>1, <2>2, GroupsListed, GroupSaves, c \in Calls DEF ListGroups, bookVars
  <2>q. QED BY <2>3, <2>4
<1>21. ASSUME WriteGroups(c) PROVE RoomSaves' /\ GroupSaves'
  <2>1. \E r : Put(c, r) /\ r.pc \in {"gput", "none"}
    <3>1. [calls[c] EXCEPT !.pc = "gput", !.copy = {}].pc = "gput"
      BY <1>21 DEF WriteGroups
    <3>2. Idle.pc = "none"
      OBVIOUS
    <3>3. ASSUME NEW r, Continue(c, r) PROVE Put(c, r)
      BY ONLY <3>3, Shaped, c \in Calls, Puts
    <3>4. Return(c) => Put(c, Idle)
      BY ONLY Shaped, c \in Calls, Puts
    <3>q. QED BY ONLY <1>21, <3>1, <3>2, <3>3, <3>4 DEF WriteGroups
  <2>2. PICK r : Put(c, r) /\ r.pc \in {"gput", "none"}
    BY <2>1
  <2>3. RoomSaves'
    BY ONLY <1>21, <2>2, SavesApart, RoomSaves, c \in Calls DEF WriteGroups
  <2>4. GroupSaves'
    BY ONLY <1>21, <2>2, GroupsWritten, GroupSaves, c \in Calls DEF WriteGroups
  <2>q. QED BY <2>3, <2>4
<1>22. ASSUME PersistDoc(c) PROVE RoomSaves' /\ GroupSaves'
  BY ONLY <1>3, <1>22, Puts, Shaped, c \in Calls DEF PersistDoc, Idle
<1>23. ASSUME GiveUpRename(c) PROVE RoomSaves' /\ GroupSaves'
  BY ONLY <1>3, <1>23, Puts, Shaped, c \in Calls DEF GiveUpRename, Idle
<1>q. QED
  BY ONLY <1>5, <1>6, <1>7, <1>8, <1>9, <1>10, <1>11, <1>12, <1>13, <1>14, <1>15, <1>16,
     <1>17, <1>18, <1>19, <1>20, <1>21, <1>22, <1>23, BookRequest(c) \/ BookStep(c)
     DEF BookRequest, BookStep, CreateRoom, SaveRoomPut

-----------------------------------------------------------------------------
(* The lock of the documents                                               *)

\* One request holds the lock; the documents that it, or an import, has not
\* written yet are those it has changed.
DocsHeld ==
  /\ \A a, b \in Calls : HoldsDocs(calls[a]) /\ HoldsDocs(calls[b]) => a = b
  /\ DocsFree => docsFile = docs
  /\ \A a \in Calls : HoldsDocs(calls[a]) /\ calls[a].op = "save_room" => docsFile = docs
  /\ \A a \in Calls : calls[a].op = "import" /\ calls[a].dirty = FALSE => docsFile = docs

\* A step that leaves the documents alone.
LEMMA DocsApart ==
  ASSUME NEW c \in Calls, NEW r, Put(c, r), DocsHeld, UNCHANGED <<docs, docsFile>>,
         HoldsDocs(r) <=> HoldsDocs(calls[c]),
         HoldsDocs(r) => r.op = calls[c].op,
         r.op = "import" => calls[c].op = "import" /\ r.dirty = calls[c].dirty
  PROVE  DocsHeld'
<1>1. DocsFree' <=> DocsFree
  BY DEF DocsFree, Put
<1>2. \A a \in Calls : HoldsDocs(calls'[a]) <=> HoldsDocs(calls[a])
  BY DEF Put
<1>q. QED BY <1>1, <1>2 DEF DocsHeld, Put

\* A request that takes the lock.
LEMMA DocsTaken ==
  ASSUME NEW c \in Calls, NEW r, Put(c, r), DocsHeld, DocsFree,
         r.op \in {"save_room", "import"} => docsFile' = docs',
         HoldsDocs(r) \/ docsFile' = docs'
  PROVE  DocsHeld'
<1>1. \A a \in Calls \ {c} : ~HoldsDocs(calls'[a])
  BY DEF DocsFree, Put
<1>2. \A a \in Calls \ {c} : calls'[a].op # "import"
  BY <1>1 DEF HoldsDocs
<1>q. QED BY <1>1, <1>2 DEF DocsHeld, DocsFree, Put

\* The request that holds the lock lets it go, or goes on.
LEMMA DocsGoOn ==
  ASSUME NEW c \in Calls, NEW r, Put(c, r), DocsHeld, HoldsDocs(calls[c]),
         r.op = "save_room" => docsFile' = docs',
         r.op = "import" => (r.dirty = FALSE => docsFile' = docs'),
         HoldsDocs(r) \/ docsFile' = docs'
  PROVE  DocsHeld'
<1>1. \A a \in Calls \ {c} : ~HoldsDocs(calls'[a])
  BY DEF DocsHeld, Put
<1>2. \A a \in Calls \ {c} : calls'[a].op # "import"
  BY <1>1 DEF HoldsDocs
<1>q. QED BY <1>1, <1>2 DEF DocsHeld, DocsFree, Put

LEMMA BookDocs ==
  ASSUME Shaped, RoomTypes, DocsHeld, NEW c \in Calls, BookRequest(c) \/ BookStep(c)
  PROVE  DocsHeld'
<1>. DEFINE Free(r) == ~HoldsDocs(r) /\ r.op # "import"
<1>0. Free(Idle) /\ \A r : Free(r) /\ Free(calls[c]) /\ Put(c, r) /\ UNCHANGED <<docs, docsFile>> => DocsHeld'
  <2>1. Free(Idle)
    BY DEF Idle, HoldsDocs
  <2>q. QED BY <2>1, DocsApart
<1>1. ASSUME NEW k \in Keys, NEW n \in Names \cup {NoRoom}, NEW text \in BOOLEAN,
             SaveDoc(c, k, n, text)
      PROVE  DocsHeld'
  <2>1. CASE Brief /\ docsFile' = docs'
    <3>1. Put(c, calls[c])
      BY <2>1 DEF Brief, Put, Shaped
    <3>2. calls[c].op \notin {"save_room", "import"} \/ docsFile' = docs'
      BY <2>1
    <3>q. QED BY ONLY <1>1, <2>1, <3>1, <3>2, DocsTaken, DocsHeld, c \in Calls DEF SaveDoc
  <2>2. CASE Begin(c, Request("save_doc", "create", n))
    <3>1. Put(c, Request("save_doc", "create", n))
      BY ONLY <2>2, Shaped, c \in Calls, Puts
    <3>2. Request("save_doc", "create", n).op = "save_doc"
      BY DEF Request
    <3>3. HoldsDocs(Request("save_doc", "create", n))
      BY <3>2 DEF HoldsDocs
    <3>q. QED BY ONLY <1>1, <3>1, <3>2, <3>3, DocsTaken, DocsHeld, c \in Calls DEF SaveDoc
  <2>q. QED BY <1>1, <2>1, <2>2 DEF SaveDoc
<1>2. ASSUME NEW r, Begin(c, r), Free(r), UNCHANGED <<docs, docsFile>>
      PROVE  DocsHeld'
  <2>1. Put(c, r) /\ calls[c] = Idle
    BY ONLY <1>2, Shaped, c \in Calls, Puts
  <2>q. QED BY ONLY <1>0, <1>2, <2>1
<1>3. ASSUME NEW i \in Ids \cup {""}, NEW n \in Names, SaveRoom(c, i, n)
      PROVE  DocsHeld'
  <2>. DEFINE r == [Request("save_room", "put", n) EXCEPT
                      !.id = IF i = "" THEN Slug[n] ELSE i,
                      !.old = IF i = "" THEN NoRoom ELSE rooms[i]]
  <2>1. Free(r)
    BY DEF Request, HoldsDocs
  <2>2. Begin(c, r)
    BY <1>3 DEF SaveRoom
  <2>q. QED BY ONLY <1>2, <1>3, <2>1, <2>2 DEF SaveRoom, bookVars
<1>4. ASSUME NEW i \in Ids, DeleteRoom(c, i) PROVE DocsHeld'
  <2>1. Free(Request("delete_room", "list", NoRoom))
    BY DEF Request, HoldsDocs
  <2>q. QED BY ONLY <1>2, <1>4, <2>1 DEF DeleteRoom
<1>5. ASSUME NEW at \in [BridgeLights -> Names], ImportRooms(c, at) PROVE DocsHeld'
  <2>. DEFINE r == [Request("import", "next", NoRoom) EXCEPT !.todo = Range(at), !.at = at]
  <2>1. r.op = "import" /\ HoldsDocs(r)
    BY DEF Request, HoldsDocs
  <2>2. Put(c, r)
    BY ONLY <1>5, Shaped, c \in Calls, Puts DEF ImportRooms
  <2>3. docsFile' = docs'
    BY <1>5 DEF ImportRooms, bookVars, DocsHeld
  <2>q. QED BY ONLY <1>5, <2>1, <2>2, <2>3, DocsTaken, DocsHeld, c \in Calls DEF ImportRooms
<1>6. ASSUME NEW names \in SUBSET Names, ImportFallback(c, names) PROVE DocsHeld'
  <2>1. Free([Request("fallback", "next", NoRoom) EXCEPT !.todo = names])
    BY DEF Request, HoldsDocs
  <2>q. QED BY ONLY <1>2, <1>6, <2>1 DEF ImportFallback, bookVars
<1>7. ASSUME NEW g \in Groups, NEW n \in Names, CreateGroup(c, g, n) PROVE DocsHeld'
  <2>1. Free(Request("create_group", "glist", n))
    BY DEF Request, HoldsDocs
  <2>q. QED BY ONLY <1>2, <1>7, <2>1 DEF CreateGroup
<1>8. ASSUME NEW g \in Groups, DeleteGroup(c, g) PROVE DocsHeld'
  <2>1. Free(Request("delete_group", "glist", NoRoom))
    BY DEF Request, HoldsDocs
  <2>q. QED BY ONLY <1>2, <1>8, <2>1 DEF DeleteGroup
<1>. USE DEF Shaped, Slotted, RoomSlot, DeviceSlot, LightSlot, Idle
<1>9. ASSUME NEW r, Put(c, r), UNCHANGED <<docs, docsFile>>,
             r.op = calls[c].op, r.op = "import" => r.dirty = calls[c].dirty,
             r.op = "save_room" => (HoldsDocs(r) <=> HoldsDocs(calls[c]))
      PROVE  DocsHeld'
  <2>1. HoldsDocs(r) <=> HoldsDocs(calls[c])
    BY ONLY <1>9 DEF HoldsDocs
  <2>q. QED BY ONLY <1>9, <2>1, DocsApart, DocsHeld, c \in Calls
<1>10. ASSUME ListRooms(c) PROVE DocsHeld'
  <2>. DEFINE r == [calls[c] EXCEPT !.pc = "write", !.copy = rooms]
  <2>1. r.op = calls[c].op /\ (r.op = "import" => r.dirty = calls[c].dirty)
        /\ (r.op = "save_room" => (HoldsDocs(r) <=> HoldsDocs(calls[c])))
    BY <1>10 DEF ListRooms, HoldsDocs
  <2>2. Put(c, r)
    BY ONLY <1>10, Shaped, c \in Calls, Puts DEF ListRooms
  <2>q. QED BY ONLY <1>9, <1>10, <2>1, <2>2 DEF ListRooms, bookVars
<1>11. ASSUME WriteRooms(c) PROVE DocsHeld'
  <2>1. ASSUME NEW p \in {"persist", "assign", "next", "docs"},
               Continue(c, [calls[c] EXCEPT !.pc = p, !.copy = {}])
        PROVE  DocsHeld'
    <3>. DEFINE r == [calls[c] EXCEPT !.pc = p, !.copy = {}]
    <3>1. r.op = calls[c].op /\ (r.op = "import" => r.dirty = calls[c].dirty)
          /\ (r.op = "save_room" => (HoldsDocs(r) <=> HoldsDocs(calls[c])))
      BY <1>11 DEF WriteRooms, HoldsDocs
    <3>2. Put(c, r)
      BY ONLY <2>1, Shaped, c \in Calls, Puts
    <3>q. QED BY ONLY <1>9, <1>11, <3>1, <3>2 DEF WriteRooms
  <2>2. ASSUME Return(c), Free(calls[c]) PROVE DocsHeld'
    <3>1. Put(c, Idle)
      BY ONLY <2>2, Shaped, c \in Calls, Puts
    <3>q. QED BY ONLY <1>0, <1>11, <2>2, <3>1 DEF WriteRooms
  <2>3. calls[c].op \in {"save_doc", "import"} \/ Free(calls[c])
    BY <1>11 DEF WriteRooms, HoldsDocs
  <2>q. QED BY ONLY <1>11, <2>1, <2>2, <2>3 DEF WriteRooms
<1>12. ASSUME Goto(c, "list"), calls[c].pc \in {"create", "put"}, UNCHANGED <<docs, docsFile>>
       PROVE  DocsHeld'
  <2>. DEFINE r == [calls[c] EXCEPT !.pc = "list"]
  <2>1. r.op = calls[c].op /\ (r.op = "import" => r.dirty = calls[c].dirty)
        /\ (r.op = "save_room" => (HoldsDocs(r) <=> HoldsDocs(calls[c])))
    BY <1>12 DEF HoldsDocs
  <2>2. Put(c, r)
    BY ONLY <1>12, Shaped, c \in Calls, Gotos
  <2>q. QED BY ONLY <1>9, <1>12, <2>1, <2>2
<1>13. ASSUME PersistDoc(c) PROVE DocsHeld'
  <2>1. HoldsDocs(calls[c])
    BY <1>13 DEF PersistDoc, HoldsDocs
  <2>2. Put(c, Idle)
    BY ONLY <1>13, Shaped, c \in Calls, Puts DEF PersistDoc
  <2>3. Idle.op \notin {"save_room", "import"}
    OBVIOUS
  <2>q. QED BY ONLY <1>13, <2>1, <2>2, <2>3, DocsGoOn, DocsHeld, c \in Calls DEF PersistDoc
<1>14. ASSUME CarryDocs(c) PROVE DocsHeld'
  <2>. DEFINE r == [calls[c] EXCEPT !.pc = "groups"]
  <2>1. Put(c, r)
    BY ONLY <1>14, Shaped, c \in Calls, Gotos DEF CarryDocs
  <2>2. docsFile' = docs'
    BY ONLY <1>14, DocsHeld DEF CarryDocs, DocsHeld
  <2>3. DocsFree
    BY <1>14 DEF CarryDocs
  <2>q. QED BY ONLY <2>1, <2>2, <2>3, DocsTaken, DocsHeld, c \in Calls
<1>15. ASSUME CarryGroups(c) PROVE DocsHeld'
  <2>1. HoldsDocs(calls[c]) /\ calls[c].op = "save_room"
    BY <1>15 DEF CarryGroups, HoldsDocs
  <2>2. docsFile' = docs'
    BY ONLY <1>15, <2>1, DocsHeld, c \in Calls DEF CarryGroups, DocsHeld, bookVars
  <2>3. ASSUME NEW mine, Continue(c, [calls[c] EXCEPT !.pc = "gput", !.todo = mine])
        PROVE  DocsHeld'
    <3>. DEFINE r == [calls[c] EXCEPT !.pc = "gput", !.todo = mine]
    <3>1. r.op = "save_room"
      BY <1>15, <2>1 DEF CarryGroups
    <3>2. Put(c, r)
      BY ONLY <2>3, Shaped, c \in Calls, Puts
    <3>q. QED BY ONLY <2>1, <2>2, <3>1, <3>2, DocsGoOn, DocsHeld, c \in Calls
  <2>4. ASSUME Return(c) PROVE DocsHeld'
    <3>1. Put(c, Idle)
      BY ONLY <2>4, Shaped, c \in Calls, Puts
    <3>q. QED BY ONLY <2>1, <2>2, <3>1, DocsGoOn, DocsHeld, c \in Calls
  <2>q. QED BY ONLY <1>15, <2>3, <2>4 DEF CarryGroups
<1>16. ASSUME NEW g \in Groups, CarryGroup(c, g) PROVE DocsHeld'
  <2>. DEFINE r == [calls[c] EXCEPT !.pc = "glist", !.todo = @ \ {g}]
  <2>1. r.op = calls[c].op /\ (r.op = "import" => r.dirty = calls[c].dirty)
        /\ (r.op = "save_room" => (HoldsDocs(r) <=> HoldsDocs(calls[c])))
    BY <1>16 DEF CarryGroup, HoldsDocs
  <2>2. Put(c, r)
    BY ONLY <1>16, Shaped, c \in Calls, Puts DEF CarryGroup
  <2>q. QED BY ONLY <1>9, <1>16, <2>1, <2>2 DEF CarryGroup
<1>17. ASSUME NEW n \in Names, ImportRoom(c, n) PROVE DocsHeld'
  <2>. DEFINE r == [calls[c] EXCEPT !.pc = "list", !.name = n, !.todo = @ \ {n}]
  <2>1. r.op = calls[c].op /\ (r.op = "import" => r.dirty = calls[c].dirty)
        /\ (r.op = "save_room" => (HoldsDocs(r) <=> HoldsDocs(calls[c])))
    BY <1>17 DEF ImportRoom, HoldsDocs
  <2>2. Put(c, r)
    BY ONLY <1>17, Shaped, c \in Calls, Puts DEF ImportRoom
  <2>q. QED BY ONLY <1>9, <1>17, <2>1, <2>2 DEF ImportRoom
<1>18. ASSUME ImportAssign(c) PROVE DocsHeld'
  <2>1. HoldsDocs(calls[c]) /\ calls[c].op = "import"
    BY <1>18 DEF ImportAssign, HoldsDocs
  <2>. DEFINE s == calls[c]
              mine == {k \in BridgeLights : s.at[k] = s.name}
              dirty == s.dirty \/ \E k \in mine : docs[k].room # s.name
  <2>2. ~dirty => docs' = docs
    BY ONLY <1>18, RoomTypes, RoomAssumption DEF ImportAssign, RoomTypes, DocMaps
  <2>3. ~dirty => docsFile' = docs'
    <3>1. ~dirty => docsFile' = docsFile
      BY ONLY <1>18 DEF ImportAssign
    <3>2. ~dirty => docsFile = docs
      BY ONLY <2>1, DocsHeld, Shaped, c \in Calls DEF DocsHeld, Shaped, Slotted, RoomSlot, Idle
    <3>q. QED BY ONLY <2>2, <3>1, <3>2
  <2>4. s.todo = {} => docsFile' = docs'
    BY ONLY <1>18, <2>3 DEF ImportAssign
  <2>5. ASSUME Continue(c, [calls[c] EXCEPT !.pc = "next", !.dirty = dirty])
        PROVE  DocsHeld'
    <3>. DEFINE r == [calls[c] EXCEPT !.pc = "next", !.dirty = dirty]
    <3>1. r.op = "import" /\ r.dirty = dirty /\ HoldsDocs(r)
      BY <1>18, <2>1 DEF ImportAssign, HoldsDocs
    <3>2. Put(c, r)
      BY ONLY <2>5, Shaped, c \in Calls, Puts
    <3>3. r.dirty = FALSE => docsFile' = docs'
      BY ONLY <3>1, <2>3
    <3>4. r.op # "save_room"
      BY ONLY <3>1
    <3>. HIDE DEF r
    <3>q. QED BY ONLY <2>1, <3>1, <3>2, <3>3, <3>4, DocsGoOn, DocsHeld, c \in Calls
  <2>6. ASSUME Return(c), s.todo = {} PROVE DocsHeld'
    <3>1. Put(c, Idle)
      BY ONLY <2>6, Shaped, c \in Calls, Puts
    <3>2. Idle.op \notin {"save_room", "import"}
      OBVIOUS
    <3>q. QED BY ONLY <2>1, <2>4, <2>6, <3>1, <3>2, DocsGoOn, DocsHeld, c \in Calls
  <2>q. QED BY ONLY <1>18, <2>5, <2>6 DEF ImportAssign
<1>19. ASSUME ListGroups(c) PROVE DocsHeld'
  <2>. DEFINE r == [calls[c] EXCEPT !.pc = "gwrite", !.copy = groups]
  <2>1. r.op = calls[c].op /\ (r.op = "import" => r.dirty = calls[c].dirty)
        /\ (r.op = "save_room" => (HoldsDocs(r) <=> HoldsDocs(calls[c])))
    BY <1>19 DEF ListGroups, HoldsDocs
  <2>2. Put(c, r)
    BY ONLY <1>19, Shaped, c \in Calls, Puts DEF ListGroups
  <2>q. QED BY ONLY <1>9, <1>19, <2>1, <2>2 DEF ListGroups, bookVars
<1>20. ASSUME WriteGroups(c) PROVE DocsHeld'
  <2>1. ASSUME Continue(c, [calls[c] EXCEPT !.pc = "gput", !.copy = {}])
        PROVE  DocsHeld'
    <3>. DEFINE r == [calls[c] EXCEPT !.pc = "gput", !.copy = {}]
    <3>1. r.op = calls[c].op /\ (r.op = "import" => r.dirty = calls[c].dirty)
          /\ (r.op = "save_room" => (HoldsDocs(r) <=> HoldsDocs(calls[c])))
      BY <1>20 DEF WriteGroups, HoldsDocs
    <3>2. Put(c, r)
      BY ONLY <2>1, Shaped, c \in Calls, Puts
    <3>q. QED BY ONLY <1>9, <1>20, <3>1, <3>2 DEF WriteGroups
  <2>2. ASSUME Return(c) PROVE DocsHeld'
    <3>1. Put(c, Idle)
      BY ONLY <2>2, Shaped, c \in Calls, Puts
    <3>2. CASE Free(calls[c])
      BY ONLY <1>0, <1>20, <3>1, <3>2 DEF WriteGroups
    <3>3. CASE calls[c].op = "save_room"
      <4>1. HoldsDocs(calls[c])
        BY <1>20, <3>3 DEF WriteGroups, HoldsDocs
      <4>2. docsFile' = docs'
        BY ONLY <1>20, <3>3, <4>1, DocsHeld, c \in Calls DEF WriteGroups, DocsHeld
      <4>q. QED BY ONLY <3>1, <4>1, <4>2, DocsGoOn, DocsHeld, c \in Calls
    <3>4. Free(calls[c]) \/ calls[c].op = "save_room"
      BY <1>20 DEF WriteGroups, HoldsDocs
    <3>q. QED BY ONLY <3>2, <3>3, <3>4
  <2>q. QED BY ONLY <1>20, <2>1, <2>2 DEF WriteGroups
<1>21. ASSUME GiveUpRename(c) PROVE DocsHeld'
  <2>1. Free(calls[c])
    BY <1>21 DEF GiveUpRename, HoldsDocs
  <2>2. Put(c, Idle)
    BY ONLY <1>21, Shaped, c \in Calls, Puts DEF GiveUpRename
  <2>q. QED BY ONLY <1>0, <1>21, <2>1, <2>2 DEF GiveUpRename
<1>q. QED
  BY ONLY <1>1, <1>3, <1>4, <1>5, <1>6, <1>7, <1>8, <1>10, <1>11, <1>12, <1>13, <1>14, <1>15,
     <1>16, <1>17, <1>18, <1>19, <1>20, <1>21, BookRequest(c) \/ BookStep(c)
     DEF BookRequest, BookStep, CreateRoom, SaveRoomPut

-----------------------------------------------------------------------------
(* Deleted groups                                                          *)

CarryPcs == {"gput", "glist", "gwrite"}

\* No rename has a deleted group on its list.
DeletedGone ==
  /\ deleted \subseteq Groups
  /\ \A g \in deleted : groups[g] = NoRoom /\ ~Carrying(g)

LEMMA GoneApart ==
  ASSUME NEW c \in Calls, NEW r, Put(c, r), DeletedGone, UNCHANGED <<groups, deleted>>,
         r.pc \in CarryPcs => calls[c].pc \in CarryPcs /\ r.todo \subseteq calls[c].todo
  PROVE  DeletedGone'
BY DEF DeletedGone, Carrying, Put, CarryPcs

LEMMA BookGone ==
  ASSUME Shaped, RoomTypes, DeletedGone, NEW c \in Calls, BookRequest(c) \/ BookStep(c)
  PROVE  DeletedGone'
<1>0. ASSUME NEW r, r.pc \notin CarryPcs, UNCHANGED <<groups, deleted>>, Put(c, r)
      PROVE  DeletedGone'
  BY ONLY <1>0, GoneApart, DeletedGone, c \in Calls
<1>1. ASSUME NEW r, Begin(c, r) \/ Continue(c, r)
      PROVE  Put(c, r)
  BY ONLY <1>1, Shaped, c \in Calls, Puts
<1>2. ASSUME Return(c), UNCHANGED <<groups, deleted>>
      PROVE  DeletedGone'
  <2>1. Put(c, Idle)
    BY ONLY <1>2, Shaped, c \in Calls, Puts
  <2>2. Idle.pc \notin CarryPcs
    BY DEF Idle, CarryPcs
  <2>q. QED BY ONLY <1>0, <1>2, <2>1, <2>2
<1>3. ASSUME NEW k \in Keys, NEW n \in Names \cup {NoRoom}, NEW text \in BOOLEAN,
             SaveDoc(c, k, n, text)
      PROVE  DeletedGone'
  <2>1. CASE Brief
    BY <1>3, <2>1 DEF SaveDoc, Brief, DeletedGone, Carrying
  <2>2. CASE Begin(c, Request("save_doc", "create", n))
    <3>1. Request("save_doc", "create", n).pc \notin CarryPcs
      BY DEF Request, CarryPcs
    <3>q. QED BY ONLY <1>0, <1>1, <1>3, <2>2, <3>1 DEF SaveDoc
  <2>q. QED BY <1>3, <2>1, <2>2 DEF SaveDoc
<1>4. ASSUME NEW i \in Ids \cup {""}, NEW n \in Names, SaveRoom(c, i, n)
      PROVE  DeletedGone'
  <2>. DEFINE r == [Request("save_room", "put", n) EXCEPT
                      !.id = IF i = "" THEN Slug[n] ELSE i,
                      !.old = IF i = "" THEN NoRoom ELSE rooms[i]]
  <2>1. r.pc \notin CarryPcs
    BY DEF Request, CarryPcs
  <2>2. Begin(c, r)
    BY <1>4 DEF SaveRoom
  <2>q. QED BY ONLY <1>0, <1>1, <1>4, <2>1, <2>2 DEF SaveRoom, bookVars
<1>5. ASSUME NEW i \in Ids, DeleteRoom(c, i) PROVE DeletedGone'
  <2>1. Request("delete_room", "list", NoRoom).pc \notin CarryPcs
    BY DEF Request, CarryPcs
  <2>q. QED BY ONLY <1>0, <1>1, <1>5, <2>1 DEF DeleteRoom
<1>6. ASSUME NEW at \in [BridgeLights -> Names], ImportRooms(c, at) PROVE DeletedGone'
  <2>1. [Request("import", "next", NoRoom) EXCEPT !.todo = Range(at), !.at = at].pc \notin CarryPcs
    BY DEF Request, CarryPcs
  <2>q. QED BY ONLY <1>0, <1>1, <1>6, <2>1 DEF ImportRooms, bookVars
<1>7. ASSUME NEW names \in SUBSET Names, ImportFallback(c, names) PROVE DeletedGone'
  <2>1. [Request("fallback", "next", NoRoom) EXCEPT !.todo = names].pc \notin CarryPcs
    BY DEF Request, CarryPcs
  <2>q. QED BY ONLY <1>0, <1>1, <1>7, <2>1 DEF ImportFallback, bookVars
<1>8. ASSUME NEW g \in Groups, NEW n \in Names, CreateGroup(c, g, n) PROVE DeletedGone'
  <2>. DEFINE r == Request("create_group", "glist", n)
  <2>1. r.todo = {}
    BY DEF Request
  <2>2. Put(c, r)
    BY ONLY <1>1, <1>8 DEF CreateGroup
  <2>3. \A h \in Groups : Carrying(h)' => Carrying(h)
    BY ONLY <2>1, <2>2 DEF Put, Carrying
  <2>q. QED BY ONLY <1>8, <2>3, DeletedGone, RoomTypes DEF CreateGroup, DeletedGone, RoomTypes, GroupMaps
<1>9. ASSUME NEW g \in Groups, DeleteGroup(c, g) PROVE DeletedGone'
  <2>. DEFINE r == Request("delete_group", "glist", NoRoom)
  <2>1. r.todo = {}
    BY DEF Request
  <2>2. Put(c, r)
    BY ONLY <1>1, <1>9 DEF DeleteGroup
  <2>3. \A h \in Groups : Carrying(h)' => Carrying(h)
    BY ONLY <2>1, <2>2 DEF Put, Carrying
  <2>q. QED BY ONLY <1>9, <2>3, DeletedGone, RoomTypes DEF DeleteGroup, DeletedGone, RoomTypes, GroupMaps
<1>. USE DEF Shaped, Slotted, RoomSlot, DeviceSlot, LightSlot, Idle
<1>10. ASSUME ListRooms(c) PROVE DeletedGone'
  <2>1. [calls[c] EXCEPT !.pc = "write", !.copy = rooms].pc \notin CarryPcs
    BY <1>10 DEF ListRooms, CarryPcs
  <2>q. QED BY ONLY <1>0, <1>1, <1>10, <2>1 DEF ListRooms, bookVars
<1>11. ASSUME WriteRooms(c) PROVE DeletedGone'
  <2>1. ASSUME NEW p \in {"persist", "assign", "next", "docs"},
               Continue(c, [calls[c] EXCEPT !.pc = p, !.copy = {}])
        PROVE  DeletedGone'
    <3>1. [calls[c] EXCEPT !.pc = p, !.copy = {}].pc \notin CarryPcs
      BY <1>11 DEF WriteRooms, CarryPcs
    <3>q. QED BY ONLY <1>0, <1>1, <1>11, <2>1, <3>1 DEF WriteRooms
  <2>q. QED BY ONLY <1>2, <1>11, <2>1 DEF WriteRooms
<1>12. ASSUME NEW p \in {"list", "groups"}, Goto(c, p), calls[c].pc \in {"create", "put", "docs"},
              UNCHANGED <<groups, deleted>>
       PROVE  DeletedGone'
  <2>1. [calls[c] EXCEPT !.pc = p].pc \notin CarryPcs
    BY <1>12 DEF CarryPcs
  <2>2. Put(c, [calls[c] EXCEPT !.pc = p])
    BY ONLY <1>12, Shaped, c \in Calls, Gotos
  <2>q. QED BY ONLY <1>0, <1>12, <2>1, <2>2
<1>13. ASSUME CarryGroups(c) PROVE DeletedGone'
  <2>. DEFINE mine == {g \in Groups : groups[g] = calls[c].old}
              r == [calls[c] EXCEPT !.pc = "gput", !.todo = mine]
  <2>1. ASSUME Continue(c, r) PROVE DeletedGone'
    <3>1. r.todo = mine
      BY <1>13 DEF CarryGroups
    <3>2. Put(c, r)
      BY ONLY <1>1, <2>1
    <3>3. calls[c].old # NoRoom
      BY <1>13 DEF CarryGroups, Renamed
    <3>4. \A g \in deleted : g \notin mine
      BY ONLY <3>3, DeletedGone DEF DeletedGone
    <3>. HIDE DEF r, mine
    <3>5. \A g \in deleted : ~Carrying(g)'
      BY ONLY <3>1, <3>2, <3>4, DeletedGone DEF Put, Carrying, DeletedGone
    <3>q. QED BY ONLY <1>13, <3>5, DeletedGone DEF CarryGroups, DeletedGone, bookVars
  <2>q. QED BY ONLY <1>2, <1>13, <2>1 DEF CarryGroups, bookVars
<1>14. ASSUME NEW g \in Groups, CarryGroup(c, g) PROVE DeletedGone'
  <2>. DEFINE r == [calls[c] EXCEPT !.pc = "glist", !.todo = @ \ {g}]
  <2>1. r.todo = calls[c].todo \ {g}
    BY <1>14 DEF CarryGroup
  <2>2. Put(c, r)
    BY ONLY <1>1, <1>14 DEF CarryGroup
  <2>3. Carrying(g) /\ calls[c].pc = "gput"
    BY ONLY <1>14, c \in Calls DEF CarryGroup, Carrying
  <2>. HIDE DEF r
  <2>4. \A h \in Groups : Carrying(h)' => Carrying(h)
    BY ONLY <2>1, <2>2, <2>3 DEF Put, Carrying
  <2>q. QED
    BY ONLY <1>14, <2>3, <2>4, DeletedGone, RoomTypes DEF CarryGroup, DeletedGone, RoomTypes, GroupMaps
<1>15. ASSUME NEW n \in Names, ImportRoom(c, n) PROVE DeletedGone'
  <2>1. [calls[c] EXCEPT !.pc = "list", !.name = n, !.todo = @ \ {n}].pc \notin CarryPcs
    BY <1>15 DEF ImportRoom, CarryPcs
  <2>q. QED BY ONLY <1>0, <1>1, <1>15, <2>1 DEF ImportRoom, PutRoom
<1>16. ASSUME ImportAssign(c) PROVE DeletedGone'
  <2>1. ASSUME NEW dirty, Continue(c, [calls[c] EXCEPT !.pc = "next", !.dirty = dirty])
        PROVE  DeletedGone'
    <3>1. [calls[c] EXCEPT !.pc = "next", !.dirty = dirty].pc \notin CarryPcs
      BY <1>16 DEF ImportAssign, CarryPcs
    <3>q. QED BY ONLY <1>0, <1>1, <1>16, <2>1, <3>1 DEF ImportAssign
  <2>q. QED BY ONLY <1>2, <1>16, <2>1 DEF ImportAssign
<1>17. ASSUME ListGroups(c) PROVE DeletedGone'
  <2>. DEFINE r == [calls[c] EXCEPT !.pc = "gwrite", !.copy = groups]
  <2>1. r.todo = calls[c].todo /\ calls[c].pc \in CarryPcs
    BY <1>17 DEF ListGroups, CarryPcs
  <2>2. Put(c, r)
    BY ONLY <1>1, <1>17 DEF ListGroups
  <2>. HIDE DEF r
  <2>q. QED BY ONLY <1>17, <2>1, <2>2, GoneApart, DeletedGone, c \in Calls DEF ListGroups, bookVars
<1>18. ASSUME WriteGroups(c) PROVE DeletedGone'
  <2>1. ASSUME Continue(c, [calls[c] EXCEPT !.pc = "gput", !.copy = {}])
        PROVE  DeletedGone'
    <3>. DEFINE r == [calls[c] EXCEPT !.pc = "gput", !.copy = {}]
    <3>1. r.todo = calls[c].todo /\ calls[c].pc \in CarryPcs
      BY <1>18 DEF WriteGroups, CarryPcs
    <3>2. Put(c, r)
      BY ONLY <1>1, <2>1
    <3>. HIDE DEF r
    <3>q. QED BY ONLY <1>18, <3>1, <3>2, GoneApart, DeletedGone, c \in Calls DEF WriteGroups
  <2>q. QED BY ONLY <1>2, <1>18, <2>1 DEF WriteGroups
<1>19. ASSUME PersistDoc(c) PROVE DeletedGone'
  BY ONLY <1>2, <1>19 DEF PersistDoc
<1>20. ASSUME GiveUpRename(c) PROVE DeletedGone'
  <2>1. Put(c, Idle)
    BY ONLY <1>20, Shaped, c \in Calls, Puts DEF GiveUpRename
  <2>2. Idle.pc \notin CarryPcs
    BY DEF Idle, CarryPcs
  <2>q. QED BY ONLY <1>0, <1>20, <2>1, <2>2 DEF GiveUpRename
<1>q. QED
  BY ONLY <1>3, <1>4, <1>5, <1>6, <1>7, <1>8, <1>9, <1>10, <1>11, <1>12, <1>13, <1>14, <1>15,
     <1>16, <1>17, <1>18, <1>19, <1>20, BookRequest(c) \/ BookStep(c)
     DEF BookRequest, BookStep, CreateRoom, SaveRoomPut, CarryDocs, PutRoom

-----------------------------------------------------------------------------
(* The rooms that documents and groups name                                *)

\* What request r does about a name x, or about a group g of that name: it will
\* carry the documents of x, its groups, or the group g; it will create x.
WillCarry(r, x) ==
  r.op = "save_room" /\ r.pc \in {"list", "write", "docs"} /\ Renamed(r) /\ r.old = x
WillList(r, x) == r.op = "save_room" /\ r.pc = "groups" /\ Renamed(r) /\ r.old = x
Carries(r, g, x) == r.op = "save_room" /\ r.pc \in CarryPcs /\ g \in r.todo /\ r.old = x
WillCreate(r, x) == r.op = "save_doc" /\ r.pc = "create" /\ r.name = x

Housed(x) ==
  \/ x \in RoomNames \cup {NoRoom} \cup loose
  \/ \E a \in Calls : WillCarry(calls[a], x)
DocNamed(x) == Housed(x) \/ \E a \in Calls : WillCreate(calls[a], x)
GroupNamed(g) ==
  Housed(groups[g]) \/ \E a \in Calls : WillList(calls[a], groups[g])
                                          \/ Carries(calls[a], g, groups[g])

Named ==
  /\ \A k \in Keys : DocNamed(docs[k].room)
  /\ \A g \in Groups : GroupNamed(g)

LEMMA NamedIs == Named <=> RoomsNamed
<1>1. \A x : x \in Pending <=> \E a \in Calls : WillCarry(calls[a], x)
  BY DEF Pending, Awaited, Under, Renamed, WillCarry
<1>2. \A x : x \in Awaited({"groups"}) <=> \E a \in Calls : WillList(calls[a], x)
  BY DEF Awaited, Under, Renamed, WillList
<1>3. \A x : x \in {calls[c].name : c \in Under({"save_doc"}, {"create"})}
               <=> \E a \in Calls : WillCreate(calls[a], x)
  BY DEF Under, WillCreate
<1>4. \A g, x : (\E c \in Under({"save_room"}, CarryPcs) : g \in calls[c].todo /\ x = calls[c].old)
                  <=> \E a \in Calls : Carries(calls[a], g, x)
  BY DEF Under, Carries
<1>q. QED BY <1>1, <1>2, <1>3, <1>4 DEF Named, RoomsNamed, DocNamed, GroupNamed, Housed, CarryPcs

\* The names that Loosen is told of are settled.
LEMMA Loosened ==
  ASSUME NEW names, NEW book, Loosen(names, book), book = rooms'
  PROVE  /\ loose \subseteq loose'
         /\ \A x \in names : \/ x \in RoomNames' \cup {NoRoom} \cup loose'
                             \/ \E a \in Calls : WillCarry(calls[a], x)
<1>1. \A x : x \in Pending => \E a \in Calls : WillCarry(calls[a], x)
  BY DEF Pending, Awaited, Under, Renamed, WillCarry
<1>2. \A x \in Range(book) : x \in RoomNames' \cup {NoRoom}
  BY DEF RoomNames
<1>q. QED BY <1>1, <1>2 DEF Loosen

\* A step that leaves rooms, documents and groups alone, after which request c
\* does for every name and group what it did before.
LEMMA NamedApart ==
  ASSUME NEW c \in Calls, NEW r, Put(c, r), Named, UNCHANGED <<rooms, docs, groups>>,
         loose \subseteq loose',
         \A x : WillCarry(calls[c], x) => WillCarry(r, x),
         \A x : WillCreate(calls[c], x) => WillCreate(r, x),
         \A x : WillList(calls[c], x) => WillList(r, x),
         \A g, x : Carries(calls[c], g, x) => Carries(r, g, x)
  PROVE  Named'
<1>1. \A x : Housed(x) => Housed(x)'
  BY DEF Housed, Put, RoomNames
<1>2. \A x : DocNamed(x) => DocNamed(x)'
  BY <1>1 DEF DocNamed, Put
<1>3. \A g \in Groups : GroupNamed(g) => GroupNamed(g)'
  BY <1>1 DEF GroupNamed, Put
<1>q. QED BY <1>2, <1>3 DEF Named

\* RoomsStore::upsert by request c, which carries the old name or has none.
LEMMA NamedPut ==
  ASSUME Shaped, RoomTypes, Named, NEW c \in Calls, NEW r, Put(c, r),
         NEW i \in Ids, NEW n \in Names, NEW m \in MaybeNames, PutRoom(c, i, n, m), UNCHANGED docs,
         m \in {NoRoom, n} \/ WillCarry(r, m),
         \A x : ~WillCarry(calls[c], x) /\ ~WillList(calls[c], x),
         \A x : WillCreate(calls[c], x) => x = n,
         \A g, x : ~Carries(calls[c], g, x)
  PROVE  Named'
<1>. DEFINE lost == {rooms[i]} \ {NoRoom, n, m}
<1>1. Loosen(lost, rooms')
  BY DEF PutRoom
<1>2. n \in RoomNames'
  BY RoomAssumption DEF PutRoom, RoomTypes, RoomMaps, RoomNames, Range
<1>3. \A x \in RoomNames : x \in RoomNames' \/ x = rooms[i]
  BY DEF PutRoom, RoomTypes, RoomMaps, RoomNames, Range
<1>4. loose \subseteq loose' /\ \A x \in lost : \/ x \in RoomNames' \cup {NoRoom} \cup loose'
                                               \/ \E a \in Calls : WillCarry(calls[a], x)
  BY <1>1, Loosened
<1>5. ASSUME NEW x, Housed(x) PROVE Housed(x)'
  <2>1. CASE x \in RoomNames
    <3>1. CASE x \in RoomNames'
      BY <3>1 DEF Housed
    <3>2. CASE x = rooms[i] /\ x = n
      BY <3>2, <1>2 DEF Housed
    <3>3. CASE x = rooms[i] /\ x = m /\ x # n
      <4>1. x # NoRoom
        BY <2>1 DEF RoomNames
      <4>2. calls'[c] = r
        BY DEF Put
      <4>q. QED BY <3>3, <4>1, <4>2 DEF Housed
    <3>4. CASE x \in lost
      <4>1. \/ x \in RoomNames' \cup {NoRoom} \cup loose'
            \/ \E a \in Calls \ {c} : WillCarry(calls[a], x)
        BY <3>4, <1>4
      <4>q. QED BY <4>1 DEF Housed, Put
    <3>q. QED BY <1>3, <2>1, <3>1, <3>2, <3>3, <3>4 DEF RoomNames
  <2>2. CASE x \in loose \cup {NoRoom}
    BY <2>2, <1>4 DEF Housed
  <2>3. CASE \E a \in Calls : WillCarry(calls[a], x)
    <3>1. \E a \in Calls \ {c} : WillCarry(calls[a], x)
      BY <2>3
    <3>q. QED BY <3>1 DEF Housed, Put
  <2>q. QED BY ONLY <1>5, <2>1, <2>2, <2>3 DEF Housed
<1>6. \A x : DocNamed(x) => DocNamed(x)'
  <2>1. Housed(n)'
    BY <1>2 DEF Housed
  <2>q. QED BY <1>5, <2>1 DEF DocNamed, Put
<1>7. \A g \in Groups : GroupNamed(g) => GroupNamed(g)'
  BY <1>5 DEF GroupNamed, Put, PutRoom
<1>q. QED BY <1>6, <1>7 DEF Named

\* A request that is about to do nothing for any name or group.
Aloof(r) ==
  /\ \A x : ~WillCarry(r, x) /\ ~WillList(r, x) /\ ~WillCreate(r, x)
  /\ \A g, x : ~Carries(r, g, x)

LEMMA BookNames ==
  ASSUME Shaped, RoomTypes, Named, NEW c \in Calls, BookRequest(c) \/ BookStep(c)
  PROVE  Named'
<1>0. ASSUME NEW r, Begin(c, r) \/ Continue(c, r)
      PROVE  Put(c, r)
  BY ONLY <1>0, Shaped, c \in Calls, Puts
<1>1. ASSUME NEW r, Put(c, r), UNCHANGED <<rooms, docs, groups>>, loose \subseteq loose',
             Aloof(calls[c])
      PROVE  Named'
  BY ONLY <1>1, Named, c \in Calls, NamedApart DEF Aloof
<1>2. Aloof(Idle)
  BY DEF Aloof, WillCarry, WillList, WillCreate, Carries, Idle
<1>3. ASSUME NEW r, Begin(c, r), UNCHANGED <<rooms, docs, groups>>, loose \subseteq loose'
      PROVE  Named'
  <2>1. calls[c] = Idle
    BY <1>3 DEF Begin, BeginLong
  <2>q. QED BY ONLY <1>0, <1>1, <1>2, <1>3, <2>1
<1>4. ASSUME NEW k \in Keys, NEW n \in Names \cup {NoRoom}, NEW text \in BOOLEAN,
             SaveDoc(c, k, n, text)
      PROVE  Named'
  <2>1. docs'[k].room = n /\ (\A j \in Keys \ {k} : docs'[j] = docs[j])
        /\ UNCHANGED <<rooms, groups, loose>>
    BY <1>4 DEF SaveDoc, RoomTypes, DocMaps
  <2>2. CASE Brief /\ n \in RoomNames \cup {NoRoom}
    <3>1. Housed(n)'
      BY <2>1, <2>2 DEF Housed, RoomNames
    <3>2. calls' = calls
      BY <2>2 DEF Brief
    <3>q. QED BY <2>1, <3>1, <3>2 DEF Named, DocNamed, GroupNamed, Housed, RoomNames
  <2>3. CASE Begin(c, Request("save_doc", "create", n))
    <3>. DEFINE r == Request("save_doc", "create", n)
    <3>1. WillCreate(r, n)
      BY DEF Request, WillCreate
    <3>2. Put(c, r)
      BY ONLY <1>0, <2>3
    <3>3. Aloof(calls[c])
      BY <1>2, <2>3 DEF Begin, BeginLong
    <3>. HIDE DEF r
    <3>4. \A x : Housed(x) => Housed(x)'
      BY <2>1, <3>2, <3>3 DEF Housed, Put, RoomNames, Aloof
    <3>5. \A j \in Keys : DocNamed(docs[j].room)'
      <4>1. DocNamed(docs[k].room)'
        BY <2>1, <3>1, <3>2 DEF DocNamed, Put
      <4>2. ASSUME NEW j \in Keys \ {k} PROVE DocNamed(docs[j].room)'
        BY <2>1, <3>2, <3>3, <3>4 DEF DocNamed, Put, Named, Aloof
      <4>q. QED BY <4>1, <4>2
    <3>6. \A g \in Groups : GroupNamed(g)'
      BY <2>1, <3>2, <3>3, <3>4 DEF GroupNamed, Put, Named, Aloof
    <3>q. QED BY <3>5, <3>6 DEF Named
  <2>q. QED BY <1>4, <2>2, <2>3 DEF SaveDoc
<1>5. ASSUME NEW i \in Ids \cup {""}, NEW n \in Names, SaveRoom(c, i, n)
      PROVE  Named'
  BY ONLY <1>3, <1>5 DEF SaveRoom, bookVars
<1>6. ASSUME NEW i \in Ids, DeleteRoom(c, i) PROVE Named'
  <2>1. Put(c, Request("delete_room", "list", NoRoom)) /\ Aloof(calls[c])
    BY <1>0, <1>2, <1>6 DEF DeleteRoom, Begin, BeginLong
  <2>2. loose \subseteq loose' /\ \/ rooms[i] \in RoomNames' \cup {NoRoom} \cup loose'
                                  \/ \E a \in Calls : WillCarry(calls[a], rooms[i])
    BY <1>6, Loosened DEF DeleteRoom
  <2>3. \A x \in RoomNames : x \in RoomNames' \/ x = rooms[i]
    BY <1>6 DEF DeleteRoom, RoomTypes, RoomMaps, RoomNames, Range
  <2>4. ASSUME NEW x, Housed(x) PROVE Housed(x)'
    <3>1. CASE x \in RoomNames'
      BY <3>1 DEF Housed
    <3>2. CASE x \in loose' \cup {NoRoom}
      BY <3>2 DEF Housed
    <3>3. CASE \E a \in Calls : WillCarry(calls[a], x)
      BY <2>1, <3>3 DEF Housed, Put, Aloof
    <3>4. CASE x = rooms[i]
      BY ONLY <2>2, <3>1, <3>2, <3>3, <3>4
    <3>5. x \in RoomNames => Housed(x)'
      BY ONLY <2>3, <3>1, <3>4
    <3>6. x \in loose \cup {NoRoom} => Housed(x)'
      BY ONLY <2>2, <3>2
    <3>q. QED BY ONLY <2>4, <3>3, <3>5, <3>6 DEF Housed
  <2>5. \A x : DocNamed(x) => DocNamed(x)'
    BY <2>1, <2>4 DEF DocNamed, Put, Aloof
  <2>6. \A g \in Groups : GroupNamed(g) => GroupNamed(g)'
    BY <1>6, <2>1, <2>4 DEF GroupNamed, Put, Aloof, DeleteRoom
  <2>q. QED BY <1>6, <2>5, <2>6 DEF Named, DeleteRoom
<1>7. ASSUME NEW at \in [BridgeLights -> Names], ImportRooms(c, at) PROVE Named'
  BY ONLY <1>3, <1>7 DEF ImportRooms, bookVars
<1>8. ASSUME NEW names \in SUBSET Names, ImportFallback(c, names) PROVE Named'
  BY ONLY <1>3, <1>8 DEF ImportFallback, bookVars
<1>9. ASSUME NEW g \in Groups, NEW r, Put(c, r),
             \A x : ~WillCarry(calls[c], x) /\ ~WillCreate(calls[c], x) /\ ~WillList(calls[c], x),
             \A h, x : h # g /\ Carries(calls[c], h, x) => Carries(r, h, x),
             UNCHANGED <<rooms, docs>>, loose \subseteq loose',
             \A h \in Groups \ {g} : groups'[h] = groups[h], Housed(groups[g])'
      PROVE  Named'
  <2>1. \A x : Housed(x) => Housed(x)'
    BY <1>9 DEF Housed, Put, RoomNames, Aloof
  <2>2. \A x : DocNamed(x) => DocNamed(x)'
    BY <1>9, <2>1 DEF DocNamed, Put, Aloof
  <2>3. \A h \in Groups : GroupNamed(h) => GroupNamed(h)'
    BY <1>9, <2>1 DEF GroupNamed, Put, Aloof
  <2>q. QED BY <1>9, <2>2, <2>3 DEF Named
<1>10. ASSUME NEW g \in Groups, NEW n \in Names, CreateGroup(c, g, n) PROVE Named'
  <2>1. Put(c, Request("create_group", "glist", n)) /\ Aloof(calls[c])
    BY <1>0, <1>2, <1>10 DEF CreateGroup, Begin, BeginLong
  <2>2. loose \subseteq loose' /\ \/ n \in RoomNames' \cup {NoRoom} \cup loose'
                                  \/ \E a \in Calls : WillCarry(calls[a], n)
    BY <1>10, Loosened DEF CreateGroup
  <2>3. groups'[g] = n /\ \A h \in Groups \ {g} : groups'[h] = groups[h]
    BY <1>10 DEF CreateGroup, RoomTypes, GroupMaps
  <2>4. Housed(groups[g])'
    BY <2>1, <2>2, <2>3 DEF Housed, Put, Aloof
  <2>5. /\ loose \subseteq loose'
        /\ \A x : ~WillCarry(calls[c], x) /\ ~WillCreate(calls[c], x) /\ ~WillList(calls[c], x)
        /\ \A h, x : ~Carries(calls[c], h, x)
        /\ UNCHANGED <<rooms, docs>>
    BY ONLY <1>10, <2>1, <2>2 DEF CreateGroup, Aloof
  <2>q. QED BY ONLY <1>9, <2>1, <2>3, <2>4, <2>5
<1>11. ASSUME NEW g \in Groups, DeleteGroup(c, g) PROVE Named'
  <2>1. Put(c, Request("delete_group", "glist", NoRoom)) /\ Aloof(calls[c])
    BY <1>0, <1>2, <1>11 DEF DeleteGroup, Begin, BeginLong
  <2>2. groups'[g] = NoRoom /\ \A h \in Groups \ {g} : groups'[h] = groups[h]
    BY <1>11 DEF DeleteGroup, RoomTypes, GroupMaps
  <2>3. Housed(groups[g])'
    BY <2>2 DEF Housed
  <2>q. QED BY ONLY <1>9, <1>11, <2>1, <2>2, <2>3 DEF DeleteGroup, Aloof
<1>. USE DEF Shaped, Slotted, RoomSlot, DeviceSlot, LightSlot, Idle
<1>12. ASSUME NEW r, Put(c, r), UNCHANGED <<rooms, docs, groups, loose>>,
              r.op = calls[c].op, r.old = calls[c].old, r.name = calls[c].name,
              r.todo = calls[c].todo,
              calls[c].pc \in {"list", "write", "docs"} => r.pc \in {"list", "write", "docs"}
                                                            \/ ~Renamed(calls[c]),
              calls[c].pc \notin {"create", "groups"},
              calls[c].pc \in CarryPcs => r.pc \in CarryPcs
       PROVE  Named'
  <2>1. \A x : WillCarry(calls[c], x) => WillCarry(r, x)
    BY ONLY <1>12 DEF WillCarry, Renamed
  <2>2. \A x : ~WillCreate(calls[c], x) /\ ~WillList(calls[c], x)
    BY ONLY <1>12 DEF WillCreate, WillList
  <2>3. \A g, x : Carries(calls[c], g, x) => Carries(r, g, x)
    BY ONLY <1>12 DEF Carries
  <2>q. QED BY ONLY <1>12, <2>1, <2>2, <2>3, Named, c \in Calls, NamedApart
<1>13. ASSUME ListRooms(c) PROVE Named'
  <2>. DEFINE r == [calls[c] EXCEPT !.pc = "write", !.copy = rooms]
  <2>1. /\ r.op = calls[c].op /\ r.old = calls[c].old /\ r.name = calls[c].name
        /\ r.todo = calls[c].todo /\ r.pc = "write" /\ calls[c].pc = "list"
    BY <1>13 DEF ListRooms
  <2>2. Put(c, r)
    BY ONLY <1>0, <1>13 DEF ListRooms
  <2>. HIDE DEF r
  <2>q. QED BY ONLY <1>12, <1>13, <2>1, <2>2 DEF ListRooms, bookVars, CarryPcs
<1>14. ASSUME WriteRooms(c) PROVE Named'
  <2>1. ASSUME NEW p \in {"persist", "assign", "next", "docs"},
               Continue(c, [calls[c] EXCEPT !.pc = p, !.copy = {}]),
               p = "docs" \/ calls[c].op # "save_room"
        PROVE  Named'
    <3>. DEFINE r == [calls[c] EXCEPT !.pc = p, !.copy = {}]
    <3>1. /\ r.op = calls[c].op /\ r.old = calls[c].old /\ r.name = calls[c].name
          /\ r.todo = calls[c].todo /\ r.pc = p /\ calls[c].pc = "write"
      BY <1>14 DEF WriteRooms
    <3>2. Put(c, r)
      BY ONLY <1>0, <2>1
    <3>3. calls[c].op # "save_room" => ~Renamed(calls[c])
      BY DEF Renamed
    <3>. HIDE DEF r
    <3>q. QED BY ONLY <1>12, <1>14, <2>1, <3>1, <3>2, <3>3 DEF WriteRooms, bookVars, CarryPcs
  <2>2. ASSUME Return(c), ~Renamed(calls[c]) PROVE Named'
    <3>1. Aloof(calls[c])
      BY ONLY <1>14, <2>2 DEF WriteRooms, Aloof, WillCarry, WillList, WillCreate, Carries, CarryPcs
    <3>2. Put(c, Idle)
      BY ONLY <2>2, Shaped, c \in Calls, Puts
    <3>q. QED BY ONLY <1>1, <1>14, <3>1, <3>2 DEF WriteRooms
  <2>q. QED BY ONLY <1>14, <2>1, <2>2 DEF WriteRooms, Renamed
<1>15. ASSUME PersistDoc(c) PROVE Named'
  <2>1. Aloof(calls[c])
    BY <1>15 DEF PersistDoc, Aloof, WillCarry, WillList, WillCreate, Carries, CarryPcs
  <2>2. Put(c, Idle)
    BY ONLY <1>15, Shaped, c \in Calls, Puts DEF PersistDoc
  <2>q. QED BY ONLY <1>1, <1>15, <2>1, <2>2 DEF PersistDoc
<1>16. ASSUME CreateRoom(c) PROVE Named'
  <2>. DEFINE r == [calls[c] EXCEPT !.pc = "list"]
  <2>1. /\ calls[c].op = "save_doc" /\ calls[c].pc = "create"
        /\ calls[c].id \in Ids /\ calls[c].name \in Names
    BY <1>16 DEF CreateRoom
  <2>2. Put(c, r)
    BY ONLY <1>16, Shaped, c \in Calls, Gotos DEF CreateRoom
  <2>3. /\ \A x : ~WillCarry(calls[c], x) /\ ~WillList(calls[c], x)
        /\ \A x : WillCreate(calls[c], x) => x = calls[c].name
        /\ \A g, x : ~Carries(calls[c], g, x)
    BY ONLY <2>1 DEF WillCarry, WillList, WillCreate, Carries
  <2>q. QED BY ONLY <1>16, <2>1, <2>2, <2>3, NamedPut, Shaped, RoomTypes, Named, c \in Calls
            DEF CreateRoom, MaybeNames
<1>17. ASSUME SaveRoomPut(c) PROVE Named'
  <2>. DEFINE r == [calls[c] EXCEPT !.pc = "list"]
  <2>1. /\ calls[c].op = "save_room" /\ calls[c].pc = "put" /\ calls[c].old \in MaybeNames
        /\ calls[c].id \in Ids /\ calls[c].name \in Names
        /\ r.op = "save_room" /\ r.pc = "list" /\ r.old = calls[c].old /\ r.name = calls[c].name
    BY <1>17 DEF SaveRoomPut
  <2>2. Put(c, r)
    BY ONLY <1>17, Shaped, c \in Calls, Gotos DEF SaveRoomPut
  <2>. HIDE DEF r
  <2>3. /\ \A x : ~WillCarry(calls[c], x) /\ ~WillList(calls[c], x)
        /\ \A x : WillCreate(calls[c], x) => x = calls[c].name
        /\ \A g, x : ~Carries(calls[c], g, x)
    BY ONLY <2>1 DEF WillCarry, WillList, WillCreate, Carries, CarryPcs
  <2>4. calls[c].old \in {NoRoom, calls[c].name} \/ WillCarry(r, calls[c].old)
    BY ONLY <2>1 DEF WillCarry, Renamed
  <2>q. QED BY ONLY <1>17, <2>1, <2>2, <2>3, <2>4, NamedPut, Shaped, RoomTypes, Named, c \in Calls
            DEF SaveRoomPut
<1>18. ASSUME NEW n \in Names, ImportRoom(c, n) PROVE Named'
  <2>. DEFINE r == [calls[c] EXCEPT !.pc = "list", !.name = n, !.todo = @ \ {n}]
  <2>1. calls[c].pc = "next"
    BY <1>18 DEF ImportRoom
  <2>2. Put(c, r)
    BY ONLY <1>0, <1>18 DEF ImportRoom
  <2>3. /\ \A x : ~WillCarry(calls[c], x) /\ ~WillList(calls[c], x)
        /\ \A x : WillCreate(calls[c], x) => x = n
        /\ \A g, x : ~Carries(calls[c], g, x)
    BY ONLY <2>1 DEF WillCarry, WillList, WillCreate, Carries, CarryPcs
  <2>4. Slug[n] \in Ids
    BY RoomAssumption DEF Ids, Range
  <2>. HIDE DEF r
  <2>q. QED BY ONLY <1>18, <2>2, <2>3, <2>4, NamedPut, Shaped, RoomTypes, Named, c \in Calls
            DEF ImportRoom, MaybeNames
<1>19. ASSUME CarryDocs(c) PROVE Named'
  <2>. DEFINE r == [calls[c] EXCEPT !.pc = "groups"]
              old == calls[c].old
  <2>0. PICK n : n = calls[c].name
    OBVIOUS
  <2>1. /\ calls[c].pc = "docs" /\ calls[c].op = "save_room" /\ Renamed(calls[c])
        /\ r.pc = "groups" /\ r.op = "save_room" /\ r.old = old /\ r.name = calls[c].name
    BY <1>19 DEF CarryDocs
  <2>2. Put(c, r)
    BY ONLY <1>19, Shaped, c \in Calls, Gotos DEF CarryDocs
  <2>. HIDE DEF r
  <2>3. WillList(r, old) /\ (\A x : WillCarry(calls[c], x) => x = old)
        /\ (\A x : ~WillCreate(calls[c], x)) /\ (\A x : ~WillList(calls[c], x))
        /\ (\A g, x : ~Carries(calls[c], g, x))
    BY ONLY <2>1 DEF WillList, WillCarry, WillCreate, Carries, Renamed, CarryPcs
  <2>4. UNCHANGED <<rooms, groups>>
    BY <1>19 DEF CarryDocs
  <2>5. loose \subseteq loose'
    BY <1>19, Loosened DEF CarryDocs
  <2>6. \A x : Housed(x) => Housed(x)' \/ x = old
    BY ONLY <2>2, <2>3, <2>4, <2>5 DEF Housed, Put, RoomNames
  <2>7. \A g \in Groups : GroupNamed(g)'
    BY ONLY <2>2, <2>3, <2>4, <2>6, Named, c \in Calls DEF GroupNamed, Put, Named
  <2>8. ASSUME NEW k \in Keys PROVE DocNamed(docs[k].room)'
    <3>1. CASE docs[k].room = old
      <4>1. docs'[k] # docs[k] /\ docs'[k].room = n
        BY ONLY <1>19, <2>0, <2>1, <3>1, RoomTypes, k \in Keys DEF CarryDocs, Renamed, RoomTypes, DocMaps
      <4>2. \/ n \in RoomNames' \cup {NoRoom} \cup loose'
            \/ \E a \in Calls : WillCarry(calls[a], n)
        BY ONLY <1>19, <2>0, <2>4, <4>1, Loosened DEF CarryDocs
      <4>3. n # old
        BY ONLY <2>0, <2>1 DEF Renamed
      <4>4. Housed(n)'
        BY ONLY <2>2, <2>3, <4>2, <4>3 DEF Housed, Put
      <4>q. QED BY ONLY <4>1, <4>4 DEF DocNamed
    <3>2. CASE docs[k].room # old
      <4>1. docs'[k] = docs[k]
        BY ONLY <1>19, <3>2 DEF CarryDocs
      <4>2. DocNamed(docs[k].room)
        BY ONLY Named DEF Named
      <4>q. QED BY ONLY <2>2, <2>3, <2>6, <3>2, <4>1, <4>2, c \in Calls DEF DocNamed, Put
    <3>q. QED BY ONLY <3>1, <3>2
  <2>q. QED BY ONLY <2>7, <2>8 DEF Named
<1>20. ASSUME CarryGroups(c) PROVE Named'
  <2>. DEFINE mine == {g \in Groups : groups[g] = calls[c].old}
              r == [calls[c] EXCEPT !.pc = "gput", !.todo = mine]
  <2>1. calls[c].pc = "groups" /\ calls[c].op = "save_room"
        /\ r.pc = "gput" /\ r.op = "save_room" /\ r.todo = mine /\ r.old = calls[c].old
    BY <1>20 DEF CarryGroups
  <2>2. UNCHANGED <<rooms, docs, groups, loose>>
    BY <1>20 DEF CarryGroups, bookVars
  <2>3. (\A x : ~WillCarry(calls[c], x) /\ ~WillCreate(calls[c], x)) /\ (\A g, x : ~Carries(calls[c], g, x))
    BY ONLY <2>1 DEF WillCarry, WillCreate, Carries, CarryPcs
  <2>4. \A g \in Groups : WillList(calls[c], groups[g]) => g \in mine
    BY ONLY TRUE DEF WillList
  <2>5. ASSUME NEW s, Put(c, s), \A g \in mine : Carries(s, g, groups[g])
        PROVE  Named'
    <3>. HIDE DEF r, mine
    <3>1. \A x : Housed(x) => Housed(x)'
      BY ONLY <2>2, <2>3, <2>5 DEF Housed, Put, RoomNames
    <3>2. \A x : DocNamed(x) => DocNamed(x)'
      BY ONLY <2>3, <2>5, <3>1 DEF DocNamed, Put
    <3>3. \A g \in Groups : GroupNamed(g) => GroupNamed(g)'
      BY ONLY <2>2, <2>3, <2>4, <2>5, <3>1, c \in Calls DEF GroupNamed, Put
    <3>q. QED BY ONLY <2>2, <3>2, <3>3, Named DEF Named
  <2>6. CASE mine = {} /\ Return(c)
    <3>1. Put(c, Idle)
      BY ONLY <2>6, Shaped, c \in Calls, Puts
    <3>q. QED BY ONLY <2>5, <2>6, <3>1
  <2>7. CASE Continue(c, r)
    <3>1. Put(c, r)
      BY ONLY <1>0, <2>7
    <3>2. \A g \in mine : Carries(r, g, groups[g])
      BY ONLY <2>1 DEF Carries, CarryPcs
    <3>q. QED BY ONLY <2>5, <3>1, <3>2
  <2>q. QED BY ONLY <1>20, <2>6, <2>7 DEF CarryGroups
<1>21. ASSUME NEW g \in Groups, CarryGroup(c, g) PROVE Named'
  <2>. DEFINE r == [calls[c] EXCEPT !.pc = "glist", !.todo = @ \ {g}]
              n == calls[c].name
  <2>1. /\ r.op = "save_room" /\ r.pc = "glist" /\ r.todo = calls[c].todo \ {g}
        /\ r.old = calls[c].old
        /\ calls[c].op = "save_room" /\ calls[c].pc = "gput"
    BY <1>21 DEF CarryGroup
  <2>2. Put(c, r)
    BY ONLY <1>0, <1>21 DEF CarryGroup
  <2>. HIDE DEF r
  <2>3. /\ \A x : ~WillCarry(calls[c], x) /\ ~WillCreate(calls[c], x) /\ ~WillList(calls[c], x)
        /\ \A h, x : h # g /\ Carries(calls[c], h, x) => Carries(r, h, x)
    BY ONLY <2>1 DEF WillCarry, WillCreate, WillList, Carries, CarryPcs
  <2>4. UNCHANGED <<rooms, docs>>
    BY <1>21 DEF CarryGroup
  <2>5. loose \subseteq loose' /\ \/ n \in RoomNames' \cup {NoRoom} \cup loose'
                                  \/ \E a \in Calls : WillCarry(calls[a], n)
    <3>1. Loosen({n}, rooms) /\ rooms = rooms'
      BY <1>21 DEF CarryGroup
    <3>q. QED BY ONLY <3>1, Loosened
  <2>6. groups'[g] = n /\ \A h \in Groups \ {g} : groups'[h] = groups[h]
    BY <1>21 DEF CarryGroup, RoomTypes, GroupMaps
  <2>7. Housed(groups[g])'
    BY ONLY <2>2, <2>3, <2>5, <2>6 DEF Housed, Put
  <2>8. loose \subseteq loose'
    BY ONLY <2>5
  <2>9. \A h \in Groups \ {g} : groups'[h] = groups[h]
    BY ONLY <2>6
  <2>q. QED BY ONLY <1>9, <2>2, <2>3, <2>4, <2>7, <2>8, <2>9
<1>22. ASSUME ImportAssign(c) PROVE Named'
  <2>. DEFINE s == calls[c]
              mine == {k \in BridgeLights : s.at[k] = s.name}
  <2>0. PICK n : n = s.name
    OBVIOUS
  <2>1. Aloof(calls[c])
    BY <1>22 DEF ImportAssign, Aloof, WillCarry, WillList, WillCreate, Carries, CarryPcs
  <2>2. \E r : Put(c, r)
    BY ONLY <1>22, Shaped, c \in Calls, Puts DEF ImportAssign
  <2>3. PICK r : Put(c, r)
    BY <2>2
  <2>4. loose \subseteq loose'
        /\ \A k \in mine : \/ n \in RoomNames' \cup {NoRoom} \cup loose'
                           \/ \E a \in Calls : WillCarry(calls[a], n)
    <3>1. Loosen({s.name : k \in mine}, rooms) /\ rooms = rooms'
      BY <1>22 DEF ImportAssign
    <3>q. QED BY ONLY <2>0, <3>1, Loosened
  <2>5. UNCHANGED <<rooms, groups>>
    BY <1>22 DEF ImportAssign
  <2>6. \A x : Housed(x) => Housed(x)'
    BY ONLY <2>1, <2>3, <2>4, <2>5 DEF Housed, Put, RoomNames, Aloof
  <2>7. \A g \in Groups : GroupNamed(g)'
    BY ONLY <2>1, <2>3, <2>5, <2>6, Named, c \in Calls DEF GroupNamed, Put, Named, Aloof
  <2>8. ASSUME NEW k \in Keys PROVE DocNamed(docs[k].room)'
    <3>1. CASE k \in mine
      <4>1. docs'[k].room = n
        BY ONLY <1>22, <2>0, <3>1, RoomTypes, k \in Keys DEF ImportAssign, RoomTypes, DocMaps
      <4>2. Housed(n)'
        BY ONLY <2>1, <2>3, <2>4, <3>1 DEF Housed, Put, Aloof
      <4>q. QED BY ONLY <4>1, <4>2 DEF DocNamed
    <3>2. CASE k \notin mine
      <4>1. docs'[k] = docs[k]
        BY ONLY <1>22, <3>2, k \in Keys DEF ImportAssign
      <4>2. DocNamed(docs[k].room)
        BY ONLY Named, k \in Keys DEF Named
      <4>q. QED BY ONLY <2>1, <2>3, <2>6, <4>1, <4>2 DEF DocNamed, Put, Aloof
    <3>q. QED BY ONLY <3>1, <3>2
  <2>q. QED BY ONLY <2>7, <2>8 DEF Named
<1>23. ASSUME ListGroups(c) PROVE Named'
  <2>. DEFINE r == [calls[c] EXCEPT !.pc = "gwrite", !.copy = groups]
  <2>1. /\ r.op = calls[c].op /\ r.old = calls[c].old /\ r.name = calls[c].name
        /\ r.todo = calls[c].todo /\ r.pc = "gwrite" /\ calls[c].pc = "glist"
    BY <1>23 DEF ListGroups
  <2>2. Put(c, r)
    BY ONLY <1>0, <1>23 DEF ListGroups
  <2>. HIDE DEF r
  <2>q. QED BY ONLY <1>12, <1>23, <2>1, <2>2 DEF ListGroups, bookVars, CarryPcs
<1>24. ASSUME WriteGroups(c) PROVE Named'
  <2>1. ASSUME Continue(c, [calls[c] EXCEPT !.pc = "gput", !.copy = {}])
        PROVE  Named'
    <3>. DEFINE r == [calls[c] EXCEPT !.pc = "gput", !.copy = {}]
    <3>1. /\ r.op = calls[c].op /\ r.old = calls[c].old /\ r.name = calls[c].name
          /\ r.todo = calls[c].todo /\ r.pc = "gput" /\ calls[c].pc = "gwrite"
      BY <1>24 DEF WriteGroups
    <3>2. Put(c, r)
      BY ONLY <1>0, <2>1
    <3>. HIDE DEF r
    <3>q. QED BY ONLY <1>12, <1>24, <3>1, <3>2 DEF WriteGroups, CarryPcs
  <2>2. ASSUME Return(c), calls[c].todo = {} PROVE Named'
    <3>1. Aloof(calls[c])
      BY ONLY <1>24, <2>2 DEF WriteGroups, Aloof, WillCarry, WillList, WillCreate, Carries
    <3>2. Put(c, Idle)
      BY ONLY <2>2, Shaped, c \in Calls, Puts
    <3>q. QED BY ONLY <1>1, <1>24, <3>1, <3>2 DEF WriteGroups
  <2>q. QED BY ONLY <1>24, <2>1, <2>2 DEF WriteGroups
<1>25. ASSUME GiveUpRename(c) PROVE Named'
  <2>. DEFINE old == calls[c].old
  <2>1. /\ UNCHANGED <<rooms, docs, groups>> /\ loose \subseteq loose'
        /\ old \in RoomNames \/ old \in loose'
    BY <1>25 DEF GiveUpRename
  <2>2. Put(c, Idle)
    BY ONLY <1>25, Shaped, c \in Calls, Puts DEF GiveUpRename
  <2>3. /\ \A x : WillCarry(calls[c], x) => x = old
        /\ \A x : ~WillCreate(calls[c], x) /\ ~WillList(calls[c], x)
        /\ \A g, x : ~Carries(calls[c], g, x)
    BY ONLY <1>25 DEF GiveUpRename, WillCarry, WillCreate, WillList, Carries, CarryPcs
  <2>4. \A x : Housed(x) => Housed(x)'
    BY ONLY <2>1, <2>2, <2>3 DEF Housed, Put, RoomNames
  <2>5. \A x : DocNamed(x) => DocNamed(x)'
    BY ONLY <2>2, <2>3, <2>4 DEF DocNamed, Put
  <2>6. \A g \in Groups : GroupNamed(g) => GroupNamed(g)'
    BY ONLY <2>1, <2>2, <2>3, <2>4 DEF GroupNamed, Put
  <2>q. QED BY ONLY <2>1, <2>5, <2>6, Named DEF Named
<1>q. QED
  BY ONLY <1>4, <1>5, <1>6, <1>7, <1>8, <1>10, <1>11, <1>13, <1>14, <1>15, <1>16, <1>17, <1>18,
     <1>19, <1>20, <1>21, <1>22, <1>23, <1>24, <1>25, BookRequest(c) \/ BookStep(c)
     DEF BookRequest, BookStep

-----------------------------------------------------------------------------
(* The requests of the other parts                                         *)

DeviceMoved(c) ==
  \/ UNCHANGED calls
  \/ /\ calls[c] = Idle \/ DeviceSlot(calls[c])
     /\ \E r : Put(c, r) /\ (r = Idle \/ DeviceSlot(r))

LightMoved(c) ==
  \/ UNCHANGED calls
  \/ /\ calls[c] = Idle \/ LightSlot(calls[c])
     /\ \E r : Put(c, r) /\ (r = Idle \/ LightSlot(r))

\* A request that is dropped, or what is left of it, ends or leaves a call.
LEMMA Drops ==
  ASSUME Shaped, NEW c \in Calls,
         GiveUpDevices(c) \/ Sink(c) \/ LandUpsert(c) \/ LandReplace(c)
  PROVE  /\ DeviceSlot(calls[c]) /\ calls[c].op \in {"page", "ingest", "forget"}
         /\ calls[c].pc \notin {"ilist", "iwrite"}
         /\ UNCHANGED <<links, linksFile, kept, ignored, ignoredFile, crossed>>
         /\ \E r : /\ Put(c, r) /\ (r = Idle \/ DeviceSlot(r))
                  /\ r.pc \in {"none", "adrift"}
<1>1. calls[c].op \in {"page", "ingest", "forget"}
  BY DEF GiveUpDevices, Sink, LandUpsert, LandReplace
<1>2. DeviceSlot(calls[c])
  BY <1>1 DEF Shaped, Slotted, RoomSlot, DeviceSlot, LightSlot, Idle
<1>3. calls[c].pc \notin {"ilist", "iwrite"}
  BY ONLY <1>1, <1>2 DEF DeviceSlot
<1>4. UNCHANGED <<links, linksFile, kept, ignored, ignoredFile, crossed>>
  BY DEF GiveUpDevices, Sink, LandUpsert, LandReplace, deviceVars, linkVars, ignoreVars
<1>5. ASSUME Return(c) \/ Fail(c, Idle) PROVE Put(c, Idle) /\ Idle.pc = "none"
  BY ONLY <1>5, Puts, Shaped, c \in Calls DEF Idle
<1>6. ASSUME GiveUpDevices(c), calls[c].pc \in {"upsert", "replace"}
      PROVE  \E r : Put(c, r) /\ DeviceSlot(r) /\ r.pc = "adrift"
  <2>. DEFINE r == [calls[c] EXCEPT !.pc = "adrift"]
  <2>1. Put(c, r)
    BY ONLY <1>6, Puts, Shaped, c \in Calls DEF GiveUpDevices
  <2>2. DeviceSlot(r) /\ r.pc = "adrift"
    BY ONLY <1>2, <1>6 DEF DeviceSlot, DeviceFields
  <2>q. QED BY ONLY <2>1, <2>2
<1>q. QED
  BY ONLY <1>1, <1>2, <1>3, <1>4, <1>5, <1>6,
     GiveUpDevices(c) \/ Sink(c) \/ LandUpsert(c) \/ LandReplace(c)
     DEF GiveUpDevices, Sink, LandUpsert, LandReplace

LEMMA DeviceMoves ==
  ASSUME Shaped, NEW c \in Calls, DeviceRequest(c) \/ DeviceStep(c)
  PROVE  DeviceMoved(c)
<1>0. ASSUME NEW r, r = Idle \/ DeviceSlot(r), calls[c] = Idle \/ DeviceSlot(calls[c]),
             Begin(c, r) \/ Continue(c, r) \/ Fail(c, r)
      PROVE  DeviceMoved(c)
  BY <1>0, Puts DEF DeviceMoved
<1>1. ASSUME calls[c] = Idle \/ DeviceSlot(calls[c]), Return(c)
      PROVE  DeviceMoved(c)
  BY <1>1, Puts DEF DeviceMoved
<1>2. ASSUME NEW r, DeviceSlot(r), Begin(c, r) PROVE DeviceMoved(c)
  <2>1. calls[c] = Idle
    BY <1>2, Puts
  <2>q. QED BY ONLY <1>0, <1>2, <2>1
<1>. USE DEF DeviceCall, DeviceSlot, DeviceFields
<1>3. ASSUME Page(c) PROVE DeviceMoved(c)
  <2>1. DeviceSlot([DeviceCall("page", "snapshot", {}) EXCEPT !.copy = links])
    OBVIOUS
  <2>q. QED BY ONLY <1>2, <1>3, <2>1 DEF Page
<1>4. ASSUME NEW items \in SUBSET Items, Ingest(c, items) PROVE DeviceMoved(c)
  <2>. DEFINE valid == {i \in items : Norm[i] \notin ignored}
  <2>1. DeviceSlot(DeviceCall("ingest", "store", valid))
    OBVIOUS
  <2>2. Brief => UNCHANGED calls
    BY DEF Brief
  <2>q. QED BY ONLY <1>2, <1>4, <2>1, <2>2 DEF Ingest, DeviceMoved
<1>5. ASSUME NEW d \in Ble, Forget(c, d) PROVE DeviceMoved(c)
  <2>1. DeviceSlot([DeviceCall("forget", "replace", {i \in Items : Norm[i] = d})
                      EXCEPT !.devs = DevsOf(mobile')])
    OBVIOUS
  <2>q. QED BY ONLY <1>2, <1>5, <2>1 DEF Forget
<1>6. ASSUME NEW after, SetIgnored(c, after) PROVE DeviceMoved(c)
  <2>1. DeviceSlot(DeviceCall("ignore", "ilist", {}))
    OBVIOUS
  <2>q. QED BY ONLY <1>2, <1>6, <2>1 DEF SetIgnored
<1>. USE DEF Shaped, Slotted, RoomSlot, LightSlot, Idle
<1>7. ASSUME NEW read \in BOOLEAN, PageSnapshot(c, read) PROVE DeviceMoved(c)
  <2>1. DeviceSlot(calls[c])
    BY <1>7 DEF PageSnapshot
  <2>2. ASSUME NEW new PROVE DeviceSlot([calls[c] EXCEPT !.pc = "write_back", !.copy = new])
    BY <1>7 DEF PageSnapshot
  <2>q. QED BY ONLY <1>0, <1>1, <1>7, <2>1, <2>2 DEF PageSnapshot
<1>8. ASSUME NEW read \in BOOLEAN, IngestSnapshot(c, read) PROVE DeviceMoved(c)
  <2>1. DeviceSlot(calls[c])
    BY <1>8 DEF IngestSnapshot
  <2>2. DeviceSlot([calls[c] EXCEPT !.pc = "relink", !.devs = listed])
    BY <1>8 DEF IngestSnapshot
  <2>q. QED BY ONLY <1>0, <1>1, <1>8, <2>1, <2>2 DEF IngestSnapshot
<1>9. ASSUME NEW p \in {"upsert", "reread"}, calls[c].op = "ingest", calls[c].pc \in {"store", "upsert"}, Goto(c, p)
      PROVE  DeviceMoved(c)
  <2>1. DeviceSlot(calls[c])
    BY <1>9
  <2>2. DeviceSlot([calls[c] EXCEPT !.pc = p])
    BY <1>9
  <2>q. QED BY ONLY <1>0, <1>9, <2>1, <2>2 DEF Goto
<1>10. IngestStore(c) => calls[c].op = "ingest"
  BY DEF IngestStore
<1>11. ASSUME IngestUpsertFails(c) PROVE DeviceMoved(c)
  <2>1. DeviceSlot(calls[c])
    BY <1>11 DEF IngestUpsertFails
  <2>2. DeviceSlot([calls[c] EXCEPT !.pc = "reread"])
    BY <1>11 DEF IngestUpsertFails
  <2>q. QED BY ONLY <1>0, <1>11, <2>1, <2>2 DEF IngestUpsertFails
<1>12. ASSUME IngestLinks(c) PROVE DeviceMoved(c)
  <2>1. DeviceSlot(calls[c])
    BY <1>12 DEF IngestLinks
  <2>2. ASSUME NEW new PROVE DeviceSlot([calls[c] EXCEPT !.pc = "write_back", !.copy = new])
    BY <1>12 DEF IngestLinks
  <2>q. QED BY ONLY <1>0, <1>1, <1>12, <2>1, <2>2 DEF IngestLinks
<1>13. ASSUME WriteBack(c) \/ ForgetReplace(c) \/ WriteIgnored(c) PROVE DeviceMoved(c)
  <2>1. DeviceSlot(calls[c])
    BY <1>13 DEF WriteBack, ForgetReplace, WriteIgnored
  <2>q. QED BY ONLY <1>1, <1>13, <2>1 DEF WriteBack, ForgetReplace, WriteIgnored
<1>14. ASSUME ForgetReplaceFails(c) PROVE DeviceMoved(c)
  <2>1. DeviceSlot(calls[c])
    BY <1>14 DEF ForgetReplaceFails
  <2>q. QED BY ONLY <1>0, <1>14, <2>1 DEF ForgetReplaceFails
<1>15. ASSUME ListIgnored(c) PROVE DeviceMoved(c)
  <2>1. DeviceSlot(calls[c])
    BY <1>15 DEF ListIgnored
  <2>2. DeviceSlot([calls[c] EXCEPT !.pc = "iwrite", !.devs = ignored])
    BY <1>15 DEF ListIgnored
  <2>q. QED BY ONLY <1>0, <1>15, <2>1, <2>2 DEF ListIgnored
<1>16. ASSUME GiveUpDevices(c) \/ Sink(c) \/ LandUpsert(c) \/ LandReplace(c)
       PROVE  DeviceMoved(c)
  BY ONLY <1>16, Drops, Shaped, c \in Calls DEF DeviceMoved
<1>q. QED
  BY ONLY <1>3, <1>4, <1>5, <1>6, <1>7, <1>8, <1>9, <1>10, <1>11, <1>12, <1>13, <1>14, <1>15, <1>16,
     DeviceRequest(c) \/ DeviceStep(c)
     DEF DeviceRequest, DeviceStep, Ignore, Unignore, IngestStore, IngestUpsert

LEMMA LightMoves ==
  ASSUME Shaped, LightsNext
  PROVE  UNCHANGED <<bookVars, deviceVars>> /\ (UNCHANGED calls \/ \E c \in Calls : LightMoved(c))
<1>1. ASSUME NEW c \in Calls, NEW r, LightSlot(r), Begin(c, r) \/ BeginLong(c, r, 2)
      PROVE  LightMoved(c)
  BY <1>1, Puts DEF LightMoved
<1>2. ASSUME NEW c \in Calls, NEW r, LightSlot(calls[c]), Proceed(c, r) \/ Fail(c, Resume(r)),
             DOMAIN r = DOMAIN calls[c], r.op = "lights"
      PROVE  LightMoved(c)
  <2>1. ASSUME NEW p \in {"send", "snapshot"} PROVE LightSlot([r EXCEPT !.pc = p])
    BY <1>2 DEF LightSlot
  <2>2. Resume(r) = Idle \/ LightSlot(Resume(r))
    BY ONLY <2>1 DEF Resume
  <2>3. Put(c, Resume(r))
    BY ONLY <1>2, Puts, Shaped, c \in Calls DEF Proceed
  <2>q. QED BY ONLY <1>2, <2>2, <2>3 DEF LightMoved
<1>3. ASSUME NEW p \in {"send", "query", "snapshot", "adrift"}, NEW ids, NEW passes, NEW todo
      PROVE  LightSlot(Work(p, ids, passes, todo))
  BY DEF Work, LightSlot
<1>4. ASSUME NEW c \in Calls, LightRequest(c) PROVE LightMoved(c)
  BY ONLY <1>1, <1>3, <1>4 DEF LightRequest, Toggle, AskStatus, SetLight
<1>5. ASSUME NEW c \in Calls, NEW ids, NEW orders, NEW final, Control(c, ids, orders, final)
      PROVE  LightMoved(c)
  BY ONLY <1>1, <1>3, <1>5 DEF Control
<1>6. ASSUME NEW c \in Calls, LightStep(c) PROVE LightMoved(c)
  <2>1. LightSlot(calls[c])
    <3>1. calls[c].op = "lights"
      BY ONLY <1>6 DEF LightStep, TakeSnapshot, SendOrder, UpdateCache, QueryStatus, SendFails,
                       GiveUpLights, PostHue, LandHue, At
    <3>q. QED BY ONLY <3>1, Shaped, c \in Calls
              DEF Shaped, Slotted, RoomSlot, DeviceSlot, LightSlot, Idle
  <2>2. ASSUME NEW p \in {"cache", "query"}, Goto(c, p) PROVE LightMoved(c)
    <3>1. LightSlot([calls[c] EXCEPT !.pc = p])
      BY ONLY <2>1, p \in {"cache", "query"} DEF LightSlot
    <3>2. Put(c, [calls[c] EXCEPT !.pc = p])
      BY ONLY <2>2, Gotos, Shaped, c \in Calls
    <3>q. QED BY ONLY <2>1, <3>1, <3>2 DEF LightMoved
  <2>3. ASSUME NEW t, \/ Proceed(c, [calls[c] EXCEPT !.todo = t])
                      \/ Fail(c, Resume([calls[c] EXCEPT !.todo = t]))
        PROVE  LightMoved(c)
    <3>1. DOMAIN [calls[c] EXCEPT !.todo = t] = DOMAIN calls[c]
          /\ [calls[c] EXCEPT !.todo = t].op = "lights"
      BY ONLY <2>1 DEF LightSlot
    <3>q. QED BY ONLY <1>2, <2>1, <2>3, <3>1, c \in Calls
  <2>4. ASSUME NEW p, NEW t, Proceed(c, [calls[c] EXCEPT !.passes = p, !.todo = t]) PROVE LightMoved(c)
    <3>1. DOMAIN [calls[c] EXCEPT !.passes = p, !.todo = t] = DOMAIN calls[c]
          /\ [calls[c] EXCEPT !.passes = p, !.todo = t].op = "lights"
      BY ONLY <2>1 DEF LightSlot
    <3>q. QED BY ONLY <1>2, <2>1, <2>4, <3>1, c \in Calls
  <2>5. ASSUME GiveUpLights(c) \/ \E done \in BOOLEAN : LandHue(c, done) PROVE LightMoved(c)
    <3>1. Put(c, Idle) \/ Put(c, Work("adrift", {}, <<>>, <<Now(c)>>))
      BY ONLY <2>5, Puts, Shaped, c \in Calls DEF GiveUpLights, LandHue
    <3>q. QED BY ONLY <1>3, <2>1, <3>1 DEF LightMoved
  <2>q. QED BY ONLY <1>6, <2>2, <2>3, <2>4, <2>5
            DEF LightStep, TakeSnapshot, SendOrder, UpdateCache, QueryStatus, SendFails, PostHue
<1>7. LightWorld => UNCHANGED calls
  BY DEF LightWorld, Receive, LampTakes, Lose, Switch, Brief, requestVars
<1>8. UNCHANGED <<bookVars, deviceVars>>
  BY ONLY LightsNext DEF LightsNext, GroupOrder, RoomScene
<1>q. QED BY ONLY LightsNext, <1>4, <1>5, <1>6, <1>7, <1>8 DEF LightsNext, GroupOrder, RoomScene, Scene

-----------------------------------------------------------------------------
(* The invariant                                                           *)

\* What holds of rooms, documents and groups between any two steps.
RoomsInv ==
  Shaped /\ RoomTypes /\ RoomSaves /\ GroupSaves /\ DocsHeld /\ DeletedGone /\ Named

\* A slot that no request of a room, a document or a group is in.
Outside(r) ==
  /\ r.op \notin {"save_doc", "save_room", "import"}
  /\ r.pc \notin {"list", "write", "glist", "gwrite", "gput"}

LEMMA OutsideSlots ==
  ASSUME NEW r, r = Idle \/ DeviceSlot(r) \/ LightSlot(r)
  PROVE  Outside(r)
BY DEF Idle, DeviceSlot, LightSlot, Outside

\* Requests of devices and lights do nothing to rooms.
LEMMA ApartKeeps ==
  ASSUME RoomsInv, UNCHANGED bookVars, NEW c \in Calls, NEW r, Put(c, r),
         calls[c] = Idle \/ DeviceSlot(calls[c]) \/ LightSlot(calls[c]),
         r = Idle \/ DeviceSlot(r) \/ LightSlot(r)
  PROVE  RoomsInv'
<1>0. UNCHANGED <<rooms, roomsFile, docs, docsFile, groups, groupsFile, loose, deleted, mixed>>
  BY DEF bookVars
<1>1. Outside(calls[c]) /\ Outside(r)
  BY OutsideSlots
<1>2. Shaped'
  BY Reshaped DEF RoomsInv, Slotted
<1>3. RoomTypes'
  BY <1>0 DEF RoomsInv, RoomTypes
<1>4. RoomSaves'
  BY ONLY <1>0, <1>1, SavesApart, RoomsInv, Put(c, r), c \in Calls DEF RoomsInv, Outside
<1>5. GroupSaves'
  BY ONLY <1>0, <1>1, GroupSavesApart, RoomsInv, Put(c, r), c \in Calls DEF RoomsInv, Outside
<1>6. DocsHeld'
  <2>1. ~HoldsDocs(calls[c]) /\ ~HoldsDocs(r)
    BY <1>1 DEF Outside, HoldsDocs
  <2>q. QED BY ONLY <1>0, <1>1, <2>1, DocsApart, RoomsInv, Put(c, r), c \in Calls
            DEF RoomsInv, Outside
<1>7. DeletedGone'
  BY ONLY <1>0, <1>1, GoneApart, RoomsInv, Put(c, r), c \in Calls DEF RoomsInv, Outside, CarryPcs
<1>8. Named'
  BY ONLY <1>0, <1>1, NamedApart, RoomsInv, Put(c, r), c \in Calls
     DEF RoomsInv, Outside, WillCarry, WillCreate, WillList, Carries
<1>q. QED BY ONLY <1>2, <1>3, <1>4, <1>5, <1>6, <1>7, <1>8 DEF RoomsInv

LEMMA StillKeeps ==
  ASSUME RoomsInv, UNCHANGED <<calls, bookVars>>
  PROVE  RoomsInv'
<1>0. UNCHANGED <<calls, rooms, roomsFile, docs, docsFile, groups, groupsFile, loose, deleted, mixed>>
  BY DEF bookVars
<1>1. Shaped' /\ RoomTypes'
  BY <1>0 DEF RoomsInv, Shaped, RoomTypes
<1>2. RoomSaves' /\ GroupSaves'
  BY <1>0 DEF RoomsInv, RoomSaves, GroupSaves, SavesOf, Saving
<1>3. DocsHeld'
  BY <1>0 DEF RoomsInv, DocsHeld, DocsFree
<1>4. DeletedGone'
  BY <1>0 DEF RoomsInv, DeletedGone, Carrying
<1>5. Named'
  BY <1>0 DEF RoomsInv, Named, DocNamed, GroupNamed, Housed, RoomNames
<1>q. QED BY ONLY <1>1, <1>2, <1>3, <1>4, <1>5 DEF RoomsInv

\* Requests about documents that are one step.
LEMMA BriefKeeps ==
  ASSUME RoomsInv, BookBrief
  PROVE  RoomsInv'
<1>0. UNCHANGED <<calls, rooms, roomsFile, groups, groupsFile, deleted, mixed>>
      /\ DocsFree /\ docsFile' = docs'
  BY DEF BookBrief, Claim, AssignProduct, Brief
<1>1. Shaped'
  BY <1>0 DEF RoomsInv, Shaped
<1>2. RoomTypes'
  <2>1. ASSUME NEW k \in Keys, NEW n \in Names \cup {NoRoom}, Claim(k, n)
        PROVE  RoomTypes'
    BY <1>0, <2>1 DEF Claim, DocMaps, MaybeNames, RoomTypes, RoomsInv
  <2>2. ASSUME NEW k \in Keys, AssignProduct(k)
        PROVE  RoomTypes'
    BY <1>0, <2>2 DEF AssignProduct, DocMaps, RoomTypes, RoomsInv
  <2>q. QED BY ONLY BookBrief, <2>1, <2>2 DEF BookBrief
<1>3. RoomSaves' /\ GroupSaves'
  BY <1>0 DEF RoomsInv, RoomSaves, GroupSaves, SavesOf, Saving
<1>4. DocsHeld'
  BY <1>0 DEF RoomsInv, DocsHeld, DocsFree
<1>5. DeletedGone'
  BY <1>0 DEF RoomsInv, DeletedGone, Carrying
<1>6. Named'
  <2>1. ASSUME loose \subseteq loose', NEW k \in Keys, NEW x, Housed(x)' \/ x = docs[k].room,
               \A j \in Keys : docs'[j].room = IF j = k THEN x ELSE docs[j].room
        PROVE  Named'
    <3>1. \A y : Housed(y) => Housed(y)'
      BY <1>0, <2>1 DEF Housed, RoomNames
    <3>2. \A y : DocNamed(y) => DocNamed(y)'
      BY <1>0, <3>1 DEF DocNamed
    <3>3. \A g \in Groups : GroupNamed(g)'
      BY <1>0, <3>1 DEF GroupNamed, RoomsInv, Named
    <3>4. \A y : Housed(y)' => DocNamed(y)'
      BY DEF DocNamed
    <3>5. \A j \in Keys : DocNamed(docs[j].room)
      BY DEF RoomsInv, Named
    <3>6. \A j \in Keys : DocNamed(docs[j].room)'
      BY ONLY <2>1, <3>2, <3>4, <3>5
    <3>q. QED BY ONLY <3>3, <3>6 DEF Named
  <2>2. ASSUME NEW k \in Keys, NEW n \in Names \cup {NoRoom}, Claim(k, n)
        PROVE  Named'
    <3>1. PICK x : x = IF n = NoRoom THEN docs[k].room ELSE n
      OBVIOUS
    <3>2. docs \in DocMaps
      BY DEF RoomsInv, RoomTypes
    <3>3. \A j \in Keys : docs'[j].room = IF j = k THEN x ELSE docs[j].room
      BY ONLY <2>2, <3>1, <3>2 DEF Claim, DocMaps
    <3>4. loose \subseteq loose'
      BY ONLY <2>2 DEF Claim, Loosen
    <3>5. n # NoRoom => Housed(n)'
      BY <1>0, <2>2, Loosened DEF Claim, Housed
    <3>q. QED BY ONLY <2>1, <3>1, <3>3, <3>4, <3>5, k \in Keys
  <2>3. ASSUME NEW k \in Keys, AssignProduct(k)
        PROVE  Named'
    <3>1. PICK x : x = docs[k].room
      OBVIOUS
    <3>2. docs \in DocMaps
      BY DEF RoomsInv, RoomTypes
    <3>3. \A j \in Keys : docs'[j].room = IF j = k THEN x ELSE docs[j].room
      BY ONLY <2>3, <3>1, <3>2 DEF AssignProduct, DocMaps
    <3>4. loose \subseteq loose'
      BY ONLY <2>3 DEF AssignProduct
    <3>q. QED BY ONLY <2>1, <3>1, <3>3, <3>4, k \in Keys
  <2>q. QED BY ONLY BookBrief, <2>2, <2>3 DEF BookBrief
<1>q. QED BY ONLY <1>1, <1>2, <1>3, <1>4, <1>5, <1>6 DEF RoomsInv

\* With no request under way and the files taken for the stores, all of it
\* holds when the names without a room are known.
Fresh ==
  /\ Quiet /\ DOMAIN calls = Calls /\ RoomTypes
  /\ roomsFile = rooms /\ docsFile = docs /\ groupsFile = groups
  /\ NamesIn(docs, groups) \ Range(rooms) \subseteq loose /\ deleted = {}

LEMMA FreshRooms == Fresh => RoomsInv
<1>. SUFFICES ASSUME Fresh PROVE RoomsInv
  OBVIOUS
<1>. USE DEF Fresh
<1>0. \A c \in Calls : calls[c] = Idle
  BY DEF Quiet
<1>1. Shaped
  BY <1>0 DEF Shaped, Slotted
<1>2. Saving("rooms") = {} /\ Saving("groups") = {}
  BY <1>0 DEF Saving, Idle
<1>3. RoomSaves /\ GroupSaves
  BY <1>2 DEF RoomSaves, GroupSaves, SavesOf
<1>4. DocsHeld
  BY <1>0 DEF DocsHeld, DocsFree, HoldsDocs, Idle
<1>5. DeletedGone
  BY DEF DeletedGone
<1>6. Named
  <2>1. ASSUME NEW x \in NamesIn(docs, groups) \cup {NoRoom} PROVE Housed(x)
    BY <2>1 DEF Housed, RoomNames, NamesIn
  <2>2. \A k \in Keys : docs[k].room \in NamesIn(docs, groups) \cup {NoRoom}
    BY DEF NamesIn
  <2>3. \A g \in Groups : groups[g] \in NamesIn(docs, groups) \cup {NoRoom}
    BY DEF NamesIn, Range, RoomTypes, GroupMaps
  <2>q. QED BY ONLY <2>1, <2>2, <2>3 DEF Named, DocNamed, GroupNamed
<1>q. QED BY ONLY <1>1, <1>3, <1>4, <1>5, <1>6, Fresh DEF RoomsInv

LEMMA RoomsStart == Init => RoomsInv
<1>. SUFFICES ASSUME Init PROVE RoomsInv
  OBVIOUS
<1>1. Quiet /\ DOMAIN calls = Calls
  BY DEF Init, Quiet
<1>2. PICK furnished \in BOOLEAN :
        /\ rooms = [i \in Ids |-> IF furnished /\ i = Slug[DefaultRoom]
                                    THEN DefaultRoom ELSE NoRoom]
        /\ docs = [k \in Keys |-> [NoDoc EXCEPT !.room = DefaultRoom]]
        /\ groups = [g \in Groups |-> IF g = DefaultGroup THEN DefaultRoom ELSE NoRoom]
        /\ roomsFile = rooms /\ docsFile = docs /\ groupsFile = groups
        /\ loose = NamesIn(docs, groups) \ Range(rooms)
        /\ deleted = {}
  BY DEF Init, BookInit
<1>3. RoomTypes
  BY <1>2, RoomAssumption DEF RoomTypes, RoomMaps, DocMaps, GroupMaps, MaybeNames, NoDoc
<1>q. QED BY ONLY <1>1, <1>2, <1>3, FreshRooms DEF Fresh

\* A name without a room in the files is a loose one, or one that a restart
\* interrupts.
LEMMA InterruptedKnows ==
  ASSUME RoomsInv, NEW x \in NamesIn(docsFile, groupsFile) \ Range(roomsFile)
  PROVE  x \in loose \cup Interrupted
<1>0. x # NoRoom
  BY DEF NamesIn
<1>1. ASSUME NEW a \in Calls, Renamed(calls[a]), calls[a].old = x
      PROVE  x \in Interrupted
  BY <1>1 DEF Interrupted
<1>2. ASSUME Housed(x) PROVE x \in loose \cup Interrupted
  <2>1. x \in RoomNames => x \in Interrupted
    BY DEF Interrupted
  <2>2. ASSUME NEW a \in Calls, WillCarry(calls[a], x) PROVE x \in Interrupted
    BY ONLY <1>1, <2>2 DEF WillCarry
  <2>q. QED BY ONLY <1>0, <1>2, <2>1, <2>2 DEF Housed
<1>3. ASSUME NEW k \in Keys, docsFile[k].room = x
      PROVE  x \in loose \cup Interrupted
  <2>1. CASE docsFile[k] # docs[k]
    BY ONLY <1>3, <2>1 DEF Interrupted
  <2>2. CASE docsFile[k] = docs[k]
    <3>1. DocNamed(x)
      BY ONLY <1>3, <2>2, RoomsInv DEF RoomsInv, Named
    <3>2. ASSUME NEW a \in Calls, WillCreate(calls[a], x) PROVE x \in Interrupted
      BY ONLY <3>2 DEF WillCreate, Interrupted, Under
    <3>q. QED BY ONLY <1>2, <3>1, <3>2 DEF DocNamed
  <2>q. QED BY ONLY <2>1, <2>2
<1>4. ASSUME NEW g \in Groups, groupsFile[g] = x
      PROVE  x \in loose \cup Interrupted
  <2>1. CASE groupsFile[g] # groups[g]
    BY ONLY <1>4, <2>1 DEF Interrupted
  <2>2. CASE groupsFile[g] = groups[g]
    <3>1. GroupNamed(g) /\ groups[g] = x
      BY ONLY <1>4, <2>2, RoomsInv DEF RoomsInv, Named
    <3>2. ASSUME NEW a \in Calls, WillList(calls[a], x) \/ Carries(calls[a], g, x)
          PROVE  x \in Interrupted
      <4>1. Renamed(calls[a]) /\ calls[a].old = x
        BY ONLY <3>2, RoomsInv DEF RoomsInv, Shaped, Slotted, RoomSlot, DeviceSlot, LightSlot,
                                   Idle, WillList, Carries, CarryPcs
      <4>q. QED BY ONLY <1>1, <4>1
    <3>q. QED BY ONLY <1>2, <3>1, <3>2 DEF GroupNamed
  <2>q. QED BY ONLY <2>1, <2>2
<1>q. QED BY ONLY <1>3, <1>4, RoomsInv DEF NamesIn, Range, RoomsInv, RoomTypes, GroupMaps

\* A restart takes the files for the stores, whatever was under way.
LEMMA RestartKeeps ==
  ASSUME RoomsInv, Restart
  PROVE  RoomsInv'
<1>1. Quiet' /\ DOMAIN calls' = Calls
  BY DEF Restart, Quiet
<1>2. /\ rooms' = roomsFile /\ roomsFile' = rooms'
      /\ docsFile' = docs' /\ groupsFile' = groups'
      /\ loose' = (loose \cup Interrupted) \cap (NamesIn(docs', groups') \ Range(rooms'))
      /\ deleted' = {}
  BY DEF Restart, Reload
<1>3. RoomTypes'
  <2>1. docs' \in DocMaps
    BY RoomAssumption DEF Restart, Reload, RoomsInv, RoomTypes, DocMaps, MaybeNames, NoDoc
  <2>2. groups' \in GroupMaps
    BY RoomAssumption DEF Restart, Reload, RoomsInv, RoomTypes, GroupMaps, MaybeNames
  <2>q. QED BY <1>2, <2>1, <2>2 DEF RoomsInv, RoomTypes
<1>4. NamesIn(docs, groups)' \ Range(rooms)' \subseteq loose'
  <2>1. \A k \in Keys : docs'[k].room \in {docsFile[k].room, DefaultRoom}
    BY DEF Restart, Reload, NoDoc
  <2>2. \A g \in Groups : groups'[g] \in {groupsFile[g], DefaultRoom}
    BY DEF Restart, Reload, RoomsInv, RoomTypes, GroupMaps
  <2>3. DOMAIN groups' = Groups /\ DOMAIN groupsFile = Groups
    BY <1>3 DEF RoomsInv, RoomTypes, GroupMaps
  <2>4. NamesIn(docs', groups') \subseteq NamesIn(docsFile, groupsFile) \cup {DefaultRoom}
    BY ONLY <2>1, <2>2, <2>3 DEF NamesIn, Range
  <2>5. DefaultRoom \in Interrupted
    BY DEF Interrupted
  <2>6. NamesIn(docs', groups') \ Range(rooms') \subseteq loose \cup Interrupted
    BY ONLY <1>2, <2>4, <2>5, RoomsInv, InterruptedKnows
  <2>7. NamesIn(docs', groups') \ Range(rooms') \subseteq loose'
    BY ONLY <1>2, <2>6
  <2>8. (NamesIn(docs, groups)' = NamesIn(docs', groups')) /\ Range(rooms)' = Range(rooms')
    BY DEF NamesIn
  <2>q. QED BY ONLY <2>7, <2>8
<1>5. Fresh'
  BY ONLY <1>1, <1>2, <1>3, <1>4 DEF Fresh
<1>6. (Fresh => RoomsInv)'
  BY ONLY FreshRooms, PTL
<1>q. QED BY ONLY <1>5, <1>6

LEMMA RoomsStep ==
  ASSUME RoomsInv, [Next]_vars
  PROVE  RoomsInv'
<1>1. CASE RoomsNext
  <2>1. ASSUME NEW c \in Calls, BookRequest(c) \/ BookStep(c)
        PROVE  RoomsInv'
    BY ONLY RoomsInv, <2>1, BookShape, BookTypes, BookSaves, BookDocs, BookGone, BookNames
       DEF RoomsInv
  <2>q. QED BY ONLY RoomsInv, <1>1, <2>1, BriefKeeps DEF RoomsNext
<1>2. CASE DevicesNext
  <2>1. UNCHANGED bookVars
    BY ONLY <1>2 DEF DevicesNext
  <2>2. CASE DeviceBrief
    <3>1. UNCHANGED calls
      BY ONLY <2>2 DEF DeviceBrief, Link, Unlink, Brief
    <3>q. QED BY ONLY <2>1, <3>1, RoomsInv, StillKeeps
  <2>3. ASSUME NEW c \in Calls, DeviceRequest(c) \/ DeviceStep(c)
        PROVE  RoomsInv'
    <3>1. DeviceMoved(c)
      BY ONLY <2>3, RoomsInv, DeviceMoves DEF RoomsInv
    <3>q. QED BY ONLY <2>1, <3>1, RoomsInv, StillKeeps, ApartKeeps, c \in Calls DEF DeviceMoved
  <2>q. QED BY ONLY <1>2, <2>2, <2>3 DEF DevicesNext
<1>3. CASE LightsNext
  <2>1. UNCHANGED bookVars /\ (UNCHANGED calls \/ \E c \in Calls : LightMoved(c))
    BY ONLY <1>3, RoomsInv, LightMoves DEF RoomsInv
  <2>q. QED BY ONLY <2>1, RoomsInv, StillKeeps, ApartKeeps DEF LightMoved
<1>4. CASE UNCHANGED vars
  BY ONLY <1>4, RoomsInv, StillKeeps DEF vars, requestVars
<1>q. QED BY ONLY [Next]_vars, RoomsInv, <1>1, <1>2, <1>3, <1>4, RestartKeeps DEF Next

\* The invariant holds in every state of the web module.
THEOREM RoomsInvariant == Spec => []RoomsInv
<1>1. RoomsInv /\ [Next]_vars => RoomsInv'
  BY RoomsStep
<1>q. QED BY <1>1, RoomsStart, PTL DEF Spec

\* Whatever requests overlap, a room that a document or a group names exists,
\* or a rename is about to carry them to its new name, or the name was let go
\* in a way that no rename follows.
THEOREM NamesKept == Spec => []RoomsNamed
<1>1. RoomsInv => RoomsNamed
  BY NamedIs DEF RoomsInv
<1>q. QED BY <1>1, RoomsInvariant, PTL

\* A deleted light group stays away unless a rename had it on its list.
THEOREM GroupsStayDeleted == Spec => []DeletedStays
<1>1. RoomsInv => DeletedStays
  BY DEF RoomsInv, DeletedGone, DeletedStays
<1>q. QED BY <1>1, RoomsInvariant, PTL

\* With nobody saving, the files of rooms, documents and light groups hold what
\* the stores hold, unless a store was changed during a save.
THEOREM RoomFilesCurrent == Spec => []FilesCurrent
<1>1. RoomsInv => FilesCurrent
  BY DEF RoomsInv, RoomSaves, GroupSaves, SavesOf, DocsHeld, FilesCurrent
<1>q. QED BY <1>1, RoomsInvariant, PTL

-----------------------------------------------------------------------------
(* Links, BLE devices and the ignore list: the invariant                   *)

Forgetting == {c \in Calls : calls[c].op = "forget" /\ calls[c].pc = "replace"}
Upserting == {c \in Calls : calls[c].op = "ingest" /\ calls[c].pc = "upsert"}
Sending == {c \in Calls : calls[c].op = "ingest" /\ calls[c].pc \in {"upsert", "adrift"}}
Straying == {c \in Calls : calls[c].op = "forget" /\ calls[c].pc = "adrift"}

\* Links made by hand are in the store, and in each copy that may replace it.
LinksInv ==
  /\ kept \subseteq links
  /\ \A c \in Copies : kept \subseteq calls[c].copy

\* A link is a pair, in the store, the file and every copy.
PairsInv ==
  /\ \A l \in links \cup linksFile : l = <<l[1], l[2]>>
  /\ \A c \in Copies : \A l \in calls[c].copy : l = <<l[1], l[2]>>

\* One forget at a time holds the lock: what it puts in the supervisor's place
\* is what is stored, and what it removes is not.  What ingests are about to
\* send has not been forgotten, nor has what the replacements of dropped
\* requests list.
BleInv ==
  /\ \A a, b \in Forgetting : a = b
  /\ \A c \in Forgetting : /\ calls[c].devs = DevsOf(mobile)
                           /\ DevsOf(calls[c].items) \cap DevsOf(mobile) = {}
  /\ \A c \in Sending : DevsOf(calls[c].items) \cap forgotten = {}
  /\ \A c \in Straying : calls[c].devs \cap forgotten = {}
  /\ \A d \in DevsOf(mobile) :
       d \in listed \cup missed \/ \E c \in Upserting : d \in DevsOf(calls[c].items)
  /\ forgotten \cap (listed \cup DevsOf(mobile)) = {}

\* While the list is not changed under a save, one request saves it, what it
\* has taken is the list, and before and after it the file is.
IgnoreInv ==
  ~crossed =>
    /\ \A a, b \in IgnoreSaving : a = b
    /\ \A c \in IgnoreSaving : calls[c].pc = "iwrite" => calls[c].devs = ignored
    /\ IgnoreSaving = {} => ignoredFile = ignored

\* RoomsInv is there for the shape of the slots.
DevicesInv == RoomsInv /\ LinksInv /\ PairsInv /\ BleInv /\ IgnoreInv

LEMMA BleIs == BleInv => BleAgrees
BY DEF BleInv, BleAgrees, StoredIsListed, ForgottenIsGone, Upserting, Under

-----------------------------------------------------------------------------
(* Steps of the other parts                                                *)

\* A slot that no request of a link, a BLE device or the ignore list is in.
Foreign(r) == r.op \notin {"page", "ingest", "forget", "ignore"}

LEMMA ForeignSlots ==
  ASSUME NEW r, r = Idle \/ RoomSlot(r) \/ LightSlot(r)
  PROVE  Foreign(r)
BY DEF Idle, RoomSlot, LightSlot, Foreign

\* What the invariants say of a slot that changes hands among other requests.
LEMMA ForeignKeeps ==
  ASSUME DevicesInv, UNCHANGED deviceVars, NEW c \in Calls, NEW r, Put(c, r),
         Foreign(calls[c]), Foreign(r)
  PROVE  LinksInv' /\ PairsInv' /\ BleInv' /\ IgnoreInv'
<1>0. UNCHANGED <<mobile, listed, links, linksFile, ignored, ignoredFile, kept, forgotten, missed, crossed>>
  BY DEF deviceVars
<1>1. \A a \in Calls : calls'[a] = calls[a] \/ (a = c /\ Foreign(calls[a]) /\ Foreign(calls'[a]))
  BY DEF Put
<1>2. Copies' = Copies /\ \A a \in Copies : calls'[a] = calls[a]
  BY <1>1 DEF Copies, Under, Foreign
<1>3. Forgetting' = Forgetting /\ \A a \in Forgetting : calls'[a] = calls[a]
  BY <1>1 DEF Forgetting, Foreign
<1>4. /\ Upserting' = Upserting /\ \A a \in Upserting : calls'[a] = calls[a]
      /\ Sending' = Sending /\ \A a \in Sending : calls'[a] = calls[a]
      /\ Straying' = Straying /\ \A a \in Straying : calls'[a] = calls[a]
  BY <1>1 DEF Upserting, Sending, Straying, Foreign
<1>5. IgnoreSaving' = IgnoreSaving /\ \A a \in IgnoreSaving : calls'[a] = calls[a]
  BY <1>1 DEF IgnoreSaving, Under, Foreign
<1>6. LinksInv'
  BY <1>0, <1>2 DEF DevicesInv, LinksInv
<1>7. BleInv'
  BY <1>0, <1>3, <1>4 DEF DevicesInv, BleInv, DevsOf
<1>8. IgnoreInv'
  BY <1>0, <1>5 DEF DevicesInv, IgnoreInv
<1>9. PairsInv'
  BY <1>0, <1>2 DEF DevicesInv, PairsInv
<1>q. QED BY ONLY <1>6, <1>7, <1>8, <1>9

LEMMA StillDevices ==
  ASSUME DevicesInv, UNCHANGED <<calls, deviceVars>>
  PROVE  LinksInv' /\ PairsInv' /\ BleInv' /\ IgnoreInv'
<1>0. UNCHANGED <<calls, mobile, listed, links, linksFile, ignored, ignoredFile, kept, forgotten, missed, crossed>>
  BY DEF deviceVars
<1>q. QED BY <1>0 DEF DevicesInv, LinksInv, PairsInv, BleInv, IgnoreInv, Copies, Under, Forgetting, Upserting,
                      Sending, Straying, IgnoreSaving, DevsOf

\* A room request takes a free slot or goes on in its own.
LEMMA BookOwn ==
  ASSUME Shaped, NEW c \in Calls, BookRequest(c) \/ BookStep(c)
  PROVE  UNCHANGED calls \/ calls[c] = Idle \/ RoomSlot(calls[c])
<1>1. CASE BookRequest(c)
  BY ONLY <1>1 DEF BookRequest, SaveDoc, SaveRoom, DeleteRoom, ImportRooms, ImportFallback,
     CreateGroup, DeleteGroup, Brief, Begin, BeginLong
<1>2. CASE BookStep(c)
  <2>1. calls[c].pc \in {"list", "write", "create", "persist", "put", "docs", "groups",
                         "gput", "next", "assign", "glist", "gwrite"}
    BY ONLY <1>2 DEF BookStep, ListRooms, WriteRooms, CreateRoom, PersistDoc, SaveRoomPut,
       CarryDocs, GiveUpRename, CarryGroups, CarryGroup, ImportRoom, ImportAssign, ListGroups, WriteGroups
  <2>q. QED BY ONLY <2>1, Shaped, c \in Calls DEF Shaped, Slotted, Idle, DeviceSlot, LightSlot
<1>q. QED BY <1>1, <1>2

-----------------------------------------------------------------------------
(* Links                                                                   *)

\* A step after which request c has no copy, or one with all that was kept.
LEMMA LinksPut ==
  ASSUME LinksInv, NEW c \in Calls, NEW r, Put(c, r), kept' \subseteq kept,
         kept' \subseteq links',
         r.op \in {"page", "ingest"} /\ r.pc \in {"snapshot", "write_back"} => kept \subseteq r.copy
  PROVE  LinksInv'
BY DEF LinksInv, Copies, Under, Put

LEMMA LinksSteps ==
  ASSUME Shaped, LinksInv, NEW c \in Calls, DeviceRequest(c) \/ DeviceStep(c)
  PROVE  LinksInv'
<1>0. kept \subseteq links
  BY DEF LinksInv
<1>1. ASSUME NEW r, Begin(c, r) \/ Continue(c, r) \/ Fail(c, r), UNCHANGED <<links, kept>>,
             r.op \in {"page", "ingest"} /\ r.pc \in {"snapshot", "write_back"}
               => kept \subseteq r.copy
      PROVE  LinksInv'
  BY ONLY <1>0, <1>1, Puts, LinksPut, LinksInv, Shaped, c \in Calls
<1>2. ASSUME Return(c), UNCHANGED <<links, kept>> PROVE LinksInv'
  <2>1. Put(c, Idle)
    BY ONLY <1>2, Puts, Shaped, c \in Calls
  <2>q. QED BY ONLY <1>0, <1>2, <2>1, LinksPut, LinksInv, c \in Calls DEF Idle
<1>3. ASSUME UNCHANGED <<calls, links, kept>> PROVE LinksInv'
  BY ONLY <1>3, LinksInv DEF LinksInv, Copies, Under
<1>4. ASSUME UNCHANGED deviceVars PROVE UNCHANGED <<links, kept>>
  BY <1>4 DEF deviceVars
<1>5. ASSUME UNCHANGED linkVars PROVE UNCHANGED <<links, kept>>
  BY <1>5 DEF linkVars
<1>6. ASSUME Page(c) PROVE LinksInv'
  <2>1. Begin(c, [DeviceCall("page", "snapshot", {}) EXCEPT !.copy = links])
    BY ONLY <1>6 DEF Page
  <2>2. [DeviceCall("page", "snapshot", {}) EXCEPT !.copy = links].copy = links
    BY DEF DeviceCall
  <2>q. QED BY ONLY <1>0, <1>1, <1>4, <1>6, <2>1, <2>2 DEF Page
<1>7. ASSUME NEW op, NEW pc, NEW items, pc \notin {"snapshot", "write_back"},
             Begin(c, DeviceCall(op, pc, items)), UNCHANGED <<links, kept>>
      PROVE  LinksInv'
  <2>1. DeviceCall(op, pc, items).pc = pc
    BY DEF DeviceCall
  <2>q. QED BY ONLY <1>1, <1>7, <2>1
<1>8. ASSUME NEW items, Ingest(c, items) PROVE LinksInv'
  BY ONLY <1>3, <1>4, <1>7, <1>8 DEF Ingest, Brief
<1>9. ASSUME NEW after, SetIgnored(c, after) PROVE LinksInv'
  BY ONLY <1>5, <1>7, <1>9 DEF SetIgnored
<1>10. ASSUME NEW d, Forget(c, d) PROVE LinksInv'
  <2>1. PICK r : r = [DeviceCall("forget", "replace", {i \in Items : Norm[i] = d})
                       EXCEPT !.devs = DevsOf(mobile')]
    OBVIOUS
  <2>2. r.pc = "replace"
    BY ONLY <2>1 DEF DeviceCall
  <2>3. Begin(c, r) /\ UNCHANGED linkVars
    BY ONLY <1>10, <2>1 DEF Forget
  <2>q. QED BY ONLY <1>1, <1>5, <2>2, <2>3
<1>11. ASSUME NEW read, PageSnapshot(c, read) PROVE LinksInv'
  <2>1. c \in Copies /\ DeviceSlot(calls[c])
    BY <1>11 DEF PageSnapshot, Copies, Under, Shaped, Slotted, RoomSlot, DeviceSlot, LightSlot, Idle
  <2>2. kept \subseteq AutoLinked(listed, calls[c].copy)
    BY ONLY <2>1, LinksInv DEF LinksInv, AutoLinked
  <2>3. ASSUME NEW new, kept \subseteq new,
               Continue(c, [calls[c] EXCEPT !.pc = "write_back", !.copy = new]), UNCHANGED deviceVars
        PROVE  LinksInv'
    <3>1. [calls[c] EXCEPT !.pc = "write_back", !.copy = new].copy = new
      BY ONLY <2>1 DEF DeviceSlot, DeviceFields
    <3>q. QED BY ONLY <1>1, <1>4, <2>3, <3>1
  <2>q. QED BY ONLY <1>2, <1>4, <1>11, <2>2, <2>3 DEF PageSnapshot
<1>12. ASSUME IngestLinks(c) PROVE LinksInv'
  <2>1. DeviceSlot(calls[c])
    BY <1>12 DEF IngestLinks, Shaped, Slotted, RoomSlot, DeviceSlot, LightSlot, Idle
  <2>2. kept \subseteq AutoLinked(calls[c].devs, links)
    BY ONLY <1>0 DEF AutoLinked
  <2>3. ASSUME NEW new, kept \subseteq new,
               Continue(c, [calls[c] EXCEPT !.pc = "write_back", !.copy = new]), UNCHANGED deviceVars
        PROVE  LinksInv'
    <3>1. [calls[c] EXCEPT !.pc = "write_back", !.copy = new].copy = new
      BY ONLY <2>1 DEF DeviceSlot, DeviceFields
    <3>q. QED BY ONLY <1>1, <1>4, <2>3, <3>1
  <2>q. QED BY ONLY <1>2, <1>4, <1>12, <2>2, <2>3 DEF IngestLinks
<1>13. ASSUME WriteBack(c) PROVE LinksInv'
  <2>1. c \in Copies
    BY <1>13 DEF WriteBack, Copies, Under, Shaped, Slotted, RoomSlot, DeviceSlot, LightSlot, Idle
  <2>2. Put(c, Idle) /\ links' = calls[c].copy /\ kept' = kept
    BY ONLY <1>13, Puts, Shaped, c \in Calls DEF WriteBack
  <2>3. kept \subseteq calls[c].copy
    BY ONLY <2>1, LinksInv DEF LinksInv
  <2>q. QED BY ONLY <2>2, <2>3, LinksPut, LinksInv, c \in Calls DEF Idle
<1>14. ASSUME NEW p \in {"upsert", "reread"}, Goto(c, p), UNCHANGED <<links, kept>>
       PROVE  LinksInv'
  <2>1. [calls[c] EXCEPT !.pc = p].pc = p \/ [calls[c] EXCEPT !.pc = p] = calls[c]
    OBVIOUS
  <2>2. Put(c, [calls[c] EXCEPT !.pc = p])
    BY ONLY <1>14, Gotos, Shaped, c \in Calls
  <2>q. QED BY ONLY <1>0, <1>14, <2>1, <2>2, LinksPut, LinksInv, c \in Calls
            DEF LinksInv, Copies, Under
<1>15. ASSUME IngestStore(c) \/ IngestUpsert(c) PROVE LinksInv'
  BY ONLY <1>5, <1>14, <1>15 DEF IngestStore, IngestUpsert
<1>16. ASSUME IngestUpsertFails(c) PROVE LinksInv'
  <2>1. DeviceSlot(calls[c])
    BY <1>16 DEF IngestUpsertFails, Shaped, Slotted, RoomSlot, DeviceSlot, LightSlot, Idle
  <2>2. [calls[c] EXCEPT !.pc = "reread"].pc = "reread" /\ Idle.pc = "none"
    BY ONLY <2>1 DEF DeviceSlot, DeviceFields, Idle
  <2>q. QED BY ONLY <1>1, <1>5, <1>16, <2>2 DEF IngestUpsertFails
<1>17. ASSUME NEW read, IngestSnapshot(c, read) PROVE LinksInv'
  <2>1. DeviceSlot(calls[c])
    BY <1>17 DEF IngestSnapshot, Shaped, Slotted, RoomSlot, DeviceSlot, LightSlot, Idle
  <2>2. [calls[c] EXCEPT !.pc = "relink", !.devs = listed].pc = "relink"
    BY ONLY <2>1 DEF DeviceSlot, DeviceFields
  <2>q. QED BY ONLY <1>1, <1>2, <1>4, <1>17, <2>2 DEF IngestSnapshot
<1>18. ASSUME ListIgnored(c) PROVE LinksInv'
  <2>1. DeviceSlot(calls[c])
    BY <1>18 DEF ListIgnored, Shaped, Slotted, RoomSlot, DeviceSlot, LightSlot, Idle
  <2>2. [calls[c] EXCEPT !.pc = "iwrite", !.devs = ignored].pc = "iwrite"
    BY ONLY <2>1 DEF DeviceSlot, DeviceFields
  <2>q. QED BY ONLY <1>1, <1>4, <1>18, <2>2 DEF ListIgnored
<1>19. ASSUME ForgetReplace(c) \/ WriteIgnored(c) PROVE LinksInv'
  BY ONLY <1>2, <1>5, <1>19 DEF ForgetReplace, WriteIgnored
<1>20. ASSUME ForgetReplaceFails(c) PROVE LinksInv'
  <2>1. Idle.pc = "none"
    BY DEF Idle
  <2>q. QED BY ONLY <1>1, <1>5, <1>20, <2>1 DEF ForgetReplaceFails
<1>21. ASSUME GiveUpDevices(c) \/ Sink(c) \/ LandUpsert(c) \/ LandReplace(c) PROVE LinksInv'
  <2>1. \E r : Put(c, r) /\ r.pc \in {"none", "adrift"} /\ UNCHANGED <<links, kept>>
    BY ONLY <1>21, Drops, Shaped, c \in Calls
  <2>q. QED BY ONLY <1>0, <2>1, LinksPut, LinksInv, c \in Calls
<1>q. QED
  BY ONLY <1>6, <1>8, <1>9, <1>10, <1>11, <1>12, <1>13, <1>15, <1>16, <1>17, <1>18, <1>19, <1>20, <1>21,
     DeviceRequest(c) \/ DeviceStep(c) DEF DeviceRequest, DeviceStep, Ignore, Unignore
LEMMA PairsPut ==
  ASSUME PairsInv, NEW c \in Calls, NEW r, Put(c, r),
         \A l \in links' \cup linksFile' : l = <<l[1], l[2]>>,
         r.op \in {"page", "ingest"} /\ r.pc \in {"snapshot", "write_back"}
           => \A l \in r.copy : l = <<l[1], l[2]>>
  PROVE  PairsInv'
BY DEF PairsInv, Copies, Under, Put

LEMMA AutoPairs ==
  ASSUME NEW snapshot, NEW copy, \A l \in copy : l = <<l[1], l[2]>>
  PROVE  \A l \in AutoLinked(snapshot, copy) : l = <<l[1], l[2]>>
BY DEF AutoLinked

LEMMA PairsSteps ==
  ASSUME Shaped, PairsInv, NEW c \in Calls, DeviceRequest(c) \/ DeviceStep(c)
  PROVE  PairsInv'
<1>0. \A l \in links \cup linksFile : l = <<l[1], l[2]>>
  BY DEF PairsInv
<1>1. ASSUME NEW r, Put(c, r), UNCHANGED <<links, linksFile>>,
             r.pc \in {"snapshot", "write_back"} => \A l \in r.copy : l = <<l[1], l[2]>>
      PROVE  PairsInv'
  BY ONLY <1>0, <1>1, PairsPut, PairsInv, c \in Calls
<1>2. ASSUME UNCHANGED <<calls, links, linksFile>> PROVE PairsInv'
  BY ONLY <1>2, PairsInv DEF PairsInv, Copies, Under
<1>3. ASSUME UNCHANGED deviceVars \/ UNCHANGED linkVars PROVE UNCHANGED <<links, linksFile>>
  BY <1>3 DEF deviceVars, linkVars
<1>4. ASSUME NEW r, Put(c, r), r.pc \notin {"snapshot", "write_back"}, ~WriteBack(c)
      PROVE  PairsInv'
  <2>1. UNCHANGED deviceVars \/ UNCHANGED linkVars
    BY ONLY <1>4, DeviceRequest(c) \/ DeviceStep(c)
       DEF DeviceRequest, DeviceStep, Page, Ingest, Forget, Ignore, Unignore, SetIgnored, PageSnapshot,
           IngestSnapshot, IngestStore, IngestUpsert, IngestUpsertFails, IngestLinks, ForgetReplace,
           ForgetReplaceFails, GiveUpDevices, Sink, LandUpsert, LandReplace, ListIgnored, WriteIgnored,
           Brief, Begin, BeginLong
  <2>q. QED BY ONLY <1>1, <1>3, <1>4, <2>1
<1>5. ASSUME Page(c) PROVE PairsInv'
  <2>1. PICK r : r = [DeviceCall("page", "snapshot", {}) EXCEPT !.copy = links]
    OBVIOUS
  <2>2. r.copy = links
    BY ONLY <2>1 DEF DeviceCall
  <2>3. Put(c, r) /\ UNCHANGED deviceVars
    BY ONLY <1>5, <2>1, Puts, Shaped, c \in Calls DEF Page
  <2>q. QED BY ONLY <1>0, <1>1, <1>3, <2>2, <2>3
<1>6. ASSUME DeviceSlot(calls[c]), NEW new, \A l \in new : l = <<l[1], l[2]>>, UNCHANGED deviceVars,
             Continue(c, [calls[c] EXCEPT !.pc = "write_back", !.copy = new])
      PROVE  PairsInv'
  <2>1. [calls[c] EXCEPT !.pc = "write_back", !.copy = new].copy = new
    BY ONLY <1>6 DEF DeviceSlot, DeviceFields
  <2>2. Put(c, [calls[c] EXCEPT !.pc = "write_back", !.copy = new])
    BY ONLY <1>6, Puts, Shaped, c \in Calls
  <2>q. QED BY ONLY <1>1, <1>3, <1>6, <2>1, <2>2
<1>7. ASSUME Return(c), UNCHANGED deviceVars PROVE PairsInv'
  <2>1. Put(c, Idle) /\ Idle.pc = "none"
    BY ONLY <1>7, Puts, Shaped, c \in Calls DEF Idle
  <2>q. QED BY ONLY <1>1, <1>3, <1>7, <2>1
<1>8. ASSUME NEW read, PageSnapshot(c, read) PROVE PairsInv'
  <2>1. c \in Copies /\ DeviceSlot(calls[c])
    BY <1>8 DEF PageSnapshot, Copies, Under, Shaped, Slotted, RoomSlot, DeviceSlot, LightSlot, Idle
  <2>2. \A l \in AutoLinked(listed, calls[c].copy) : l = <<l[1], l[2]>>
    BY ONLY <2>1, AutoPairs, PairsInv DEF PairsInv
  <2>q. QED BY ONLY <1>6, <1>7, <1>8, <2>1, <2>2 DEF PageSnapshot
<1>9. ASSUME IngestLinks(c) PROVE PairsInv'
  <2>1. DeviceSlot(calls[c])
    BY <1>9 DEF IngestLinks, Shaped, Slotted, RoomSlot, DeviceSlot, LightSlot, Idle
  <2>2. \A l \in AutoLinked(calls[c].devs, links) : l = <<l[1], l[2]>>
    BY ONLY <1>0, AutoPairs
  <2>q. QED BY ONLY <1>6, <1>7, <1>9, <2>1, <2>2 DEF IngestLinks
<1>10. ASSUME WriteBack(c) PROVE PairsInv'
  <2>1. c \in Copies
    BY <1>10 DEF WriteBack, Copies, Under, Shaped, Slotted, RoomSlot, DeviceSlot, LightSlot, Idle
  <2>2. Put(c, Idle) /\ links' = calls[c].copy /\ linksFile' = links'
    BY ONLY <1>10, Puts, Shaped, c \in Calls DEF WriteBack
  <2>3. \A l \in calls[c].copy : l = <<l[1], l[2]>>
    BY ONLY <2>1, PairsInv DEF PairsInv
  <2>q. QED BY ONLY <2>2, <2>3, PairsPut, PairsInv, c \in Calls DEF Idle
<1>11. \/ UNCHANGED <<calls, links, linksFile>>
       \/ WriteBack(c) \/ Page(c) \/ IngestLinks(c) \/ (\E read \in BOOLEAN : PageSnapshot(c, read))
       \/ \E r : Put(c, r) /\ r.pc \notin {"snapshot", "write_back"}
  <2>0. ASSUME NEW op, NEW pc, NEW items PROVE DeviceCall(op, pc, items).pc = pc
    BY DEF DeviceCall
  <2>1. ASSUME NEW items, Ingest(c, items)
        PROVE  UNCHANGED <<calls, links, linksFile>> \/ \E r : Put(c, r) /\ r.pc = "store"
    BY ONLY <1>3, <2>0, <2>1, Puts, Shaped, c \in Calls DEF Ingest, Brief
  <2>2. ASSUME NEW after, SetIgnored(c, after) PROVE \E r : Put(c, r) /\ r.pc = "ilist"
    BY ONLY <2>0, <2>2, Puts, Shaped, c \in Calls DEF SetIgnored
  <2>3. ASSUME NEW d, Forget(c, d) PROVE \E r : Put(c, r) /\ r.pc = "replace"
    <3>1. PICK r : r = [DeviceCall("forget", "replace", {i \in Items : Norm[i] = d})
                         EXCEPT !.devs = DevsOf(mobile')]
      OBVIOUS
    <3>2. r.pc = "replace"
      BY ONLY <3>1 DEF DeviceCall
    <3>q. QED BY ONLY <2>3, <3>1, <3>2, Puts, Shaped, c \in Calls DEF Forget
  <2>4. ASSUME \/ \E read \in BOOLEAN : IngestSnapshot(c, read)
               \/ IngestStore(c) \/ IngestUpsert(c) \/ IngestUpsertFails(c) \/ ForgetReplace(c)
               \/ ForgetReplaceFails(c) \/ ListIgnored(c) \/ WriteIgnored(c)
        PROVE  \E r : Put(c, r) /\ r.pc \notin {"snapshot", "write_back"}
    <3>1. DeviceSlot(calls[c])
      BY <2>4 DEF IngestSnapshot, IngestStore, IngestUpsert, IngestUpsertFails, ForgetReplace,
         ForgetReplaceFails, ListIgnored, WriteIgnored, Shaped, Slotted, RoomSlot, DeviceSlot,
         LightSlot, Idle
    <3>2. ASSUME NEW p \in {"upsert", "reread"} PROVE [calls[c] EXCEPT !.pc = p].pc = p
      BY ONLY <3>1 DEF DeviceSlot, DeviceFields
    <3>3. /\ [calls[c] EXCEPT !.pc = "relink", !.devs = listed].pc = "relink"
          /\ [calls[c] EXCEPT !.pc = "iwrite", !.devs = ignored].pc = "iwrite"
      BY ONLY <3>1 DEF DeviceSlot, DeviceFields
    <3>4. ASSUME Return(c) \/ Fail(c, Idle) PROVE \E r : Put(c, r) /\ r.pc = "none"
      BY ONLY <3>4, Puts, Shaped, c \in Calls DEF Idle
    <3>5. ASSUME NEW r, Continue(c, r) \/ Fail(c, r), r.pc \notin {"snapshot", "write_back"}
          PROVE  \E s : Put(c, s) /\ s.pc \notin {"snapshot", "write_back"}
      BY ONLY <3>5, Puts, Shaped, c \in Calls
    <3>q. QED BY ONLY <2>4, <3>2, <3>3, <3>4, <3>5
              DEF IngestSnapshot, IngestStore, IngestUpsert, IngestUpsertFails, ForgetReplace,
                  ForgetReplaceFails, ListIgnored, WriteIgnored, Goto
  <2>5. ASSUME GiveUpDevices(c) \/ Sink(c) \/ LandUpsert(c) \/ LandReplace(c)
        PROVE  \E r : Put(c, r) /\ r.pc \notin {"snapshot", "write_back"}
    BY ONLY <2>5, Drops, Shaped, c \in Calls
  <2>q. QED
    BY ONLY <2>1, <2>2, <2>3, <2>4, <2>5, DeviceRequest(c) \/ DeviceStep(c)
       DEF DeviceRequest, DeviceStep, Ignore, Unignore
<1>q. QED BY ONLY <1>2, <1>4, <1>5, <1>8, <1>9, <1>10, <1>11

-----------------------------------------------------------------------------
(* BLE devices                                                             *)

\* A step of request c that is neither a forget before or after it nor has
\* anything to send or under way, and changes no store of BLE devices.
LEMMA BlePut ==
  ASSUME BleInv, NEW c \in Calls, NEW r, Put(c, r), UNCHANGED <<mobile, listed, forgotten, missed>>,
         r.pc \notin {"replace", "upsert", "adrift"}, calls[c].pc \notin {"replace", "upsert"}
  PROVE  BleInv'
<1>1. Forgetting' = Forgetting /\ \A a \in Forgetting : calls'[a] = calls[a]
  BY DEF Forgetting, Put
<1>2. Upserting' = Upserting /\ \A a \in Upserting : calls'[a] = calls[a]
  BY DEF Upserting, Put
<1>3. Sending' \subseteq Sending /\ \A a \in Sending' : calls'[a] = calls[a]
  BY DEF Sending, Put
<1>4. Straying' \subseteq Straying /\ \A a \in Straying' : calls'[a] = calls[a]
  BY DEF Straying, Put
<1>q. QED BY <1>1, <1>2, <1>3, <1>4 DEF BleInv, DevsOf

LEMMA BleSteps ==
  ASSUME Shaped, BleInv, NEW c \in Calls, DeviceRequest(c) \/ DeviceStep(c)
  PROVE  BleInv'
<1>1. ASSUME NEW r, Begin(c, r), r.pc \notin {"replace", "upsert", "adrift"},
             UNCHANGED <<mobile, listed, forgotten, missed>>
      PROVE  BleInv'
  <2>1. Put(c, r) /\ calls[c] = Idle
    BY ONLY <1>1, Puts, Shaped, c \in Calls
  <2>2. calls[c].pc = "none"
    BY ONLY <2>1 DEF Idle
  <2>q. QED BY ONLY <1>1, <2>1, <2>2, BlePut, BleInv, c \in Calls
<1>2. ASSUME NEW r, Continue(c, r) \/ Put(c, r), r.pc \notin {"replace", "upsert", "adrift"},
             calls[c].pc \notin {"replace", "upsert"},
             UNCHANGED <<mobile, listed, forgotten, missed>>
      PROVE  BleInv'
  <2>1. Put(c, r)
    BY ONLY <1>2, Puts, Shaped, c \in Calls
  <2>q. QED BY ONLY <1>2, <2>1, BlePut, BleInv, c \in Calls
<1>3. ASSUME Return(c), calls[c].pc \notin {"replace", "upsert"},
             UNCHANGED <<mobile, listed, forgotten, missed>>
      PROVE  BleInv'
  <2>1. Continue(c, Idle) /\ Idle.pc = "none"
    BY ONLY <1>3 DEF Return, Idle
  <2>q. QED BY ONLY <1>2, <1>3, <2>1
<1>4. ASSUME UNCHANGED <<calls, mobile, listed, forgotten, missed>> PROVE BleInv'
  BY ONLY <1>4, BleInv DEF BleInv, Forgetting, Upserting, Sending, Straying, DevsOf
<1>5. ASSUME UNCHANGED deviceVars PROVE UNCHANGED <<mobile, listed, forgotten, missed>>
  BY <1>5 DEF deviceVars
<1>6. ASSUME UNCHANGED mobileVars PROVE UNCHANGED <<mobile, listed, forgotten, missed>>
  BY <1>6 DEF mobileVars
<1>7. ASSUME NEW op, NEW pc, NEW items PROVE DeviceCall(op, pc, items).pc = pc
  BY DEF DeviceCall
<1>8. ASSUME Page(c) PROVE BleInv'
  <2>1. PICK r : r = [DeviceCall("page", "snapshot", {}) EXCEPT !.copy = links]
    OBVIOUS
  <2>2. r.pc = "snapshot"
    BY ONLY <2>1 DEF DeviceCall
  <2>3. Begin(c, r) /\ UNCHANGED deviceVars
    BY ONLY <1>8, <2>1 DEF Page
  <2>q. QED BY ONLY <1>1, <1>5, <2>2, <2>3
<1>9. ASSUME NEW items, Ingest(c, items) PROVE BleInv'
  BY ONLY <1>1, <1>4, <1>5, <1>7, <1>9 DEF Ingest, Brief
<1>10. ASSUME NEW after, SetIgnored(c, after) PROVE BleInv'
  BY ONLY <1>1, <1>6, <1>7, <1>10 DEF SetIgnored
<1>11. ASSUME NEW read, PageSnapshot(c, read) PROVE BleInv'
  <2>1. DeviceSlot(calls[c]) /\ calls[c].pc = "snapshot" /\ UNCHANGED deviceVars
    BY <1>11 DEF PageSnapshot, Shaped, Slotted, RoomSlot, DeviceSlot, LightSlot, Idle
  <2>2. ASSUME NEW new, Continue(c, [calls[c] EXCEPT !.pc = "write_back", !.copy = new])
        PROVE  BleInv'
    <3>1. [calls[c] EXCEPT !.pc = "write_back", !.copy = new].pc = "write_back"
      BY ONLY <2>1 DEF DeviceSlot, DeviceFields
    <3>q. QED BY ONLY <1>2, <1>5, <2>1, <2>2, <3>1
  <2>q. QED BY ONLY <1>3, <1>5, <1>11, <2>1, <2>2 DEF PageSnapshot
<1>12. ASSUME NEW read, IngestSnapshot(c, read) PROVE BleInv'
  <2>1. DeviceSlot(calls[c]) /\ calls[c].pc = "reread" /\ UNCHANGED deviceVars
    BY <1>12 DEF IngestSnapshot, Shaped, Slotted, RoomSlot, DeviceSlot, LightSlot, Idle
  <2>2. [calls[c] EXCEPT !.pc = "relink", !.devs = listed].pc = "relink"
    BY ONLY <2>1 DEF DeviceSlot, DeviceFields
  <2>q. QED BY ONLY <1>2, <1>3, <1>5, <1>12, <2>1, <2>2 DEF IngestSnapshot
<1>13. ASSUME IngestLinks(c) PROVE BleInv'
  <2>1. DeviceSlot(calls[c]) /\ calls[c].pc = "relink" /\ UNCHANGED deviceVars
    BY <1>13 DEF IngestLinks, Shaped, Slotted, RoomSlot, DeviceSlot, LightSlot, Idle
  <2>2. ASSUME NEW new, Continue(c, [calls[c] EXCEPT !.pc = "write_back", !.copy = new])
        PROVE  BleInv'
    <3>1. [calls[c] EXCEPT !.pc = "write_back", !.copy = new].pc = "write_back"
      BY ONLY <2>1 DEF DeviceSlot, DeviceFields
    <3>q. QED BY ONLY <1>2, <1>5, <2>1, <2>2, <3>1
  <2>q. QED BY ONLY <1>3, <1>5, <1>13, <2>1, <2>2 DEF IngestLinks
<1>14. ASSUME WriteBack(c) PROVE BleInv'
  BY ONLY <1>3, <1>6, <1>14 DEF WriteBack
<1>15. ASSUME ListIgnored(c) PROVE BleInv'
  <2>1. DeviceSlot(calls[c]) /\ calls[c].pc = "ilist" /\ UNCHANGED deviceVars
    BY <1>15 DEF ListIgnored, Shaped, Slotted, RoomSlot, DeviceSlot, LightSlot, Idle
  <2>2. [calls[c] EXCEPT !.pc = "iwrite", !.devs = ignored].pc = "iwrite"
    BY ONLY <2>1 DEF DeviceSlot, DeviceFields
  <2>q. QED BY ONLY <1>2, <1>5, <1>15, <2>1, <2>2 DEF ListIgnored
<1>16. ASSUME WriteIgnored(c) PROVE BleInv'
  BY ONLY <1>3, <1>6, <1>16 DEF WriteIgnored
<1>17. ASSUME IngestStore(c) PROVE BleInv'
  <2>1. DeviceSlot(calls[c]) /\ calls[c].pc = "store" /\ calls[c].op = "ingest"
    BY <1>17 DEF IngestStore, Shaped, Slotted, RoomSlot, DeviceSlot, LightSlot, Idle
  <2>2. Put(c, [calls[c] EXCEPT !.pc = "upsert"])
    BY ONLY <1>17, Gotos, Shaped, c \in Calls DEF IngestStore
  <2>3. /\ calls'[c].pc = "upsert" /\ calls'[c].op = "ingest" /\ calls'[c].items = calls[c].items
        /\ \A a \in Calls \ {c} : calls'[a] = calls[a]
    BY ONLY <2>1, <2>2 DEF Put, DeviceSlot, DeviceFields
  <2>4. Forgetting = {} /\ Forgetting' = {}
    BY <1>17, <2>3 DEF IngestStore, MobileHeld, Under, Forgetting
  <2>5. Upserting' = Upserting \cup {c} /\ c \notin Upserting
    BY <2>1, <2>3 DEF Upserting
  <2>6. DevsOf(mobile)' = DevsOf(mobile) \cup DevsOf(calls[c].items)
        /\ forgotten' = forgotten \ DevsOf(calls[c].items) /\ UNCHANGED <<listed, missed>>
    BY <1>17 DEF IngestStore, DevsOf
  <2>7. \A a \in Upserting' : DevsOf(calls'[a].items) = DevsOf(calls[a].items)
    BY <2>3, <2>5 DEF Upserting
  <2>8. Sending' = Sending \cup {c} /\ \A a \in Sending' : DevsOf(calls'[a].items) = DevsOf(calls[a].items)
    BY <2>1, <2>3 DEF Sending
  <2>9. Straying' = Straying /\ \A a \in Straying : calls'[a] = calls[a]
    BY <2>1, <2>3 DEF Straying
  <2>q. QED BY <2>4, <2>5, <2>6, <2>7, <2>8, <2>9 DEF BleInv
<1>18. ASSUME calls[c].op = "ingest", calls[c].pc = "upsert", UNCHANGED <<mobile, forgotten>>,
              \/ listed' = listed \cup DevsOf(calls[c].items)
                 /\ missed' = missed \ DevsOf(calls[c].items)
              \/ listed' = listed /\ missed' = missed \cup DevsOf(calls[c].items),
              NEW r, Put(c, r), r.pc \in {"none", "reread", "adrift"},
              r.pc = "adrift" => r.op = "ingest" /\ r.items = calls[c].items
       PROVE  BleInv'
  <2>1. Upserting' = Upserting \ {c} /\ c \in Upserting
        /\ \A a \in Upserting' : calls'[a] = calls[a]
    BY <1>18 DEF Upserting, Put
  <2>2. Forgetting' = Forgetting /\ \A a \in Forgetting : calls'[a] = calls[a]
    BY <1>18 DEF Forgetting, Put
  <2>3. DevsOf(mobile)' = DevsOf(mobile)
    BY <1>18 DEF DevsOf
  <2>4. DevsOf(calls[c].items) \cap forgotten = {}
    BY ONLY <1>18, c \in Calls, BleInv DEF BleInv, Sending
  <2>5. listed \cup missed \cup DevsOf(calls[c].items) \subseteq listed' \cup missed'
        /\ listed' \subseteq listed \cup DevsOf(calls[c].items)
    BY ONLY <1>18
  <2>6. \A d \in DevsOf(mobile)' :
          d \in listed' \cup missed' \/ \E a \in Upserting' : d \in DevsOf(calls'[a].items)
    BY ONLY <2>1, <2>3, <2>5, BleInv DEF BleInv
  <2>7. forgotten' \cap (listed' \cup DevsOf(mobile)') = {}
    BY ONLY <1>18, <2>3, <2>4, <2>5, BleInv DEF BleInv
  <2>8. \A a \in Sending' : DevsOf(calls'[a].items) \cap forgotten' = {}
    <3>1. \A a \in Sending' : a \in Sending /\ calls'[a].items = calls[a].items
      BY ONLY <1>18, c \in Calls DEF Sending, Put
    <3>2. \A a \in Sending' : DevsOf(calls'[a].items) = DevsOf(calls[a].items)
      BY ONLY <3>1 DEF DevsOf
    <3>q. QED BY ONLY <1>18, <3>1, <3>2, BleInv DEF BleInv
  <2>11. \A a \in Straying' : calls'[a].devs \cap forgotten' = {}
    <3>1. Straying' = Straying /\ \A a \in Straying : calls'[a] = calls[a]
      BY ONLY <1>18, c \in Calls DEF Straying, Put
    <3>q. QED BY ONLY <1>18, <3>1, BleInv DEF BleInv
  <2>9. \A a \in Forgetting' : calls'[a].devs = DevsOf(mobile)'
                               /\ DevsOf(calls'[a].items) \cap DevsOf(mobile)' = {}
    BY ONLY <2>2, <2>3, BleInv DEF BleInv
  <2>10. \A a, b \in Forgetting' : a = b
    BY ONLY <2>2, BleInv DEF BleInv
  <2>q. QED BY ONLY <2>6, <2>7, <2>8, <2>9, <2>10, <2>11 DEF BleInv, DevsOf
<1>19. ASSUME IngestUpsert(c) PROVE BleInv'
  <2>1. DeviceSlot(calls[c])
    BY <1>19 DEF IngestUpsert, Shaped, Slotted, RoomSlot, DeviceSlot, LightSlot, Idle
  <2>2. Put(c, [calls[c] EXCEPT !.pc = "reread"])
    BY ONLY <1>19, Gotos, Shaped, c \in Calls DEF IngestUpsert
  <2>3. [calls[c] EXCEPT !.pc = "reread"].pc = "reread"
    BY ONLY <2>1 DEF DeviceSlot, DeviceFields
  <2>q. QED BY ONLY <1>18, <1>19, <2>2, <2>3 DEF IngestUpsert
<1>20. ASSUME IngestUpsertFails(c) PROVE BleInv'
  <2>1. DeviceSlot(calls[c])
    BY <1>20 DEF IngestUpsertFails, Shaped, Slotted, RoomSlot, DeviceSlot, LightSlot, Idle
  <2>2. [calls[c] EXCEPT !.pc = "reread"].pc = "reread" /\ Idle.pc = "none"
    BY ONLY <2>1 DEF DeviceSlot, DeviceFields, Idle
  <2>3. Put(c, Idle) \/ Put(c, [calls[c] EXCEPT !.pc = "reread"])
    BY ONLY <1>20, Puts, Shaped, c \in Calls DEF IngestUpsertFails
  <2>q. QED BY ONLY <1>18, <1>20, <2>2, <2>3 DEF IngestUpsertFails
<1>21. ASSUME NEW d, Forget(c, d) PROVE BleInv'
  <2>1. PICK r : r = [DeviceCall("forget", "replace", {i \in Items : Norm[i] = d})
                       EXCEPT !.devs = DevsOf(mobile')]
    OBVIOUS
  <2>2. /\ r.op = "forget" /\ r.pc = "replace" /\ r.devs = DevsOf(mobile')
        /\ r.items = {i \in Items : Norm[i] = d}
    BY ONLY <2>1 DEF DeviceCall
  <2>3. Begin(c, r)
    BY ONLY <1>21, <2>1 DEF Forget
  <2>4. Put(c, r) /\ calls[c] = Idle
    BY ONLY <2>3, Puts, Shaped, c \in Calls
  <2>5. ~MobileHeld /\ UNCHANGED <<listed, forgotten, missed>>
        /\ mobile' = {i \in mobile : Norm[i] # d}
    BY ONLY <1>21 DEF Forget
  <2>6. Forgetting' = {c}
    BY <2>2, <2>4, <2>5 DEF Forgetting, MobileHeld, Under, Put
  <2>7. /\ Upserting' = Upserting /\ \A a \in Upserting : calls'[a] = calls[a]
        /\ Sending' = Sending /\ \A a \in Sending : calls'[a] = calls[a]
        /\ Straying' = Straying /\ \A a \in Straying : calls'[a] = calls[a]
    BY <2>2, <2>4 DEF Upserting, Sending, Straying, Put, Idle
  <2>8. DevsOf(mobile') \subseteq DevsOf(mobile)
    BY ONLY <2>5 DEF DevsOf
  <2>9. DevsOf(r.items) \cap DevsOf(mobile') = {}
    BY ONLY <2>2, <2>5 DEF DevsOf
  <2>10. calls'[c] = r
    BY ONLY <2>4 DEF Put
  <2>q. QED BY <2>2, <2>5, <2>6, <2>7, <2>8, <2>9, <2>10 DEF BleInv, DevsOf
<1>22. ASSUME NEW r, Put(c, r), r = Idle, c \in Forgetting
       PROVE  /\ Forgetting' = {}
              /\ Upserting' = Upserting /\ \A a \in Upserting : calls'[a] = calls[a]
              /\ Sending' = Sending /\ \A a \in Sending : calls'[a] = calls[a]
              /\ Straying' = Straying /\ \A a \in Straying : calls'[a] = calls[a]
  BY <1>22 DEF Forgetting, Upserting, Sending, Straying, Put, Idle, BleInv
<1>23. ASSUME ForgetReplace(c) PROVE BleInv'
  <2>1. c \in Forgetting /\ Put(c, Idle)
    BY <1>23, Puts DEF ForgetReplace, Forgetting
  <2>2. PICK new : new = DevsOf(calls[c].items)
                    \ (Sent \cup UNION {calls[o].devs : o \in Under({"forget"}, {"adrift"})})
    OBVIOUS
  <2>3. /\ listed' = DevsOf(mobile) /\ missed' = {} /\ mobile' = mobile
        /\ forgotten' = forgotten \cup new
    BY <1>23, <2>1, <2>2 DEF ForgetReplace, BleInv, mobileVars
  <2>4. /\ new \cap DevsOf(mobile) = {}
        /\ \A a \in Sending : DevsOf(calls[a].items) \cap new = {}
        /\ \A a \in Straying : calls[a].devs \cap new = {}
    BY <2>1, <2>2 DEF BleInv, Sent, Sending, Straying, Under
  <2>5. DevsOf(mobile)' = DevsOf(mobile)
    BY <2>3 DEF DevsOf
  <2>q. QED BY <1>22, <2>1, <2>3, <2>4, <2>5 DEF BleInv, DevsOf
<1>24. ASSUME ForgetReplaceFails(c) PROVE BleInv'
  <2>1. c \in Forgetting /\ Put(c, Idle)
    BY <1>24, Puts DEF ForgetReplaceFails, Forgetting
  <2>2. UNCHANGED <<mobile, listed, forgotten>> /\ missed \subseteq missed'
    BY <1>24 DEF ForgetReplaceFails
  <2>q. QED BY <1>22, <2>1, <2>2 DEF BleInv, DevsOf
<1>25. ASSUME GiveUpDevices(c) PROVE BleInv'
  <2>1. DeviceSlot(calls[c]) /\ calls[c].op \in {"page", "ingest", "forget"}
    BY ONLY <1>25, Drops, Shaped, c \in Calls
  <2>. DEFINE r == [calls[c] EXCEPT !.pc = "adrift"]
  <2>2. r.op = calls[c].op /\ r.pc = "adrift" /\ r.items = calls[c].items /\ r.devs = calls[c].devs
    BY ONLY <2>1 DEF DeviceSlot, DeviceFields
  <2>. HIDE DEF r
  <2>3. CASE calls[c].pc \notin {"upsert", "replace"}
    <3>1. Put(c, Idle) /\ UNCHANGED <<mobile, listed, forgotten, missed>>
      BY ONLY <1>25, <2>3, Puts, Shaped, c \in Calls DEF GiveUpDevices
    <3>2. Idle.pc = "none"
      BY DEF Idle
    <3>q. QED BY ONLY <1>2, <2>3, <3>1, <3>2
  <2>4. ASSUME calls[c].pc \in {"upsert", "replace"}
        PROVE  Put(c, r) /\ UNCHANGED <<mobile, listed, forgotten>>
               /\ missed' = missed \cup DevsOf(calls[c].items)
    BY ONLY <1>25, <2>4, Puts, Shaped, c \in Calls DEF GiveUpDevices, r
  <2>5. CASE calls[c].pc = "upsert"
    <3>1. calls[c].op = "ingest"
      BY ONLY <2>1, <2>5 DEF DeviceSlot
    <3>q. QED BY ONLY <1>18, <2>2, <2>4, <2>5, <3>1
  <2>6. CASE calls[c].pc = "replace"
    <3>1. calls[c].op = "forget" /\ c \in Forgetting
      BY ONLY <2>1, <2>6, c \in Calls DEF DeviceSlot, Forgetting
    <3>2. /\ Forgetting' = {}
          /\ Upserting' = Upserting /\ \A a \in Upserting : calls'[a] = calls[a]
          /\ Sending' = Sending /\ \A a \in Sending : calls'[a] = calls[a]
          /\ Straying' = Straying \cup {c} /\ \A a \in Straying : calls'[a] = calls[a]
          /\ calls'[c].devs = DevsOf(mobile)
      <4>1. \A a \in Calls : a # c => calls'[a] = calls[a]
        BY ONLY <2>4, <2>6 DEF Put
      <4>2. calls'[c] = r
        BY ONLY <2>4, <2>6 DEF Put
      <4>3. \A a \in Forgetting : a = c
        BY ONLY <3>1, BleInv DEF BleInv
      <4>4. calls[c].devs = DevsOf(mobile)
        BY ONLY <3>1, BleInv DEF BleInv
      <4>q. QED BY ONLY <2>2, <2>6, <3>1, <4>1, <4>2, <4>3, <4>4, c \in Calls
                DEF Forgetting, Upserting, Sending, Straying
    <3>q. QED BY ONLY <2>4, <2>6, <3>2, BleInv DEF BleInv, DevsOf
  <2>q. QED BY ONLY <2>3, <2>5, <2>6
<1>26. ASSUME Sink(c) PROVE BleInv'
  BY ONLY <1>3, <1>5, <1>26 DEF Sink
<1>27. ASSUME Put(c, Idle), calls[c].pc = "adrift"
       PROVE  /\ Forgetting' = Forgetting /\ \A a \in Forgetting : calls'[a] = calls[a]
              /\ Upserting' = Upserting /\ \A a \in Upserting : calls'[a] = calls[a]
              /\ Sending' \subseteq Sending /\ \A a \in Sending' : calls'[a] = calls[a]
              /\ Straying' \subseteq Straying /\ \A a \in Straying' : calls'[a] = calls[a]
  BY <1>27 DEF Forgetting, Upserting, Sending, Straying, Put, Idle
<1>28. ASSUME LandUpsert(c) PROVE BleInv'
  <2>1. Put(c, Idle) /\ calls[c].pc = "adrift" /\ c \in Sending
    BY <1>28, Puts DEF LandUpsert, Sending
  <2>2. /\ UNCHANGED <<mobile, forgotten>>
        /\ listed \cup missed \subseteq listed' \cup missed'
        /\ listed' = listed \cup DevsOf(calls[c].items)
    BY ONLY <1>28 DEF LandUpsert
  <2>3. DevsOf(calls[c].items) \cap forgotten = {}
    BY ONLY <2>1, BleInv DEF BleInv
  <2>q. QED BY ONLY <1>27, <2>1, <2>2, <2>3, BleInv DEF BleInv, DevsOf
<1>29. ASSUME LandReplace(c) PROVE BleInv'
  <2>1. Put(c, Idle) /\ calls[c].pc = "adrift" /\ c \in Straying
    BY <1>29, Puts DEF LandReplace, Straying
  <2>2. /\ UNCHANGED <<mobile, forgotten>> /\ listed' = calls[c].devs
        /\ DevsOf(mobile) \subseteq listed' \cup missed'
    BY ONLY <1>29 DEF LandReplace
  <2>3. calls[c].devs \cap forgotten = {}
    BY ONLY <2>1, BleInv DEF BleInv
  <2>q. QED BY ONLY <1>27, <2>1, <2>2, <2>3, BleInv DEF BleInv, DevsOf
<1>q. QED
  BY ONLY <1>8, <1>9, <1>10, <1>11, <1>12, <1>13, <1>14, <1>15, <1>16, <1>17, <1>19, <1>20,
     <1>21, <1>23, <1>24, <1>25, <1>26, <1>28, <1>29,
     DeviceRequest(c) \/ DeviceStep(c) DEF DeviceRequest, DeviceStep, Ignore, Unignore
-----------------------------------------------------------------------------
(* The ignore list                                                         *)

\* A step before and after which request c does not save the list.
LEMMA IgnorePut ==
  ASSUME IgnoreInv, NEW c \in Calls, NEW r, Put(c, r), UNCHANGED <<ignored, ignoredFile, crossed>>,
         calls[c].pc \notin {"ilist", "iwrite"}, r.pc \notin {"ilist", "iwrite"}
  PROVE  IgnoreInv'
<1>1. IgnoreSaving' = IgnoreSaving /\ \A a \in IgnoreSaving : calls'[a] = calls[a]
  BY DEF IgnoreSaving, Under, Put
<1>q. QED BY <1>1 DEF IgnoreInv

LEMMA IgnoreSteps ==
  ASSUME Shaped, IgnoreInv, NEW c \in Calls, DeviceRequest(c) \/ DeviceStep(c)
  PROVE  IgnoreInv'
<1>1. ASSUME NEW r, Begin(c, r) \/ Continue(c, r) \/ Fail(c, r) \/ Put(c, r),
             calls[c].pc \notin {"ilist", "iwrite"}, r.pc \notin {"ilist", "iwrite"},
             UNCHANGED <<ignored, ignoredFile, crossed>>
      PROVE  IgnoreInv'
  BY ONLY <1>1, Puts, IgnorePut, IgnoreInv, Shaped, c \in Calls
<1>2. ASSUME NEW r, Begin(c, r), r.pc \notin {"ilist", "iwrite"},
             UNCHANGED <<ignored, ignoredFile, crossed>>
      PROVE  IgnoreInv'
  <2>1. calls[c].pc = "none"
    BY ONLY <1>2, Puts, Shaped, c \in Calls DEF Idle
  <2>q. QED BY ONLY <1>1, <1>2, <2>1
<1>3. ASSUME Return(c), calls[c].pc \notin {"ilist", "iwrite"},
             UNCHANGED <<ignored, ignoredFile, crossed>>
      PROVE  IgnoreInv'
  <2>1. Continue(c, Idle) /\ Idle.pc = "none"
    BY ONLY <1>3 DEF Return, Idle
  <2>q. QED BY ONLY <1>1, <1>3, <2>1
<1>4. ASSUME UNCHANGED <<calls, ignored, ignoredFile, crossed>> PROVE IgnoreInv'
  BY ONLY <1>4, IgnoreInv DEF IgnoreInv, IgnoreSaving, Under
<1>5. ASSUME UNCHANGED deviceVars \/ UNCHANGED ignoreVars
      PROVE  UNCHANGED <<ignored, ignoredFile, crossed>>
  BY <1>5 DEF deviceVars, ignoreVars
<1>6. ASSUME NEW op, NEW pc, NEW items PROVE DeviceCall(op, pc, items).pc = pc
  BY DEF DeviceCall
<1>7. ASSUME Page(c) PROVE IgnoreInv'
  <2>1. PICK r : r = [DeviceCall("page", "snapshot", {}) EXCEPT !.copy = links]
    OBVIOUS
  <2>2. r.pc = "snapshot"
    BY ONLY <2>1 DEF DeviceCall
  <2>3. Begin(c, r) /\ UNCHANGED deviceVars
    BY ONLY <1>7, <2>1 DEF Page
  <2>q. QED BY ONLY <1>2, <1>5, <2>2, <2>3
<1>8. ASSUME NEW items, Ingest(c, items) PROVE IgnoreInv'
  BY ONLY <1>2, <1>4, <1>5, <1>6, <1>8 DEF Ingest, Brief
<1>9. ASSUME NEW d, Forget(c, d) PROVE IgnoreInv'
  <2>1. PICK r : r = [DeviceCall("forget", "replace", {i \in Items : Norm[i] = d})
                       EXCEPT !.devs = DevsOf(mobile')]
    OBVIOUS
  <2>2. r.pc = "replace"
    BY ONLY <2>1 DEF DeviceCall
  <2>3. Begin(c, r) /\ UNCHANGED ignoreVars
    BY ONLY <1>9, <2>1 DEF Forget
  <2>q. QED BY ONLY <1>2, <1>5, <2>2, <2>3
<1>10. ASSUME NEW after, SetIgnored(c, after) PROVE IgnoreInv'
  <2>1. PICK r : r = DeviceCall("ignore", "ilist", {})
    OBVIOUS
  <2>2. r.op = "ignore" /\ r.pc = "ilist"
    BY ONLY <2>1 DEF DeviceCall
  <2>3. Put(c, r) /\ crossed' = (IgnoreSaving # {})
    BY ONLY <1>10, <2>1, Puts, Shaped, c \in Calls DEF SetIgnored
  <2>4. IgnoreSaving = {} => IgnoreSaving' = {c}
    BY ONLY <2>2, <2>3, c \in Calls DEF IgnoreSaving, Under, Put
  <2>5. calls'[c].pc = "ilist"
    BY ONLY <2>2, <2>3 DEF Put
  <2>q. QED BY ONLY <2>3, <2>4, <2>5 DEF IgnoreInv
<1>11. ASSUME NEW read, PageSnapshot(c, read) \/ IngestSnapshot(c, read) PROVE IgnoreInv'
  <2>1. DeviceSlot(calls[c]) /\ calls[c].pc \in {"snapshot", "reread"} /\ UNCHANGED deviceVars
    BY <1>11 DEF PageSnapshot, IngestSnapshot, Shaped, Slotted, RoomSlot, DeviceSlot, LightSlot, Idle
  <2>2. ASSUME NEW new, Continue(c, [calls[c] EXCEPT !.pc = "write_back", !.copy = new])
        PROVE  IgnoreInv'
    <3>1. [calls[c] EXCEPT !.pc = "write_back", !.copy = new].pc = "write_back"
      BY ONLY <2>1 DEF DeviceSlot, DeviceFields
    <3>q. QED BY ONLY <1>1, <1>5, <2>1, <2>2, <3>1
  <2>3. [calls[c] EXCEPT !.pc = "relink", !.devs = listed].pc = "relink"
    BY ONLY <2>1 DEF DeviceSlot, DeviceFields
  <2>q. QED BY ONLY <1>1, <1>3, <1>5, <1>11, <2>1, <2>2, <2>3 DEF PageSnapshot, IngestSnapshot
<1>12. ASSUME IngestLinks(c) PROVE IgnoreInv'
  <2>1. DeviceSlot(calls[c]) /\ calls[c].pc = "relink" /\ UNCHANGED deviceVars
    BY <1>12 DEF IngestLinks, Shaped, Slotted, RoomSlot, DeviceSlot, LightSlot, Idle
  <2>2. ASSUME NEW new, Continue(c, [calls[c] EXCEPT !.pc = "write_back", !.copy = new])
        PROVE  IgnoreInv'
    <3>1. [calls[c] EXCEPT !.pc = "write_back", !.copy = new].pc = "write_back"
      BY ONLY <2>1 DEF DeviceSlot, DeviceFields
    <3>q. QED BY ONLY <1>1, <1>5, <2>1, <2>2, <3>1
  <2>q. QED BY ONLY <1>3, <1>5, <1>12, <2>1, <2>2 DEF IngestLinks
<1>13. ASSUME IngestStore(c) \/ IngestUpsert(c) \/ IngestUpsertFails(c) PROVE IgnoreInv'
  <2>1. DeviceSlot(calls[c]) /\ calls[c].pc \in {"store", "upsert"} /\ UNCHANGED ignoreVars
    BY <1>13 DEF IngestStore, IngestUpsert, IngestUpsertFails, Shaped, Slotted, RoomSlot,
       DeviceSlot, LightSlot, Idle
  <2>2. /\ [calls[c] EXCEPT !.pc = "upsert"].pc = "upsert"
        /\ [calls[c] EXCEPT !.pc = "reread"].pc = "reread"
        /\ Idle.pc = "none"
    BY ONLY <2>1 DEF DeviceSlot, DeviceFields, Idle
  <2>q. QED BY ONLY <1>1, <1>5, <1>13, <2>1, <2>2
            DEF IngestStore, IngestUpsert, IngestUpsertFails, Goto
<1>14. ASSUME WriteBack(c) PROVE IgnoreInv'
  BY ONLY <1>3, <1>5, <1>14 DEF WriteBack
<1>15. ASSUME ForgetReplace(c) PROVE IgnoreInv'
  BY ONLY <1>3, <1>5, <1>15 DEF ForgetReplace
<1>16. ASSUME ForgetReplaceFails(c) PROVE IgnoreInv'
  <2>1. Idle.pc = "none"
    BY DEF Idle
  <2>q. QED BY ONLY <1>1, <1>5, <1>16, <2>1 DEF ForgetReplaceFails
<1>17. ASSUME ListIgnored(c) PROVE IgnoreInv'
  <2>1. DeviceSlot(calls[c]) /\ calls[c].op = "ignore"
        /\ calls[c].pc = "ilist" /\ UNCHANGED <<ignored, ignoredFile, crossed>>
    BY <1>17, <1>5 DEF ListIgnored, Shaped, Slotted, RoomSlot, DeviceSlot, LightSlot, Idle
  <2>2. Put(c, [calls[c] EXCEPT !.pc = "iwrite", !.devs = ignored])
    BY ONLY <1>17, Puts, Shaped, c \in Calls DEF ListIgnored
  <2>3. /\ calls'[c].op = "ignore" /\ calls'[c].pc = "iwrite" /\ calls'[c].devs = ignored
        /\ \A a \in Calls \ {c} : calls'[a] = calls[a]
    BY ONLY <2>1, <2>2 DEF Put, DeviceSlot, DeviceFields
  <2>4. IgnoreSaving' = IgnoreSaving /\ c \in IgnoreSaving
    BY ONLY <2>1, <2>3, c \in Calls DEF IgnoreSaving, Under
  <2>q. QED BY ONLY <2>1, <2>3, <2>4, IgnoreInv DEF IgnoreInv
<1>18. ASSUME WriteIgnored(c) PROVE IgnoreInv'
  <2>1. calls[c].op = "ignore" /\ calls[c].pc = "iwrite" /\ ignoredFile' = calls[c].devs
        /\ UNCHANGED <<ignored, crossed>>
    BY <1>18 DEF WriteIgnored, Shaped, Slotted, RoomSlot, DeviceSlot, LightSlot, Idle
  <2>2. Put(c, Idle)
    BY ONLY <1>18, Puts, Shaped, c \in Calls DEF WriteIgnored
  <2>3. IgnoreSaving' = IgnoreSaving \ {c} /\ c \in IgnoreSaving
        /\ \A a \in Calls \ {c} : calls'[a] = calls[a]
    BY ONLY <2>1, <2>2, c \in Calls DEF IgnoreSaving, Under, Put, Idle
  <2>q. QED BY ONLY <2>1, <2>3, IgnoreInv DEF IgnoreInv
<1>19. ASSUME GiveUpDevices(c) \/ Sink(c) \/ LandUpsert(c) \/ LandReplace(c) PROVE IgnoreInv'
  <2>1. /\ calls[c].pc \notin {"ilist", "iwrite"} /\ UNCHANGED <<ignored, ignoredFile, crossed>>
        /\ \E r : Put(c, r) /\ r.pc \in {"none", "adrift"}
    BY ONLY <1>19, Drops, Shaped, c \in Calls
  <2>q. QED BY ONLY <2>1, IgnorePut, IgnoreInv, c \in Calls
<1>q. QED
  BY ONLY <1>7, <1>8, <1>9, <1>10, <1>11, <1>12, <1>13, <1>14, <1>15, <1>16, <1>17, <1>18, <1>19,
     DeviceRequest(c) \/ DeviceStep(c) DEF DeviceRequest, DeviceStep, Ignore, Unignore

-----------------------------------------------------------------------------
(* The invariant                                                           *)

\* Links made or taken back by hand.
LEMMA HandLinks ==
  ASSUME DevicesInv, DeviceBrief
  PROVE  LinksInv' /\ PairsInv' /\ BleInv' /\ IgnoreInv'
<1>1. UNCHANGED <<calls, mobile, listed, forgotten, missed, ignored, ignoredFile, crossed>>
  BY DEF DeviceBrief, Link, Unlink, Brief, mobileVars, ignoreVars
<1>2. Copies' = Copies /\ \A a \in Copies : calls'[a] = calls[a]
  BY <1>1 DEF Copies, Under
<1>3. ASSUME NEW p, NEW s, Link(p, s) PROVE LinksInv'
  BY ONLY <1>2, <1>3, DevicesInv DEF Link, DevicesInv, LinksInv
<1>4. ASSUME NEW p, NEW s, Unlink(p, s) PROVE LinksInv'
  BY ONLY <1>2, <1>4, DevicesInv DEF Unlink, DevicesInv, LinksInv
<1>5. PairsInv'
  <2>1. ASSUME NEW p, NEW s, Link(p, s) PROVE PairsInv'
    BY ONLY <1>2, <2>1, DevicesInv DEF Link, Oriented, DevicesInv, PairsInv
  <2>2. ASSUME NEW p, NEW s, Unlink(p, s) PROVE PairsInv'
    BY ONLY <1>2, <2>2, DevicesInv DEF Unlink, DevicesInv, PairsInv
  <2>q. QED BY ONLY DeviceBrief, <2>1, <2>2 DEF DeviceBrief
<1>6. BleInv' /\ IgnoreInv'
  BY <1>1 DEF DevicesInv, BleInv, IgnoreInv, Forgetting, Upserting, Sending, Straying, IgnoreSaving,
              Under, DevsOf
<1>q. QED BY ONLY DeviceBrief, <1>3, <1>4, <1>5, <1>6 DEF DeviceBrief

FreshStores ==
  /\ Quiet
  /\ \A l \in links \cup linksFile : l = <<l[1], l[2]>>
  /\ kept \subseteq links /\ listed = DevsOf(mobile) /\ ignoredFile = ignored
  /\ forgotten = {} /\ missed = {}

LEMMA FreshDevices == FreshStores => LinksInv /\ PairsInv /\ BleInv /\ IgnoreInv
<1>1. ASSUME Quiet
      PROVE  /\ Copies = {} /\ Forgetting = {} /\ Upserting = {} /\ IgnoreSaving = {}
             /\ Sending = {} /\ Straying = {}
  BY <1>1 DEF Quiet, Idle, Copies, Forgetting, Upserting, Sending, Straying, IgnoreSaving, Under
<1>q. QED BY <1>1 DEF FreshStores, LinksInv, PairsInv, BleInv, IgnoreInv

LEMMA DevicesStart == Init => DevicesInv
<1>1. Init => FreshStores
  BY DEF Init, DeviceInit, FreshStores, Quiet
<1>q. QED BY <1>1, FreshDevices, RoomsStart DEF DevicesInv

LEMMA DevicesStep ==
  ASSUME DevicesInv, [Next]_vars
  PROVE  DevicesInv'
<1>0. Shaped /\ RoomsInv' /\ RoomTypes
  BY ONLY DevicesInv, [Next]_vars, RoomsStep DEF DevicesInv, RoomsInv
<1>1. CASE RoomsNext
  <2>1. UNCHANGED deviceVars
    BY ONLY <1>1 DEF RoomsNext
  <2>2. CASE BookBrief
    <3>1. UNCHANGED calls
      BY ONLY <2>2 DEF BookBrief, Claim, AssignProduct, Brief
    <3>q. QED BY ONLY <1>0, <2>1, <3>1, DevicesInv, StillDevices DEF DevicesInv
  <2>3. ASSUME NEW c \in Calls, BookRequest(c) \/ BookStep(c)
        PROVE  DevicesInv'
    <3>1. CASE UNCHANGED calls
      BY ONLY <1>0, <2>1, <3>1, DevicesInv, StillDevices DEF DevicesInv
    <3>2. ASSUME NEW r, Put(c, r), r = Idle \/ RoomSlot(r), calls[c] = Idle \/ RoomSlot(calls[c])
          PROVE  DevicesInv'
      BY ONLY <1>0, <2>1, <3>2, DevicesInv, ForeignSlots, ForeignKeeps, c \in Calls DEF DevicesInv
    <3>q. QED BY ONLY <1>0, <2>3, <3>1, <3>2, BookMoves, BookOwn DEF Moved
  <2>q. QED BY ONLY <1>1, <2>2, <2>3 DEF RoomsNext
<1>2. CASE DevicesNext
  <2>1. ASSUME NEW c \in Calls, DeviceRequest(c) \/ DeviceStep(c)
        PROVE  DevicesInv'
    BY ONLY <1>0, <2>1, DevicesInv, LinksSteps, PairsSteps, BleSteps, IgnoreSteps DEF DevicesInv
  <2>q. QED BY ONLY <1>0, <1>2, <2>1, DevicesInv, HandLinks DEF DevicesNext, DevicesInv
<1>3. CASE LightsNext
  <2>1. UNCHANGED deviceVars /\ (UNCHANGED calls \/ \E c \in Calls : LightMoved(c))
    BY ONLY <1>0, <1>3, LightMoves
  <2>2. CASE UNCHANGED calls
    BY ONLY <1>0, <2>1, <2>2, DevicesInv, StillDevices DEF DevicesInv
  <2>3. ASSUME NEW c \in Calls, NEW r, Put(c, r), r = Idle \/ LightSlot(r),
               calls[c] = Idle \/ LightSlot(calls[c])
        PROVE  DevicesInv'
    BY ONLY <1>0, <2>1, <2>3, DevicesInv, ForeignSlots, ForeignKeeps DEF DevicesInv
  <2>q. QED BY ONLY <2>1, <2>2, <2>3 DEF LightMoved
<1>4. CASE Restart
  <2>1. FreshStores'
    BY <1>4 DEF Restart, ReloadDevices, FreshStores, Quiet, DevsOf, DevicesInv, PairsInv
  <2>2. (FreshStores => LinksInv /\ PairsInv /\ BleInv /\ IgnoreInv)'
    BY ONLY FreshDevices, PTL
  <2>q. QED BY ONLY <1>0, <2>1, <2>2 DEF DevicesInv
<1>5. CASE UNCHANGED vars
  BY ONLY <1>0, <1>5, DevicesInv, StillDevices DEF DevicesInv, vars, requestVars
<1>q. QED BY ONLY [Next]_vars, <1>1, <1>2, <1>3, <1>4, <1>5 DEF Next

\* The invariant holds in every state of the web module.
THEOREM DevicesInvariant == Spec => []DevicesInv
<1>1. DevicesInv /\ [Next]_vars => DevicesInv'
  BY DevicesStep
<1>q. QED BY <1>1, DevicesStart, PTL DEF Spec

\* A link made by hand stays until it is taken back, unless a request that
\* links devices on its own had copied the links before.
THEOREM HandMadeLinksKept == Spec => []LinksKept
<1>1. DevicesInv => LinksKept
  BY DEF DevicesInv, LinksInv, LinksKept
<1>q. QED BY <1>1, DevicesInvariant, PTL

\* The BLE devices that phones reported and the records the supervisor has of
\* them go together, and a forgotten one stays away.
THEOREM BleRecordsAgree == Spec => []BleAgrees
<1>1. DevicesInv => BleAgrees
  BY BleIs DEF DevicesInv
<1>q. QED BY <1>1, DevicesInvariant, PTL

\* With nobody saving, every file of the web module has what its store has,
\* unless the store was changed during a save.
THEOREM WebFilesCurrent == Spec => []StoresSaved
<1>1. DevicesInv => IgnoredCurrent
  BY DEF DevicesInv, IgnoreInv, IgnoredCurrent
<1>2. FilesCurrent /\ IgnoredCurrent => StoresSaved
  BY DEF StoresSaved
<1>q. QED BY <1>1, <1>2, RoomFilesCurrent, DevicesInvariant, PTL

-----------------------------------------------------------------------------
(* The page                                                                *)

\* No record is preferred yet.
Blank == [a \in {Net[k].address : k \in DOMAIN Net} |-> 0]

\* A set of numbers has a least one: what recursive functions are unfolded with.
LEMMA LeastNat ==
  ASSUME NEW T, T \subseteq Nat, T # {}
  PROVE  \E n \in T : \A m \in T : n <= m
<1>1. PICK n \in T : \A m \in T : <<m, n>> \notin OpToRel(<, Nat)
  BY WFMin, NatLessThanWellFounded
<1>2. \A m \in T : ~ (m < n)
  BY <1>1 DEF OpToRel
<1>q. QED BY <1>2

\* The table of preferred records is what its recursive definition says.
LEMMA BetterIs ==
  /\ DOMAIN Better = 0..Len(Net)
  /\ Better[0] = Blank
  /\ \A i \in 1..Len(Net) : Better[i] = Improved(Better[i - 1], i)
<1>. DEFINE Def(g, n) == g = [i \in 0..n |-> IF i = 0 THEN Blank ELSE Improved(g[i - 1], i)]
            Bad == {n \in Nat : n <= Len(Net) /\ ~ \E g : Def(g, n)}
<1>0. Len(Net) \in Nat
  BY DeviceAssumption
<1>1. Bad = {}
  <2>1. SUFFICES ASSUME Bad # {} PROVE FALSE
    OBVIOUS
  <2>2. PICK n \in Bad : \A m \in Bad : n <= m
    BY <2>1, LeastNat
  <2>3. n # 0
    <3>1. Def([i \in 0..0 |-> Blank], 0)
      OBVIOUS
    <3>q. QED BY <3>1
  <2>4. PICK g : Def(g, n - 1)
    <3>1. n \in Nat /\ n - 1 \in Nat /\ n - 1 <= Len(Net) /\ ~ (n <= n - 1)
      BY <1>0, <2>3
    <3>2. n - 1 \notin Bad
      BY <2>2, <3>1
    <3>q. QED BY ONLY <3>1, <3>2
  <2>5. \E h : Def(h, n)
    <3>1. \A i \in 0..(n - 1) : g[i] = IF i = 0 THEN Blank ELSE Improved(g[i - 1], i)
      BY <2>4
    <3>2. PICK h : h = [i \in 0..n |-> IF i = n THEN Improved(g[n - 1], n) ELSE g[i]]
      OBVIOUS
    <3>3. n \in Nat \ {0}
      BY <2>3
    <3>4. ASSUME NEW i \in 0..n PROVE h[i] = IF i = 0 THEN Blank ELSE Improved(h[i - 1], i)
      BY <3>1, <3>2, <3>3
    <3>5. h = [i \in 0..n |-> IF i = 0 THEN Blank ELSE Improved(h[i - 1], i)]
      BY ONLY <3>2, <3>4
    <3>q. QED BY <3>5
  <2>q. QED BY <2>5
<1>2. PICK g : Def(g, Len(Net))
  BY <1>0, <1>1
<1>3. Better = [i \in 0..Len(Net) |-> IF i = 0 THEN Blank ELSE Improved(Better[i - 1], i)]
  BY <1>2 DEF Better, Blank
<1>q. QED BY <1>0, <1>3

\* The table names, for each address, a record that has it.
Tabled(n) ==
  /\ DOMAIN Better[n] = {Net[k].address : k \in DOMAIN Net}
  /\ \A a \in DOMAIN Better[n] :
       Better[n][a] = 0 \/ (Better[n][a] \in 1..n /\ Net[Better[n][a]].address = a)
  /\ \A j \in 1..n : Better[n][Net[j].address] # 0

LEMMA BetterNames == \A n \in 0..Len(Net) : Tabled(n)
<1>0. Len(Net) \in Nat /\ DOMAIN Net = 1..Len(Net)
  BY DeviceAssumption
<1>1. Tabled(0)
  BY <1>0, BetterIs DEF Tabled, Blank
<1>2. ASSUME NEW n \in 1..Len(Net), Tabled(n - 1) PROVE Tabled(n)
  <2>. DEFINE old == Better[n - 1]
  <2>1. Better[n] = Improved(old, n) /\ n \in DOMAIN Net /\ n - 1 \in Nat
    BY <1>0, <1>2, BetterIs
  <2>2. Net[n].address \in DOMAIN old
    BY <1>2, <2>1 DEF Tabled
  <2>3. Better[n] = old \/ Better[n] = [old EXCEPT ![Net[n].address] = n]
    BY ONLY <2>1 DEF Improved
  <2>4. Better[n] = old => old[Net[n].address] # 0
    BY <2>1, <2>2 DEF Improved
  <2>5. \A j \in 1..n : j = n \/ j \in 1..(n - 1)
    BY <1>0
  <2>6. \A k : k \in 1..(n - 1) => k \in 1..n /\ k # 0
    BY <1>0
  <2>7. n \in 1..n /\ n # 0
    BY <1>0
  <2>8. DOMAIN Better[n] = DOMAIN old /\ DOMAIN old = {Net[k].address : k \in DOMAIN Net}
    BY ONLY <1>2, <2>3 DEF Tabled
  <2>9. ASSUME NEW a \in DOMAIN Better[n]
        PROVE  Better[n][a] = 0 \/ (Better[n][a] \in 1..n /\ Net[Better[n][a]].address = a)
    <3>1. old[a] = 0 \/ (old[a] \in 1..(n - 1) /\ Net[old[a]].address = a)
      BY ONLY <1>2, <2>8, <2>9 DEF Tabled
    <3>2. Better[n][a] = old[a] \/ (a = Net[n].address /\ Better[n][a] = n)
      BY ONLY <2>3, <2>8, <2>9
    <3>q. QED BY ONLY <2>6, <2>7, <3>1, <3>2
  <2>10. ASSUME NEW j \in 1..n PROVE Better[n][Net[j].address] # 0
    <3>1. j = n \/ old[Net[j].address] # 0
      BY ONLY <1>2, <2>5, <2>10 DEF Tabled
    <3>2. CASE Better[n] = old
      BY ONLY <2>4, <3>1, <3>2
    <3>3. CASE Better[n] = [old EXCEPT ![Net[n].address] = n]
      <4>1. j = n => Better[n][Net[j].address] = n
        BY ONLY <2>2, <3>3
      <4>2. Net[j].address \in DOMAIN old
        BY ONLY <1>0, <1>2, <2>8, <2>10
      <4>3. Better[n][Net[j].address] = n \/ Better[n][Net[j].address] = old[Net[j].address]
        BY ONLY <3>3, <4>2
      <4>q. QED BY ONLY <2>7, <3>1, <4>1, <4>3
    <3>q. QED BY ONLY <2>3, <3>2, <3>3
  <2>q. QED BY ONLY <2>8, <2>9, <2>10 DEF Tabled
<1>3. {n \in 0..Len(Net) : ~Tabled(n)} = {}
  <2>1. SUFFICES ASSUME {n \in 0..Len(Net) : ~Tabled(n)} # {} PROVE FALSE
    OBVIOUS
  <2>0. {n \in 0..Len(Net) : ~Tabled(n)} \subseteq Nat
    BY ONLY <1>0
  <2>2. PICK n \in {m \in 0..Len(Net) : ~Tabled(m)} : \A m \in {k \in 0..Len(Net) : ~Tabled(k)} : n <= m
    BY ONLY <2>0, <2>1, LeastNat
  <2>3. n # 0
    BY ONLY <1>1, <2>2
  <2>4. n \in 1..Len(Net) /\ n - 1 \in 0..Len(Net) /\ ~ (n <= n - 1)
    BY ONLY <1>0, <2>2, <2>3
  <2>5. Tabled(n - 1)
    BY ONLY <2>2, <2>4
  <2>q. QED BY ONLY <1>2, <2>2, <2>4, <2>5
<1>q. QED BY <1>3

\* While links are flat, each BLE device and each address is on the page.
LEMMA PairsShow == PairsInv => NothingHidden
<1>1. SUFFICES ASSUME PairsInv, Flat
      PROVE  /\ listed \subseteq Shown
             /\ \A i \in DOMAIN Net : \E k \in DOMAIN Net :
                  Net[k].address = Net[i].address /\ Net[k].id \in Shown
  BY DEF NothingHidden
<1>2. ASSUME NEW d \in Deduped PROVE d \in Shown
  <2>1. CASE \A l \in links : l[2] # d
    BY ONLY <1>2, <2>1 DEF Shown, Rows
  <2>2. CASE \E l \in links : l[2] = d
    <3>1. PICK l \in links : l[2] = d
      BY ONLY <2>2
    <3>2. l[1] \in Rows
      BY ONLY <1>1, <3>1 DEF Flat, Rows
    <3>3. l = <<l[1], d>>
      BY ONLY <1>1, <3>1 DEF PairsInv
    <3>q. QED BY ONLY <1>2, <3>1, <3>2, <3>3 DEF Shown
  <2>q. QED BY <2>1, <2>2
<1>3. listed \subseteq Deduped /\ NetRecords \subseteq Deduped
  BY DEF Deduped
<1>4. ASSUME NEW i \in DOMAIN Net
      PROVE  \E k \in DOMAIN Net : Net[k].address = Net[i].address /\ Net[k].id \in NetRecords
  <2>1. Len(Net) \in Nat /\ Len(Net) \in 0..Len(Net) /\ DOMAIN Net = 1..Len(Net)
    BY DeviceAssumption
  <2>2. Tabled(Len(Net))
    BY ONLY <2>1, BetterNames
  <2>3. Net[i].address \in DOMAIN Better[Len(Net)] /\ Better[Len(Net)][Net[i].address] # 0
    BY ONLY <1>4, <2>1, <2>2 DEF Tabled
  <2>4. PICK k : k = Better[Len(Net)][Net[i].address]
    OBVIOUS
  <2>5. k \in DOMAIN Net /\ Net[k].address = Net[i].address
    BY ONLY <2>1, <2>2, <2>3, <2>4 DEF Tabled
  <2>6. Net[k].id \in NetRecords
    BY ONLY <2>3, <2>4 DEF NetRecords
  <2>q. QED BY ONLY <2>5, <2>6
<1>q. QED BY ONLY <1>2, <1>3, <1>4

\* While no link leads to or from a device that is itself linked, and every
\* primary device has a record, the page hides no BLE device and no address.
THEOREM PageIsComplete == Spec => []NothingHidden
<1>1. DevicesInv => NothingHidden
  BY PairsShow DEF DevicesInv
<1>q. QED BY <1>1, DevicesInvariant, PTL

-----------------------------------------------------------------------------
(* Lights: what is under way                                               *)

LightOrders ==
  {Power(on) : on \in BOOLEAN} \cup {Brightness(b) : b \in Nat}
    \cup {Color(c) : c \in {"red", "blue"}} \cup {Temp(k) : k \in Nat}
Tones == {"none", "white", "black", "red", "blue"}
LampStates == [on : BOOLEAN, level : Nat, rgb : Tones, kelvin : Nat]
Packets == [kind : {"query", "scan"}] \cup [kind : {"order"}, order : LightOrders]
Reports == [kind : {"devStatus", "scan"}, ip : Lamps, state : LampStates]
Errands == [to : Lamps \cup HueIds \cup {NoIp}, order : LightOrders]

LightCall(r) ==
  /\ r.passes \in Seq(LightOrders) /\ r.todo \in Seq(Errands)
  /\ r.pc = "snapshot" => r.todo = <<>> /\ r.passes # <<>>
  /\ r.pc # "snapshot" => r.todo # <<>>
  /\ r.pc \in {"cache", "query"} => Head(r.todo).to \in Lamps
  /\ r.pc = "adrift" => Head(r.todo).to \in HueIds

Wires ==
  /\ lamp \in [Lamps \cup HueIds -> LampStates]
  /\ cache \in [Lamps -> LampStates]
  /\ toLamp \in [Lamps -> Seq(Packets)]
  /\ fromLamp \in Seq(Reports)

LitCalls == \A c \in Lit : LightCall(calls[c])

\* A request that has sent a lamp an order, or has only to ask, owes a query.
Owes(r, ip) == r.pc \in {"cache", "query"} /\ Head(r.todo).to = ip
Owed(lit, cs, ip) == \E c \in lit : Owes(cs[c], ip)

\* What is still to be asked or told of a lamp.
AskedIn(q) ==
  \E i \in DOMAIN q : q[i].kind = "query" /\ \A j \in DOMAIN q : j > i => q[j].kind # "order"
NoOrderIn(q) == \A i \in DOMAIN q : q[i].kind # "order"
Tells(p, ip) == p.kind = "devStatus" /\ p.ip = ip
ToldIn(f, ip, s) ==
  \E i \in DOMAIN f : /\ Tells(f[i], ip) /\ f[i].state = s
                      /\ \A j \in DOMAIN f : j > i => ~Tells(f[j], ip)
Silent(f, ip) == \A i \in DOMAIN f : ~Tells(f[i], ip)

\* The cache will have what the lamp does, from what is on the wires.
Informed(q, f, s, entry, guesses, ip) ==
  \/ AskedIn(q)
  \/ NoOrderIn(q) /\ ToldIn(f, ip, s)
  \/ NoOrderIn(q) /\ Silent(f, ip) /\ (entry \in {Unknown, s} \/ ip \in guesses)

CacheInv ==
  \A ip \in Lamps \ astray :
    \/ Owed(Lit, calls, ip)
    \/ Informed(toLamp[ip], fromLamp, lamp[ip], cache[ip], guessed, ip)

Aspects == {"on", "level", "tone"}
Aims(g, a) ==
  CASE a = "on" -> TRUE [] a = "level" -> g.level # 0 [] a = "tone" -> g.rgb # "none"
Touches(o, a) ==
  CASE a = "on" -> TRUE
    [] a = "level" -> o.do = "brightness"
    [] a = "tone" -> o.do \in {"color", "temp"}
Meets(s, g, a) ==
  CASE a = "on" -> s.on = g.on
    [] a = "level" -> s.level = g.level
    [] a = "tone" -> s.rgb = g.rgb /\ s.kelvin = g.kelvin
HueMeets(s, g, a) ==
  CASE a = "on" -> s.on = g.on
    [] a = "level" -> s.level = HueBri(g.level)
    [] a = "tone" -> g.kelvin # 0 => s.kelvin = HueCt(g.kelvin)
Right(g, o) ==
  /\ Accepted(o) = o
  /\ \A a \in Aspects : Aims(g, a) /\ Touches(o, a) => Meets(Obeyed(o, Unknown), g, a)

Touching(p, a) == p.kind = "order" /\ Touches(p.order, a)
Will(q, g, a) ==
  \E j \in DOMAIN q : /\ Touching(q[j], a) /\ Meets(Obeyed(q[j].order, Unknown), g, a)
                      /\ \A k \in DOMAIN q : k > j => ~Touching(q[k], a)
Untouched(q, a) == \A j \in DOMAIN q : ~Touching(q[j], a)

Unsent(r, k) == k \in DOMAIN r.todo /\ (k > 1 \/ r.pc = "send")
Passing(r, ids, a) == r.ids = ids /\ \E p \in DOMAIN r.passes : Touches(r.passes[p], a)
Coming(r, l, a) ==
  \E k \in DOMAIN r.todo : Unsent(r, k) /\ r.todo[k].to = l /\ Touches(r.todo[k].order, a)
RightCall(g, r) ==
  /\ r.pc # "adrift"
  /\ \A p \in DOMAIN r.passes : Right(g, r.passes[p])
  /\ \A k \in DOMAIN r.todo : Unsent(r, k) => Right(g, r.todo[k].order)

\* A light will do, or does, what is aimed at.
LampReached(g, q, s, a) == Will(q, g, a) \/ (Untouched(q, a) /\ Meets(s, g, a))

\* The same with the requests that are under way.
ComingTo(lit, cs, l, a) == \E c \in lit : Coming(cs[c], l, a)
PassingBy(lit, cs, ids, a) == \E c \in lit : Passing(cs[c], ids, a)
HueGood(lit, cs, g, s, l, a) == ComingTo(lit, cs, l, a) \/ HueMeets(s, g, a)
LampGood(lit, cs, g, q, s, l, a) == ComingTo(lit, cs, l, a) \/ LampReached(g, q, s, a)

SceneInv ==
  goal # NoGoal =>
    /\ goal.kelvin # 0 => goal.rgb # "none"
    /\ \A c \in Lit : RightCall(goal, calls[c])
    /\ \A i \in DOMAIN Devices : \A a \in Aspects :
         LET d == Devices[i] IN
         d.id \in goal.ids /\ Aims(goal, a) =>
           \/ PassingBy(Lit, calls, goal.ids, a)
           \/ /\ d.hue => HueGood(Lit, calls, goal, lamp[d.id], d.id, a)
              /\ ~d.hue /\ d.ip \in Lamps =>
                   LampGood(Lit, calls, goal, toLamp[d.ip], lamp[d.ip], d.ip, a)

LightInv == Wires /\ LitCalls /\ CacheInv /\ SceneInv

-----------------------------------------------------------------------------
(* Orders and packets                                                      *)

LEMMA OrderKinds ==
  ASSUME NEW o \in LightOrders
  PROVE  \/ o.do = "power" /\ o = Power(o.on) /\ o.on \in BOOLEAN
         \/ o.do = "brightness" /\ o = Brightness(o.level) /\ o.level \in Nat
         \/ o.do = "color" /\ o = Color(o.rgb) /\ o.rgb \in {"red", "blue"}
         \/ o.do = "temp" /\ o = Temp(o.kelvin) /\ o.kelvin \in Nat
BY DEF LightOrders, Power, Brightness, Color, Temp

LEMMA AcceptedTyped ==
  ASSUME NEW o \in LightOrders
  PROVE  Accepted(o) \in LightOrders
<1>1. CASE o.do = "brightness"
  <2>1. Clamp(o.level, 1, 100) \in Nat
    BY <1>1, OrderKinds DEF Clamp
  <2>2. Accepted(o) = Brightness(Clamp(o.level, 1, 100))
    BY ONLY <1>1 DEF Accepted
  <2>q. QED BY ONLY <2>1, <2>2 DEF LightOrders
<1>2. CASE o.do = "temp"
  <2>1. Clamp(o.kelvin, 2000, 9000) \in Nat
    BY <1>2, OrderKinds DEF Clamp
  <2>2. Accepted(o) = Temp(Clamp(o.kelvin, 2000, 9000))
    BY ONLY <1>2 DEF Accepted
  <2>q. QED BY ONLY <2>1, <2>2 DEF LightOrders
<1>3. CASE o.do \in {"power", "color"}
  BY ONLY <1>3, o \in LightOrders DEF Accepted
<1>q. QED BY <1>1, <1>2, <1>3, OrderKinds

LEMMA HueTyped ==
  /\ \A b \in Nat : HueBri(b) \in Nat
  /\ \A k \in Nat : HueCt(k) \in Nat
<1>1. ASSUME NEW x \in Int, NEW low \in Nat, NEW high \in Nat PROVE Clamp(x, low, high) \in Nat
  BY <1>1 DEF Clamp
<1>2. ASSUME NEW b \in Nat PROVE HueBri(b) \in Nat
  <2>1. (b * 254 + 50) \div 100 \in Int
    OBVIOUS
  <2>q. QED BY ONLY <1>1, <2>1 DEF HueBri
<1>3. ASSUME NEW k \in Nat PROVE HueCt(k) \in Nat
  <2>1. Clamp(k, 2000, 6500) \in Nat /\ Clamp(k, 2000, 6500) > 0
    BY SMT DEF Clamp
  <2>2. 1000000 \div Clamp(k, 2000, 6500) \in Int
    BY ONLY <2>1, SMT
  <2>3. ASSUME NEW q \in Int PROVE Clamp(q, 153, 500) \in Nat
    BY ONLY <1>1, <2>3, SMT
  <2>4. PICK q \in Int : q = 1000000 \div Clamp(k, 2000, 6500)
    BY ONLY <2>2, SMT
  <2>5. HueCt(k) = Clamp(q, 153, 500)
    BY ONLY <2>4, SMT DEF HueCt
  <2>q. QED BY ONLY <2>3, <2>5
<1>q. QED BY ONLY <1>2, <1>3

LEMMA StatesTyped ==
  ASSUME NEW o \in LightOrders, NEW s \in LampStates
  PROVE  /\ Obeyed(o, s) \in LampStates /\ Expected(o, s) \in LampStates
         /\ HueObeyed(o, s) \in LampStates
<1>0. Unknown \in LampStates /\ \A on \in BOOLEAN : NewEntry(on) \in LampStates
  BY DEF Unknown, NewEntry, LampStates, Tones
<1>1. CASE o.do = "power"
  <2>1. o.on \in BOOLEAN
    BY ONLY <1>1, OrderKinds, o \in LightOrders
  <2>2. [s EXCEPT !.on = o.on] \in LampStates
    BY ONLY <2>1, s \in LampStates DEF LampStates
  <2>q. QED BY ONLY <1>0, <1>1, <2>1, <2>2 DEF Obeyed, Expected, HueObeyed
<1>2. CASE o.do = "brightness"
  <2>1. o.level \in Nat /\ HueBri(o.level) \in Nat
    BY ONLY <1>2, OrderKinds, HueTyped, o \in LightOrders
  <2>2. ASSUME NEW b \in Nat PROVE [s EXCEPT !.on = TRUE, !.level = b] \in LampStates
    BY ONLY <2>2, s \in LampStates DEF LampStates
  <2>q. QED BY ONLY <1>0, <1>2, <2>1, <2>2 DEF Obeyed, Expected, HueObeyed
<1>3. CASE o.do = "color"
  <2>1. o.rgb \in Tones
    BY ONLY <1>3, OrderKinds, o \in LightOrders DEF Tones
  <2>2. [s EXCEPT !.on = TRUE, !.rgb = o.rgb, !.kelvin = 0] \in LampStates
        /\ [s EXCEPT !.on = TRUE] \in LampStates
    BY ONLY <2>1, s \in LampStates DEF LampStates
  <2>q. QED BY ONLY <1>0, <1>3, <2>1, <2>2 DEF Obeyed, Expected, HueObeyed
<1>4. CASE o.do = "temp"
  <2>1. o.kelvin \in Nat /\ HueCt(o.kelvin) \in Nat
    BY ONLY <1>4, OrderKinds, HueTyped, o \in LightOrders
  <2>2. ASSUME NEW k \in Nat
        PROVE  /\ [s EXCEPT !.on = TRUE, !.rgb = "black", !.kelvin = k] \in LampStates
               /\ [s EXCEPT !.on = TRUE, !.kelvin = k] \in LampStates
    BY ONLY <2>2, s \in LampStates DEF LampStates, Tones
  <2>q. QED BY ONLY <1>0, <1>4, <2>1, <2>2 DEF Obeyed, Expected, HueObeyed
<1>q. QED BY <1>1, <1>2, <1>3, <1>4, OrderKinds

LEMMA AppendsTo ==
  ASSUME NEW S, NEW s \in Seq(S), NEW e \in S
  PROVE  /\ Append(s, e) \in Seq(S) /\ Len(s) \in Nat /\ DOMAIN s = 1..Len(s)
         /\ DOMAIN Append(s, e) = 1..(Len(s) + 1)
         /\ Append(s, e)[Len(s) + 1] = e
         /\ \A i \in DOMAIN s : Append(s, e)[i] = s[i]
OBVIOUS

LEMMA TailOf ==
  ASSUME NEW S, NEW s \in Seq(S), s # <<>>
  PROVE  /\ Head(s) \in S /\ Head(s) = s[1] /\ 1 \in DOMAIN s
         /\ Tail(s) \in Seq(S) /\ Len(s) \in Nat /\ DOMAIN s = 1..Len(s)
         /\ DOMAIN Tail(s) = 1..(Len(s) - 1)
         /\ \A i \in DOMAIN Tail(s) : Tail(s)[i] = s[i + 1]
OBVIOUS

LEMMA QueryAppended ==
  ASSUME NEW q \in Seq(Packets), NEW p \in Packets, p.kind = "query"
  PROVE  AskedIn(Append(q, p))
BY AppendsTo DEF AskedIn

LEMMA PacketTaken ==
  ASSUME NEW q \in Seq(Packets), q # <<>>
  PROVE  /\ AskedIn(q) => \/ AskedIn(Tail(q))
                          \/ Head(q).kind = "query" /\ NoOrderIn(Tail(q))
         /\ NoOrderIn(q) => NoOrderIn(Tail(q)) /\ Head(q).kind # "order"
<1>0. /\ Head(q) = q[1] /\ 1 \in DOMAIN q /\ Len(q) \in Nat /\ DOMAIN q = 1..Len(q)
      /\ DOMAIN Tail(q) = 1..(Len(q) - 1)
      /\ \A i \in DOMAIN Tail(q) : Tail(q)[i] = q[i + 1]
  BY TailOf
<1>1. NoOrderIn(q) => NoOrderIn(Tail(q)) /\ Head(q).kind # "order"
  BY ONLY <1>0 DEF NoOrderIn
<1>2. ASSUME NEW i \in DOMAIN q, q[i].kind = "query", \A j \in DOMAIN q : j > i => q[j].kind # "order"
      PROVE  AskedIn(Tail(q)) \/ (Head(q).kind = "query" /\ NoOrderIn(Tail(q)))
  <2>1. CASE i = 1
    BY ONLY <1>0, <1>2, <2>1 DEF NoOrderIn
  <2>2. CASE i # 1
    <3>1. i - 1 \in DOMAIN Tail(q) /\ Tail(q)[i - 1].kind = "query"
      BY ONLY <1>0, <1>2, <2>2
    <3>2. \A j \in DOMAIN Tail(q) : j > i - 1 => Tail(q)[j].kind # "order"
      BY ONLY <1>0, <1>2, <2>2
    <3>q. QED BY ONLY <3>1, <3>2 DEF AskedIn
  <2>q. QED BY <2>1, <2>2
<1>q. QED BY ONLY <1>1, <1>2 DEF AskedIn

LEMMA ReportSent ==
  ASSUME NEW f \in Seq(Reports), NEW p \in Reports, NEW ip, NEW s
  PROVE  /\ Tells(p, ip) /\ p.state = s => ToldIn(Append(f, p), ip, s)
         /\ ~Tells(p, ip) /\ ToldIn(f, ip, s) => ToldIn(Append(f, p), ip, s)
         /\ ~Tells(p, ip) /\ Silent(f, ip) => Silent(Append(f, p), ip)
<1>0. /\ Len(f) \in Nat /\ DOMAIN f = 1..Len(f) /\ DOMAIN Append(f, p) = 1..(Len(f) + 1)
      /\ Append(f, p)[Len(f) + 1] = p /\ \A i \in DOMAIN f : Append(f, p)[i] = f[i]
  BY AppendsTo
<1>1. Tells(p, ip) /\ p.state = s => ToldIn(Append(f, p), ip, s)
  BY ONLY <1>0 DEF ToldIn
<1>2. ASSUME ~Tells(p, ip), NEW i \in DOMAIN f, Tells(f[i], ip), f[i].state = s,
             \A j \in DOMAIN f : j > i => ~Tells(f[j], ip)
      PROVE  ToldIn(Append(f, p), ip, s)
  <2>1. i \in DOMAIN Append(f, p) /\ Append(f, p)[i] = f[i]
    BY ONLY <1>0, <1>2
  <2>2. \A j \in DOMAIN Append(f, p) : j > i => ~Tells(Append(f, p)[j], ip)
    BY ONLY <1>0, <1>2
  <2>q. QED BY ONLY <1>2, <2>1, <2>2 DEF ToldIn
<1>3. ~Tells(p, ip) /\ Silent(f, ip) => Silent(Append(f, p), ip)
  BY ONLY <1>0 DEF Silent
<1>q. QED BY ONLY <1>1, <1>2, <1>3 DEF ToldIn

LEMMA ReportTaken ==
  ASSUME NEW f \in Seq(Reports), f # <<>>, NEW ip, NEW s
  PROVE  /\ ToldIn(f, ip, s) => \/ ToldIn(Tail(f), ip, s)
                                \/ /\ Tells(Head(f), ip) /\ Head(f).state = s
                                   /\ Silent(Tail(f), ip)
         /\ Silent(f, ip) => Silent(Tail(f), ip) /\ ~Tells(Head(f), ip)
<1>0. /\ Head(f) = f[1] /\ 1 \in DOMAIN f /\ Len(f) \in Nat /\ DOMAIN f = 1..Len(f)
      /\ DOMAIN Tail(f) = 1..(Len(f) - 1)
      /\ \A i \in DOMAIN Tail(f) : Tail(f)[i] = f[i + 1]
  BY TailOf
<1>1. Silent(f, ip) => Silent(Tail(f), ip) /\ ~Tells(Head(f), ip)
  BY ONLY <1>0 DEF Silent
<1>2. ASSUME NEW i \in DOMAIN f, Tells(f[i], ip), f[i].state = s,
             \A j \in DOMAIN f : j > i => ~Tells(f[j], ip)
      PROVE  ToldIn(Tail(f), ip, s) \/ (Tells(Head(f), ip) /\ Head(f).state = s /\ Silent(Tail(f), ip))
  <2>1. CASE i = 1
    BY ONLY <1>0, <1>2, <2>1 DEF Silent
  <2>2. CASE i # 1
    <3>1. i - 1 \in DOMAIN Tail(f) /\ Tail(f)[i - 1] = f[i]
      BY ONLY <1>0, <1>2, <2>2
    <3>2. \A j \in DOMAIN Tail(f) : j > i - 1 => ~Tells(Tail(f)[j], ip)
      BY ONLY <1>0, <1>2, <2>2
    <3>q. QED BY ONLY <1>2, <3>1, <3>2 DEF ToldIn
  <2>q. QED BY <2>1, <2>2
<1>q. QED BY ONLY <1>1, <1>2 DEF ToldIn

\* Every element of s is one of u.
Within(s, u) == \A j \in DOMAIN s : \E k \in DOMAIN u : u[k] = s[j]

\* Sequences joined are a sequence of what they hold.
LEMMA Joined ==
  ASSUME NEW S, NEW s \in Seq(S), NEW t \in Seq(S)
  PROVE  /\ s \o t \in Seq(S)
         /\ Within(s, s \o t) /\ Within(t, s \o t)
<1>1. /\ s \o t \in Seq(S) /\ Len(s) \in Nat /\ Len(t) \in Nat
      /\ DOMAIN s = 1..Len(s) /\ DOMAIN t = 1..Len(t) /\ DOMAIN (s \o t) = 1..(Len(s) + Len(t))
      /\ \A j \in 1..Len(s) : (s \o t)[j] = s[j]
      /\ \A j \in 1..Len(t) : (s \o t)[Len(s) + j] = t[j]
  OBVIOUS
<1>2. \A j \in DOMAIN t : Len(s) + j \in DOMAIN (s \o t)
  BY ONLY <1>1
<1>3. \A j \in DOMAIN s : j \in DOMAIN (s \o t)
  BY ONLY <1>1
<1>q. QED BY ONLY <1>1, <1>2, <1>3 DEF Within

LEMMA Flattened ==
  ASSUME NEW S, NEW n \in Nat, NEW seqs \in [1..n -> Seq(S)]
  PROVE  /\ FlattenSeq(seqs) \in Seq(S)
         /\ \A i \in 1..n : Within(seqs[i], FlattenSeq(seqs))
<1>. DEFINE Def(g, m) == g = [i \in 1..m |-> IF i = 1 THEN seqs[i] ELSE g[i - 1] \o seqs[i]]
            Bad == {m \in 1..n : ~ \E g : Def(g, m)}
            Has(g, m) == g[m] \in Seq(S) /\ \A i \in 1..m : Within(seqs[i], g[m])
<1>0. seqs \in Seq(Seq(S)) /\ Len(seqs) = n
  OBVIOUS
<1>1. CASE n = 0
  <2>1. seqs = <<>>
    BY <1>0, <1>1
  <2>q. QED BY <1>0, <1>1, <2>1 DEF FlattenSeq
<1>2. CASE n # 0
  <2>1. Bad = {}
    <3>1. SUFFICES ASSUME Bad # {} PROVE FALSE
      OBVIOUS
    <3>. HIDE DEF Def
    <3>2. Bad \subseteq Nat
      OBVIOUS
    <3>. USE DEF Def
    <3>3. PICK m \in Bad : \A k \in Bad : m <= k
      BY ONLY <3>1, <3>2, LeastNat
    <3>4. m # 1
      <4>1. PICK g : g = [i \in 1..1 |-> seqs[1]]
        OBVIOUS
      <4>2. g = [i \in 1..1 |-> IF i = 1 THEN seqs[i] ELSE g[i - 1] \o seqs[i]]
        BY ONLY <4>1
      <4>q. QED BY <4>2
    <3>5. m \in Nat /\ m \in 1..n /\ m - 1 \in 1..n /\ ~ (m <= m - 1)
      BY <3>4
    <3>6. PICK g : Def(g, m - 1)
      <4>1. m - 1 \notin Bad
        BY ONLY <3>3, <3>5
      <4>q. QED BY ONLY <3>5, <4>1
    <3>7. \A i \in 1..(m - 1) : g[i] = IF i = 1 THEN seqs[i] ELSE g[i - 1] \o seqs[i]
      BY <3>6
    <3>8. PICK h : h = [i \in 1..m |-> IF i = m THEN g[m - 1] \o seqs[m] ELSE g[i]]
      OBVIOUS
    <3>9. ASSUME NEW i \in 1..m PROVE h[i] = IF i = 1 THEN seqs[i] ELSE h[i - 1] \o seqs[i]
      BY ONLY <3>4, <3>5, <3>7, <3>8, <3>9
    <3>10. h = [i \in 1..m |-> IF i = 1 THEN seqs[i] ELSE h[i - 1] \o seqs[i]]
      BY ONLY <3>8, <3>9
    <3>q. QED BY <3>3, <3>10
  <2>2. PICK f : f = CHOOSE g : Def(g, n)
    OBVIOUS
  <2>3. f = [i \in 1..n |-> IF i = 1 THEN seqs[i] ELSE f[i - 1] \o seqs[i]]
    <3>1. n \in 1..n
      BY <1>2
    <3>2. \E g : Def(g, n)
      BY ONLY <2>1, <3>1
    <3>q. QED BY <2>2, <3>2
  <2>4. FlattenSeq(seqs) = f[n]
    BY ONLY <1>0, <1>2, <2>2 DEF FlattenSeq
  <2>5. Has(f, 1)
    <3>1. f[1] = seqs[1] /\ seqs[1] \in Seq(S)
      BY ONLY <1>2, <2>3, n \in Nat, seqs \in [1..n -> Seq(S)]
    <3>2. \A i \in 1..1 : i = 1
      OBVIOUS
    <3>q. QED BY ONLY <3>1, <3>2 DEF Within
  <2>6. ASSUME NEW m \in 2..n, Has(f, m - 1) PROVE Has(f, m)
    <3>0. m \in 1..n /\ m # 1 /\ m - 1 \in Nat
      OBVIOUS
    <3>1. f[m] = f[m - 1] \o seqs[m]
      BY ONLY <2>3, <3>0
    <3>2. seqs[m] \in Seq(S) /\ f[m - 1] \in Seq(S)
      BY ONLY <2>6, <3>0, seqs \in [1..n -> Seq(S)]
    <3>3. \A i \in 1..m : i = m \/ i \in 1..(m - 1)
      BY ONLY <3>0
    <3>4. Within(f[m - 1], f[m]) /\ Within(seqs[m], f[m]) /\ f[m] \in Seq(S)
      BY ONLY <3>1, <3>2, Joined
    <3>5. ASSUME NEW i \in 1..(m - 1) PROVE Within(seqs[i], f[m])
      <4>1. Within(seqs[i], f[m - 1])
        BY ONLY <2>6, <3>5
      <4>q. QED BY ONLY <3>4, <4>1 DEF Within
    <3>q. QED BY ONLY <3>3, <3>4, <3>5
  <2>7. {m \in 1..n : ~Has(f, m)} = {}
    <3>. HIDE DEF Has
    <3>1. SUFFICES ASSUME {m \in 1..n : ~Has(f, m)} # {} PROVE FALSE
      OBVIOUS
    <3>2. {m \in 1..n : ~Has(f, m)} \subseteq Nat
      OBVIOUS
    <3>3. PICK m \in {k \in 1..n : ~Has(f, k)} : \A k \in {j \in 1..n : ~Has(f, j)} : m <= k
      BY ONLY <3>1, <3>2, LeastNat
    <3>4. m \in 2..n /\ m - 1 \in 1..n /\ ~ (m <= m - 1)
      <4>1. m # 1 /\ m \in 1..n
        BY ONLY <2>5, <3>3
      <4>q. QED BY <4>1
    <3>5. Has(f, m - 1)
      BY ONLY <3>3, <3>4
    <3>6. Has(f, m)
      BY ONLY <2>6, <3>4, <3>5
    <3>q. QED BY ONLY <3>3, <3>6
  <2>8. Has(f, n)
    <3>1. n \in 1..n
      BY <1>2
    <3>q. QED BY ONLY <2>7, <3>1
  <2>q. QED BY ONLY <2>4, <2>8
<1>q. QED BY <1>1, <1>2

-----------------------------------------------------------------------------
(* Slots of light requests                                                 *)

LEMMA LitSlots ==
  ASSUME Shaped, NEW c \in Calls, calls[c].op = "lights"
  PROVE  LightSlot(calls[c]) /\ c \in Lit
BY DEF Shaped, Slotted, RoomSlot, DeviceSlot, LightSlot, Idle, Lit

LEMMA LitPut ==
  ASSUME NEW c \in Calls, NEW r, Put(c, r)
  PROVE  /\ Lit' = IF r.op = "lights" THEN Lit \cup {c} ELSE Lit \ {c}
         /\ calls'[c] = r
         /\ \A a \in Lit' \ {c} : a \in Lit /\ calls'[a] = calls[a]
         /\ \A a \in Lit \ {c} : a \in Lit' /\ calls'[a] = calls[a]
BY DEF Lit, Put

LEMMA CallsPut ==
  ASSUME LitCalls, NEW c \in Calls, NEW r, Put(c, r), r.op = "lights" => LightCall(r)
  PROVE  LitCalls'
BY LitPut DEF LitCalls

\* A light request goes on to what is left to do, or ends.
Resumed(c, passes, todo) ==
  \/ Put(c, Idle) /\ passes = <<>> /\ todo = <<>>
  \/ \E r : /\ Put(c, r) /\ r.op = "lights" /\ r.ids = calls[c].ids
            /\ r.passes = passes /\ r.todo = todo
            /\ \/ r.pc = "send" /\ todo # <<>>
               \/ r.pc = "snapshot" /\ todo = <<>> /\ passes # <<>>

LEMMA Proceeds ==
  ASSUME Shaped, NEW c \in Calls, calls[c].op = "lights", NEW passes, NEW todo
  PROVE  /\ Proceed(c, [calls[c] EXCEPT !.passes = passes, !.todo = todo])
              => Resumed(c, passes, todo)
         /\ Proceed(c, [calls[c] EXCEPT !.todo = todo]) => Resumed(c, calls[c].passes, todo)
         /\ Fail(c, Resume([calls[c] EXCEPT !.todo = todo])) => Resumed(c, calls[c].passes, todo)
<1>0. LightSlot(calls[c])
  BY LitSlots
<1>1. ASSUME NEW r, r.op = "lights", DOMAIN r = {"op", "pc", "ids", "passes", "todo"},
             r.ids = calls[c].ids, Proceed(c, r) \/ Fail(c, Resume(r))
      PROVE  Resumed(c, r.passes, r.todo)
  <2>0. Put(c, Resume(r))
    BY ONLY <1>1, Puts, Shaped, c \in Calls DEF Proceed
  <2>1. ASSUME NEW p \in {"send", "snapshot"}
        PROVE  LET s == [r EXCEPT !.pc = p]
               IN  s.pc = p /\ s.op = r.op /\ s.ids = r.ids /\ s.passes = r.passes /\ s.todo = r.todo
    BY ONLY <1>1, p \in {"send", "snapshot"}
  <2>3. CASE r.todo # <<>>
    <3>1. Put(c, [r EXCEPT !.pc = "send"])
      BY ONLY <2>0, <2>3 DEF Resume
    <3>q. QED BY ONLY <1>1, <2>1, <2>3, <3>1 DEF Resumed
  <2>4. CASE r.todo = <<>> /\ r.passes # <<>>
    <3>1. Put(c, [r EXCEPT !.pc = "snapshot"])
      BY ONLY <2>0, <2>4 DEF Resume
    <3>q. QED BY ONLY <1>1, <2>1, <2>4, <3>1 DEF Resumed
  <2>5. CASE r.todo = <<>> /\ r.passes = <<>>
    BY ONLY <2>0, <2>5 DEF Resume, Resumed
  <2>q. QED BY ONLY <2>3, <2>4, <2>5
<1>2. PICK r : r = [calls[c] EXCEPT !.passes = passes, !.todo = todo]
  OBVIOUS
<1>3. PICK s : s = [calls[c] EXCEPT !.todo = todo]
  OBVIOUS
<1>4. /\ r.op = "lights" /\ DOMAIN r = {"op", "pc", "ids", "passes", "todo"} /\ r.ids = calls[c].ids
      /\ r.passes = passes /\ r.todo = todo
  BY ONLY <1>0, <1>2 DEF LightSlot
<1>5. /\ s.op = "lights" /\ DOMAIN s = {"op", "pc", "ids", "passes", "todo"} /\ s.ids = calls[c].ids
      /\ s.passes = calls[c].passes /\ s.todo = todo
  BY ONLY <1>0, <1>3 DEF LightSlot
<1>q. QED BY ONLY <1>1, <1>2, <1>3, <1>4, <1>5

LEMMA ResumedTyped ==
  ASSUME LitCalls, NEW c \in Calls, NEW passes \in Seq(LightOrders), NEW todo \in Seq(Errands),
         Resumed(c, passes, todo)
  PROVE  LitCalls'
<1>1. CASE Put(c, Idle)
  BY ONLY <1>1, CallsPut, LitCalls, c \in Calls DEF Idle
<1>2. ASSUME NEW r, Put(c, r), r.passes = passes, r.todo = todo,
             \/ r.pc = "send" /\ todo # <<>>
             \/ r.pc = "snapshot" /\ todo = <<>> /\ passes # <<>>
      PROVE  LitCalls'
  <2>1. LightCall(r)
    BY ONLY <1>2, passes \in Seq(LightOrders), todo \in Seq(Errands) DEF LightCall
  <2>q. QED BY ONLY <1>2, <2>1, CallsPut, LitCalls, c \in Calls
<1>q. QED BY ONLY <1>1, <1>2, Resumed(c, passes, todo) DEF Resumed

\* The steps of one light.
LEMMA StepsIn ==
  ASSUME NEW S, NEW d, NEW o, NEW seen,
         d.ip # NoIp => [to |-> d.ip, order |-> Accepted(o)] \in S,
         d.net # NoIp => [to |-> d.net, order |-> Accepted(o)] \in S,
         d.hue => [to |-> d.id, order |-> o] \in S
  PROVE  /\ StepsFor(d, o, seen) \in Seq(S)
         /\ seen /\ d.ip # NoIp => Within(<<[to |-> d.ip, order |-> Accepted(o)]>>, StepsFor(d, o, seen))
         /\ seen /\ d.hue => Within(<<[to |-> d.id, order |-> o]>>, StepsFor(d, o, seen))
<1>1. PICK x, y, z : /\ x = [to |-> d.ip, order |-> Accepted(o)] /\ y = [to |-> d.id, order |-> o]
                     /\ z = [to |-> d.net, order |-> Accepted(o)]
  OBVIOUS
<1>2. PICK r : r = IF seen /\ d.ip # NoIp THEN <<x>> ELSE <<>>
  OBVIOUS
<1>3. PICK s : s = IF seen /\ d.hue THEN <<y>> ELSE <<>>
  OBVIOUS
<1>4. PICK t : t = IF d.net # NoIp THEN <<z>> ELSE <<>>
  OBVIOUS
<1>5. StepsFor(d, o, seen) = r \o s \o t
  BY ONLY <1>1, <1>2, <1>3, <1>4 DEF StepsFor
<1>6. r \in Seq(S) /\ s \in Seq(S) /\ t \in Seq(S)
  BY <1>1, <1>2, <1>3, <1>4
<1>7. /\ r \o s \in Seq(S) /\ r \o s \o t \in Seq(S)
      /\ Within(r, r \o s) /\ Within(s, r \o s) /\ Within(r \o s, r \o s \o t)
  BY ONLY <1>6, Joined
<1>8. Within(r, r \o s \o t) /\ Within(s, r \o s \o t)
  BY ONLY <1>7 DEF Within
<1>q. QED BY ONLY <1>1, <1>2, <1>3, <1>5, <1>7, <1>8

LEMMA SnapshotSteps ==
  ASSUME Shaped, NEW c \in Calls, NEW seen, TakeSnapshot(c, seen), NEW S, NEW o, o = Head(calls[c].passes),
         \A i \in DOMAIN Devices :
           LET d == Devices[i] IN
             /\ d.ip # NoIp => [to |-> d.ip, order |-> Accepted(o)] \in S
             /\ d.net # NoIp => [to |-> d.net, order |-> Accepted(o)] \in S
             /\ d.hue => [to |-> d.id, order |-> o] \in S
  PROVE  \E todo \in Seq(S) :
           /\ Resumed(c, Tail(calls[c].passes), todo)
           /\ \A i \in DOMAIN Devices : Devices[i].id \in calls[c].ids =>
                Within(StepsFor(Devices[i], o, seen), todo)
<1>1. PICK steps : steps = [i \in DOMAIN Devices |->
                              IF Devices[i].id \in calls[c].ids THEN StepsFor(Devices[i], o, seen)
                              ELSE <<>>]
  OBVIOUS
<1>2. calls[c].op = "lights"
      /\ Proceed(c, [calls[c] EXCEPT !.passes = Tail(@), !.todo = FlattenSeq(steps)])
  BY ONLY TakeSnapshot(c, seen), <1>1, o = Head(calls[c].passes) DEF TakeSnapshot
<1>3. Resumed(c, Tail(calls[c].passes), FlattenSeq(steps))
  BY ONLY <1>2, Proceeds, Shaped, c \in Calls
<1>4. Len(Devices) \in Nat /\ DOMAIN Devices = 1..Len(Devices)
  BY LightAssumption
<1>5. ASSUME NEW i \in DOMAIN Devices PROVE StepsFor(Devices[i], o, seen) \in Seq(S)
  <2>1. PICK d : d = Devices[i]
    OBVIOUS
  <2>2. /\ d.ip # NoIp => [to |-> d.ip, order |-> Accepted(o)] \in S
        /\ d.net # NoIp => [to |-> d.net, order |-> Accepted(o)] \in S
        /\ d.hue => [to |-> d.id, order |-> o] \in S
    BY <2>1
  <2>q. QED BY ONLY <2>1, <2>2, StepsIn
<1>6. steps \in [1..Len(Devices) -> Seq(S)]
  <2>1. <<>> \in Seq(S)
    OBVIOUS
  <2>q. QED BY ONLY <1>1, <1>4, <1>5, <2>1
<1>7. /\ FlattenSeq(steps) \in Seq(S)
      /\ \A i \in 1..Len(Devices) : Within(steps[i], FlattenSeq(steps))
  BY ONLY <1>4, <1>6, Flattened
<1>8. ASSUME NEW i \in DOMAIN Devices, Devices[i].id \in calls[c].ids
      PROVE  Within(StepsFor(Devices[i], o, seen), FlattenSeq(steps))
  BY ONLY <1>1, <1>4, <1>7, <1>8
<1>q. QED BY ONLY <1>3, <1>7, <1>8

-----------------------------------------------------------------------------
(* Types                                                                   *)

\* A scene switches off, or on, with a brightness and a tone of its own.
Percents == 1..100
Warmths == 2000..9000
Tints == {Temp(k) : k \in Warmths} \cup {Color("blue")}
LitTo(b, t) == <<Power(TRUE), Brightness(b), t>>

LEMMA ScenePasses ==
  ASSUME NEW scene \in {"all_off", "all_on", "relax", "focus", "night", "cinema"}
  PROVE  \/ Passes(scene) = <<Power(FALSE)>>
         \/ \E b \in Percents, t \in Tints : Passes(scene) = LitTo(b, t)
<1>1. /\ 100 \in Percents /\ 40 \in Percents /\ 10 \in Percents /\ 20 \in Percents
      /\ Color("blue") \in Tints
      /\ Temp(4000) \in Tints /\ Temp(2700) \in Tints /\ Temp(6500) \in Tints /\ Temp(2200) \in Tints
  BY SMT DEF Percents, Warmths, Tints, Temp, Color
<1>0. \A e : \E x : x = e
  OBVIOUS
<1>2. PICK off : off = <<Power(FALSE)>>
  OBVIOUS
<1>3. PICK on : on = LitTo(100, Temp(4000))
  BY ONLY <1>0, SMT
<1>4. PICK relax : relax = LitTo(40, Temp(2700))
  BY ONLY <1>0, SMT
<1>5. PICK focus : focus = LitTo(100, Temp(6500))
  BY ONLY <1>0, SMT
<1>6. PICK night : night = LitTo(10, Temp(2200))
  BY ONLY <1>0, SMT
<1>7. PICK cinema : cinema = LitTo(20, Color("blue"))
  BY ONLY <1>0, SMT
<1>8. Passes(scene) = CASE scene = "all_off" -> off [] scene = "all_on" -> on
                        [] scene = "relax" -> relax [] scene = "focus" -> focus
                        [] scene = "night" -> night [] scene = "cinema" -> cinema
  BY ONLY <1>2, <1>3, <1>4, <1>5, <1>6, <1>7, SMT DEF Passes, LitTo
<1>9. Passes(scene) \in {off, on, relax, focus, night, cinema}
  BY ONLY <1>8, scene \in {"all_off", "all_on", "relax", "focus", "night", "cinema"}
<1>10. \E b \in Percents, t \in Tints : on = LitTo(b, t)
  BY ONLY <1>1, <1>3, SMT
<1>11. \E b \in Percents, t \in Tints : relax = LitTo(b, t)
  BY ONLY <1>1, <1>4, SMT
<1>12. \E b \in Percents, t \in Tints : focus = LitTo(b, t)
  BY ONLY <1>1, <1>5, SMT
<1>13. \E b \in Percents, t \in Tints : night = LitTo(b, t)
  BY ONLY <1>1, <1>6, SMT
<1>14. \E b \in Percents, t \in Tints : cinema = LitTo(b, t)
  BY ONLY <1>1, <1>7, SMT
<1>q. QED BY ONLY <1>2, <1>9, <1>10, <1>11, <1>12, <1>13, <1>14, Zenon

LEMMA PassesTyped ==
  ASSUME NEW scene \in {"all_off", "all_on", "relax", "focus", "night", "cinema"}
  PROVE  Passes(scene) \in Seq(LightOrders) /\ Passes(scene) # <<>>
<1>1. ASSUME NEW x \in LightOrders, NEW y \in LightOrders, NEW z \in LightOrders
      PROVE  /\ <<x>> \in Seq(LightOrders) /\ <<x>> # <<>>
             /\ <<x, y, z>> \in Seq(LightOrders) /\ <<x, y, z>> # <<>>
  OBVIOUS
<1>2. \A on \in BOOLEAN : Power(on) \in LightOrders
  BY ONLY DEF LightOrders
<1>3. \A n \in Nat : Brightness(n) \in LightOrders /\ Temp(n) \in LightOrders
  BY ONLY DEF LightOrders
<1>4. Percents \subseteq Nat /\ Warmths \subseteq Nat /\ Color("blue") \in LightOrders
  BY DEF Percents, Warmths, LightOrders
<1>5. \A t \in Tints : t \in LightOrders
  BY ONLY <1>3, <1>4, Zenon DEF Tints
<1>6. Power(TRUE) \in LightOrders /\ Power(FALSE) \in LightOrders
  BY ONLY <1>2
<1>7. CASE Passes(scene) = <<Power(FALSE)>>
  BY ONLY <1>1, <1>6, <1>7, Zenon
<1>8. ASSUME NEW b \in Percents, NEW t \in Tints, Passes(scene) = LitTo(b, t)
      PROVE  Passes(scene) \in Seq(LightOrders) /\ Passes(scene) # <<>>
  <2>1. Brightness(b) \in LightOrders /\ t \in LightOrders
    BY ONLY <1>3, <1>4, <1>5, <1>8
  <2>q. QED BY ONLY <1>1, <1>6, <1>8, <2>1, Zenon DEF LitTo
<1>q. QED BY ONLY <1>7, <1>8, ScenePasses, Zenon,
          scene \in {"all_off", "all_on", "relax", "focus", "night", "cinema"}

\* What a light request begins with.
LEMMA Begun ==
  ASSUME Shaped, LitCalls, NEW c \in Calls, NEW pc, NEW ids, NEW passes \in Seq(LightOrders),
         NEW todo \in Seq(Errands),
         Begin(c, Work(pc, ids, passes, todo)) \/ BeginLong(c, Work(pc, ids, passes, todo), 2),
         \/ pc = "snapshot" /\ todo = <<>> /\ passes # <<>>
         \/ pc = "send" /\ todo # <<>>
         \/ pc = "query" /\ todo # <<>> /\ Head(todo).to \in Lamps
  PROVE  LitCalls' /\ calls[c] = Idle /\ Put(c, Work(pc, ids, passes, todo))
<1>1. Put(c, Work(pc, ids, passes, todo)) /\ calls[c] = Idle
  BY ONLY Puts, Shaped, c \in Calls,
     Begin(c, Work(pc, ids, passes, todo)) \/ BeginLong(c, Work(pc, ids, passes, todo), 2)
<1>2. PICK r : r = Work(pc, ids, passes, todo)
  OBVIOUS
<1>3. r.pc = pc /\ r.passes = passes /\ r.todo = todo
  BY ONLY <1>2 DEF Work
<1>4. LightCall(r)
  BY ONLY <1>3, passes \in Seq(LightOrders), todo \in Seq(Errands),
         \/ pc = "snapshot" /\ todo = <<>> /\ passes # <<>>
         \/ pc = "send" /\ todo # <<>>
         \/ pc = "query" /\ todo # <<>> /\ Head(todo).to \in Lamps
     DEF LightCall
<1>q. QED BY ONLY <1>1, <1>2, <1>4, CallsPut, LitCalls, c \in Calls

LEMMA OneErrand ==
  ASSUME NEW ip \in Lamps, NEW o \in LightOrders
  PROVE  LET t == <<[to |-> ip, order |-> o]>>
         IN  t \in Seq(Errands) /\ t # <<>> /\ Head(t).to \in Lamps
BY DEF Errands

LEMMA OrdersTyped ==
  /\ \A on \in BOOLEAN : Power(on) \in LightOrders
  /\ \A b \in Levels : Brightness(b) \in LightOrders
  /\ \A k \in Kelvins : Temp(k) \in LightOrders
  /\ Color("red") \in LightOrders
<1>1. Levels \subseteq Nat /\ Kelvins \subseteq Nat
  BY LightAssumption
<1>q. QED BY ONLY <1>1 DEF LightOrders

\* The first errand of a request that is under way.
LEMMA NowTyped ==
  ASSUME Shaped, LitCalls, NEW c \in Calls, calls[c].op = "lights", calls[c].pc # "snapshot"
  PROVE  /\ calls[c].todo \in Seq(Errands) /\ calls[c].todo # <<>> /\ Now(c) = calls[c].todo[1]
         /\ 1 \in DOMAIN calls[c].todo /\ Now(c) \in Errands /\ Now(c).order \in LightOrders
         /\ Tail(calls[c].todo) \in Seq(Errands) /\ calls[c].passes \in Seq(LightOrders)
         /\ calls[c].pc \in {"cache", "query"} => Now(c).to \in Lamps
         /\ calls[c].pc = "adrift" => Now(c).to \in HueIds
<1>1. LightCall(calls[c])
  BY LitSlots DEF LitCalls
<1>2. calls[c].todo \in Seq(Errands) /\ calls[c].todo # <<>> /\ calls[c].passes \in Seq(LightOrders)
      /\ (calls[c].pc \in {"cache", "query"} => Head(calls[c].todo).to \in Lamps)
      /\ (calls[c].pc = "adrift" => Head(calls[c].todo).to \in HueIds)
  BY <1>1 DEF LightCall
<1>3. /\ Head(calls[c].todo) \in Errands /\ Head(calls[c].todo) = calls[c].todo[1]
      /\ 1 \in DOMAIN calls[c].todo /\ Tail(calls[c].todo) \in Seq(Errands)
  BY ONLY <1>2, TailOf
<1>4. \A e \in Errands : e.order \in LightOrders
  BY DEF Errands
<1>q. QED BY ONLY <1>2, <1>3, <1>4 DEF Now

LEMMA StepsTyped ==
  ASSUME NEW o \in LightOrders, NEW i \in DOMAIN Devices
  PROVE  /\ [to |-> Devices[i].ip, order |-> Accepted(o)] \in Errands
         /\ [to |-> Devices[i].net, order |-> Accepted(o)] \in Errands
         /\ Devices[i].hue => [to |-> Devices[i].id, order |-> o] \in Errands
<1>1. {Devices[i].ip, Devices[i].net} \subseteq Lamps \cup {NoIp} /\ (Devices[i].hue => Devices[i].id \in HueIds)
  BY LightAssumption DEF HueIds
<1>q. QED BY ONLY <1>1, AcceptedTyped, o \in LightOrders DEF Errands

\* What each step of a light request does to its slot.
LEMMA TakeSnapshotTyped ==
  ASSUME Shaped, LitCalls, NEW c \in Calls, NEW seen, TakeSnapshot(c, seen)
  PROVE  LitCalls'
<1>1. calls[c].op = "lights" /\ calls[c].pc = "snapshot"
  BY DEF TakeSnapshot
<1>2. LightCall(calls[c])
  BY <1>1, LitSlots DEF LitCalls
<1>3. calls[c].passes \in Seq(LightOrders) /\ calls[c].passes # <<>>
  BY ONLY <1>1, <1>2 DEF LightCall
<1>4. PICK o : o = Head(calls[c].passes)
  OBVIOUS
<1>5. o \in LightOrders /\ Tail(calls[c].passes) \in Seq(LightOrders)
  BY ONLY <1>3, <1>4, TailOf
<1>6. \E todo \in Seq(Errands) : Resumed(c, Tail(calls[c].passes), todo)
  BY ONLY <1>4, <1>5, SnapshotSteps, StepsTyped, TakeSnapshot(c, seen), Shaped, c \in Calls
<1>q. QED BY ONLY <1>5, <1>6, ResumedTyped, LitCalls, c \in Calls

LEMMA GotoTyped ==
  ASSUME Shaped, LitCalls, NEW c \in Calls, NEW p \in {"cache", "query"}, Goto(c, p),
         calls[c].op = "lights", calls[c].pc # "snapshot", Now(c).to \in Lamps
  PROVE  LitCalls'
<1>1. LightSlot(calls[c]) /\ LightCall(calls[c])
  BY LitSlots DEF LitCalls
<1>2. PICK r : r = [calls[c] EXCEPT !.pc = p]
  OBVIOUS
<1>3. r.pc = p /\ r.todo = calls[c].todo /\ r.passes = calls[c].passes
  BY ONLY <1>1, <1>2 DEF LightSlot
<1>4. LightCall(r)
  BY ONLY <1>1, <1>3, Now(c).to \in Lamps, calls[c].pc # "snapshot", p \in {"cache", "query"}
     DEF LightCall, Now
<1>5. Put(c, r)
  BY ONLY <1>2, Gotos, Goto(c, p), Shaped, c \in Calls
<1>q. QED BY ONLY <1>4, <1>5, CallsPut, LitCalls, c \in Calls

\* An errand is done.
LEMMA DoneTyped ==
  ASSUME Shaped, LitCalls, NEW c \in Calls, calls[c].op = "lights", calls[c].pc # "snapshot",
         \/ Proceed(c, [calls[c] EXCEPT !.todo = Tail(@)])
         \/ Fail(c, Resume([calls[c] EXCEPT !.todo = Tail(@)]))
  PROVE  LitCalls' /\ Resumed(c, calls[c].passes, Tail(calls[c].todo))
<1>2. \/ Proceed(c, [calls[c] EXCEPT !.todo = Tail(calls[c].todo)])
      \/ Fail(c, Resume([calls[c] EXCEPT !.todo = Tail(calls[c].todo)]))
  OBVIOUS
<1>3. Resumed(c, calls[c].passes, Tail(calls[c].todo))
  BY ONLY <1>2, Proceeds, Shaped, c \in Calls, calls[c].op = "lights"
<1>q. QED BY <1>3, NowTyped, ResumedTyped

\* A request is dropped; a call of the Hue module may be left of it.
LEMMA Dropped ==
  ASSUME Shaped, LitCalls, NEW c \in Calls, GiveUpLights(c) \/ \E done : LandHue(c, done)
  PROVE  LitCalls' /\ \E r : Put(c, r) /\ (r = Idle \/ r.pc = "adrift")
<1>1. CASE Put(c, Idle)
  BY ONLY <1>1, CallsPut, LitCalls, c \in Calls DEF Idle
<1>2. CASE At(c, "send") /\ Now(c).to \in HueIds /\ Fail(c, Work("adrift", {}, <<>>, <<Now(c)>>))
  <2>1. Now(c) \in Errands
    BY <1>2, NowTyped DEF At
  <2>2. PICK r : r = Work("adrift", {}, <<>>, <<Now(c)>>)
    OBVIOUS
  <2>3. r.pc = "adrift" /\ r.passes = <<>> /\ r.todo = <<Now(c)>>
    BY ONLY <2>2 DEF Work
  <2>4. LightCall(r)
    BY ONLY <1>2, <2>1, <2>3 DEF LightCall
  <2>5. Put(c, r)
    BY ONLY <1>2, <2>2, Puts, Shaped, c \in Calls
  <2>q. QED BY ONLY <2>3, <2>4, <2>5, CallsPut, LitCalls, c \in Calls
<1>3. ASSUME NEW r, Fail(c, r) \/ Return(c) PROVE Put(c, r) \/ Put(c, Idle)
  BY ONLY <1>3, Puts, Shaped, c \in Calls
<1>q. QED BY ONLY <1>1, <1>2, <1>3, GiveUpLights(c) \/ \E done : LandHue(c, done)
             DEF GiveUpLights, LandHue

LEMMA CallsStep ==
  ASSUME Shaped, Wires, LitCalls, LightsNext
  PROVE  LitCalls'
<1>1. ASSUME NEW c \in Calls, NEW ip \in Lamps, NEW o \in LightOrders, SetLight(c, ip, o)
      PROVE  LitCalls'
  <2>1. Accepted(o) \in LightOrders
    BY AcceptedTyped
  <2>2. PICK t : t = <<[to |-> ip, order |-> Accepted(o)]>>
    OBVIOUS
  <2>3. t \in Seq(Errands) /\ t # <<>> /\ <<>> \in Seq(LightOrders)
    BY <2>1, <2>2, OneErrand
  <2>4. Begin(c, Work("send", {}, <<>>, t))
    BY ONLY <1>1, <2>2 DEF SetLight
  <2>q. QED BY ONLY <2>3, <2>4, Begun, Shaped, LitCalls, c \in Calls
<1>2. ASSUME NEW c \in Calls, NEW ip \in Lamps, AskStatus(c, ip) PROVE LitCalls'
  <2>1. PICK t : t = <<[to |-> ip, order |-> Power(TRUE)]>>
    OBVIOUS
  <2>2. t \in Seq(Errands) /\ t # <<>> /\ Head(t).to \in Lamps /\ <<>> \in Seq(LightOrders)
    <3>1. PICK o \in LightOrders : o = Power(TRUE)
      BY OrdersTyped
    <3>2. t = <<[to |-> ip, order |-> o]>>
      BY ONLY <2>1, <3>1
    <3>q. QED BY ONLY <3>2, OneErrand, ip \in Lamps, o \in LightOrders
  <2>3. Begin(c, Work("query", {}, <<>>, t))
    BY ONLY <1>2, <2>1 DEF AskStatus
  <2>q. QED BY ONLY <2>2, <2>3, Begun, Shaped, LitCalls, c \in Calls
<1>3. ASSUME NEW c \in Calls, NEW ids, NEW orders \in Seq(LightOrders), orders # <<>>, NEW final,
             Control(c, ids, orders, final)
      PROVE  LitCalls'
  <2>1. BeginLong(c, Work("snapshot", ids, orders, <<>>), 2)
    BY ONLY <1>3 DEF Control
  <2>2. <<>> \in Seq(Errands)
    OBVIOUS
  <2>q. QED BY ONLY <1>3, <2>1, <2>2, Begun, Shaped, LitCalls, c \in Calls
<1>4. ASSUME NEW c \in Calls, LightRequest(c) PROVE LitCalls'
  <2>1. ASSUME NEW ip \in Lamps, Toggle(c, ip) PROVE LitCalls'
    <3>1. CASE cache[ip] = Unknown \/ ~cache[ip].on
      <4>1. SetLight(c, ip, Power(TRUE))
        BY ONLY <2>1, <3>1 DEF Toggle
      <4>q. QED BY ONLY <1>1, <4>1, OrdersTyped, ip \in Lamps, c \in Calls
    <3>2. CASE ~(cache[ip] = Unknown \/ ~cache[ip].on)
      <4>1. SetLight(c, ip, Power(FALSE))
        BY ONLY <2>1, <3>2 DEF Toggle
      <4>q. QED BY ONLY <1>1, <4>1, OrdersTyped, ip \in Lamps, c \in Calls
    <3>q. QED BY ONLY <3>1, <3>2
  <2>q. QED BY ONLY <1>1, <1>2, <1>4, <2>1, OrdersTyped, c \in Calls DEF LightRequest
<1>5. ASSUME NEW c \in Calls, LightStep(c) PROVE LitCalls'
  <2>1. ASSUME NEW seen, TakeSnapshot(c, seen) PROVE LitCalls'
    BY ONLY <2>1, TakeSnapshotTyped, Shaped, LitCalls, c \in Calls
  <2>2. ASSUME SendOrder(c) PROVE LitCalls'
    BY ONLY <2>2, GotoTyped, Shaped, LitCalls, c \in Calls DEF SendOrder, At
  <2>3. ASSUME UpdateCache(c) PROVE LitCalls'
    BY ONLY <2>3, GotoTyped, NowTyped, Shaped, LitCalls, c \in Calls DEF UpdateCache, At
  <2>4. ASSUME QueryStatus(c) PROVE LitCalls'
    BY ONLY <2>4, DoneTyped, Shaped, LitCalls, c \in Calls DEF QueryStatus, At
  <2>5. ASSUME NEW done, PostHue(c, done) PROVE LitCalls'
    BY ONLY <2>5, DoneTyped, Shaped, LitCalls, c \in Calls DEF PostHue, At
  <2>6. ASSUME SendFails(c) PROVE LitCalls'
    BY ONLY <2>6, DoneTyped, Shaped, LitCalls, c \in Calls DEF SendFails, At
  <2>q. QED BY ONLY <1>5, <2>1, <2>2, <2>3, <2>4, <2>5, <2>6, Dropped, Shaped, LitCalls, c \in Calls
            DEF LightStep
<1>6. ASSUME LightWorld PROVE LitCalls'
  <2>1. UNCHANGED calls
    BY <1>6 DEF LightWorld, Receive, LampTakes, Lose, Switch, Brief, requestVars
  <2>q. QED BY ONLY <2>1, LitCalls DEF LitCalls, Lit
<1>7. ASSUME NEW c \in Calls, NEW g, NEW o \in Orders, GroupOrder(c, g, o) PROVE LitCalls'
  <2>1. o \in LightOrders
    BY OrdersTyped DEF Orders
  <2>2. <<o>> \in Seq(LightOrders) /\ <<o>> # <<>>
    BY ONLY <2>1
  <2>q. QED BY ONLY <1>3, <1>7, <2>2, c \in Calls DEF GroupOrder
<1>8. ASSUME NEW c \in Calls, NEW n, NEW scene \in Scenes, NEW seen, RoomScene(c, n, scene, seen) PROVE LitCalls'
  <2>1. scene \in {"all_off", "all_on", "relax", "focus", "night", "cinema"}
    BY LightAssumption
  <2>q. QED BY ONLY <1>3, <1>8, <2>1, PassesTyped, c \in Calls DEF RoomScene, Scene
<1>q. QED BY ONLY <1>4, <1>5, <1>6, <1>7, <1>8, LightsNext DEF LightsNext

LEMMA WiresStep ==
  ASSUME Shaped, Wires, LitCalls, LightsNext
  PROVE  Wires'
<1>0. /\ \A ip \in Lamps : toLamp[ip] \in Seq(Packets)
      /\ \A l \in Lamps \cup HueIds : lamp[l] \in LampStates
      /\ \A ip \in Lamps : cache[ip] \in LampStates
  BY DEF Wires
<1>1. ASSUME UNCHANGED <<lamp, cache, toLamp, fromLamp>> PROVE Wires'
  BY <1>1 DEF Wires
<1>2. ASSUME NEW ip \in Lamps, NEW p \in Packets, toLamp' = [toLamp EXCEPT ![ip] = Append(@, p)],
             UNCHANGED <<lamp, cache, fromLamp>>
      PROVE  Wires'
  <2>1. Append(toLamp[ip], p) \in Seq(Packets)
    BY ONLY <1>0, <1>2, AppendsTo
  <2>q. QED BY <1>2, <2>1 DEF Wires
<1>3. ASSUME NEW c \in Calls, SendOrder(c) PROVE Wires'
  <2>1. Now(c).to \in Lamps /\ [kind |-> "order", order |-> Now(c).order] \in Packets
    BY <1>3, NowTyped DEF SendOrder, At, Packets
  <2>q. QED BY ONLY <1>2, <1>3, <2>1 DEF SendOrder
<1>4. ASSUME NEW c \in Calls, UpdateCache(c) PROVE Wires'
  <2>1. Now(c).to \in Lamps /\ Now(c).order \in LightOrders
    BY <1>4, NowTyped DEF UpdateCache, At
  <2>2. Expected(Now(c).order, cache[Now(c).to]) \in LampStates
    BY ONLY <1>0, <2>1, StatesTyped
  <2>q. QED BY <1>4, <2>1, <2>2 DEF UpdateCache, Wires
<1>5. ASSUME NEW c \in Calls, QueryStatus(c) PROVE Wires'
  <2>1. Now(c).to \in Lamps /\ [kind |-> "query"] \in Packets
    BY <1>5, NowTyped DEF QueryStatus, At, Packets
  <2>q. QED BY ONLY <1>2, <1>5, <2>1 DEF QueryStatus
<1>6. ASSUME NEW c \in Calls, NEW done, PostHue(c, done) \/ LandHue(c, done) PROVE Wires'
  <2>1. Now(c).to \in HueIds /\ Now(c).order \in LightOrders
    BY <1>6, NowTyped DEF PostHue, LandHue, At
  <2>2. HueObeyed(Now(c).order, lamp[Now(c).to]) \in LampStates
    BY ONLY <1>0, <2>1, StatesTyped
  <2>3. AskHue(c, done)
    BY ONLY <1>6 DEF PostHue, LandHue
  <2>q. QED BY <2>1, <2>2, <2>3 DEF AskHue, Wires
<1>7. ASSUME NEW ip \in Lamps, LampTakes(ip) PROVE Wires'
  <2>1. PICK p : p = Head(toLamp[ip])
    OBVIOUS
  <2>2. p \in Packets /\ Tail(toLamp[ip]) \in Seq(Packets)
    BY ONLY <1>0, <1>7, <2>1, TailOf DEF LampTakes
  <2>3. lamp' \in [Lamps \cup HueIds -> LampStates]
    <3>1. p.kind = "order" => Obeyed(p.order, lamp[ip]) \in LampStates
      <4>1. p.kind = "order" => p.order \in LightOrders
        BY ONLY <2>2 DEF Packets
      <4>q. QED BY ONLY <1>0, <1>7, <4>1, StatesTyped
    <3>2. lamp' = IF p.kind = "order" THEN [lamp EXCEPT ![ip] = Obeyed(p.order, @)] ELSE lamp
      BY ONLY <1>7, <2>1 DEF LampTakes
    <3>q. QED BY <3>1, <3>2 DEF Wires
  <2>4. fromLamp' \in Seq(Reports)
    <3>1. ASSUME NEW kind \in {"devStatus", "scan"}
          PROVE  Append(fromLamp, [kind |-> kind, ip |-> ip, state |-> lamp[ip]]) \in Seq(Reports)
      <4>1. [kind |-> kind, ip |-> ip, state |-> lamp[ip]] \in Reports
        BY <1>0 DEF Reports
      <4>q. QED BY <4>1, AppendsTo DEF Wires
    <3>2. p.kind \in {"order", "query", "scan"}
      BY ONLY <2>2 DEF Packets
    <3>3. \/ fromLamp' = fromLamp
          \/ \E kind \in {"devStatus", "scan"} :
               fromLamp' = Append(fromLamp, [kind |-> kind, ip |-> ip, state |-> lamp[ip]])
      BY ONLY <1>7, <2>1, <3>2 DEF LampTakes
    <3>q. QED BY <3>1, <3>3 DEF Wires
  <2>q. QED BY <1>7, <2>2, <2>3, <2>4 DEF LampTakes, Wires
<1>8. ASSUME Receive PROVE Wires'
  <2>1. PICK p : p = Head(fromLamp)
    OBVIOUS
  <2>2. p \in Reports /\ Tail(fromLamp) \in Seq(Reports)
    BY <1>8, <2>1, TailOf DEF Receive, Wires
  <2>3. p.ip \in Lamps /\ p.state \in LampStates /\ NewEntry(FALSE) \in LampStates
    BY ONLY <2>2 DEF Reports, NewEntry, LampStates, Tones
  <2>4. \/ cache' = [cache EXCEPT ![p.ip] = p.state] \/ cache' = [cache EXCEPT ![p.ip] = NewEntry(FALSE)]
        \/ cache' = cache
    BY ONLY <1>8, <2>1 DEF Receive
  <2>5. cache' \in [Lamps -> LampStates]
    BY ONLY <2>3, <2>4, Wires DEF Wires
  <2>6. UNCHANGED <<lamp, toLamp>> /\ fromLamp' = Tail(fromLamp)
    BY ONLY <1>8 DEF Receive
  <2>q. QED BY ONLY <2>2, <2>5, <2>6, Wires DEF Wires
<1>9. ASSUME NEW ip \in Lamps, Lose(ip) PROVE Wires'
  <2>1. toLamp[ip] # <<>> => Tail(toLamp[ip]) \in Seq(Packets)
    BY ONLY <1>0, <1>9, TailOf
  <2>2. fromLamp # <<>> => Tail(fromLamp) \in Seq(Reports)
    BY TailOf DEF Wires
  <2>q. QED BY <1>9, <2>1, <2>2 DEF Lose, Wires
<1>10. ASSUME NEW ip \in Lamps, Switch(ip) PROVE Wires'
  <2>1. [lamp[ip] EXCEPT !.on = ~@] \in LampStates
    BY ONLY <1>0, <1>10 DEF LampStates
  <2>2. lamp' = [lamp EXCEPT ![ip] = [lamp[ip] EXCEPT !.on = ~@]]
    BY <1>10 DEF Switch
  <2>q. QED BY <1>10, <2>1, <2>2 DEF Switch, Wires
<1>11. ASSUME NEW c \in Calls, \/ LightRequest(c) \/ SendFails(c) \/ GiveUpLights(c)
                               \/ \E seen \in BOOLEAN : TakeSnapshot(c, seen)
       PROVE  Wires'
  BY ONLY <1>1, <1>11
     DEF LightRequest, Toggle, SetLight, AskStatus, SendFails, GiveUpLights, TakeSnapshot, lightVars
<1>12. ASSUME NEW c, NEW ids, NEW orders, NEW final, Control(c, ids, orders, final)
       PROVE  Wires'
  BY ONLY <1>1, <1>12 DEF Control
<1>q. QED
  BY ONLY <1>3, <1>4, <1>5, <1>6, <1>7, <1>8, <1>9, <1>10, <1>11, <1>12, LightsNext
     DEF LightsNext, LightWorld, LightStep, GroupOrder, RoomScene, Scene

-----------------------------------------------------------------------------
(* The cache                                                               *)

\* A step of slot c leaves a query owed, unless c was all that owed it.
LEMMA OwedStays ==
  ASSUME NEW c \in Calls, NEW r, Put(c, r), NEW ip, Owed(Lit, calls, ip),
         c \in Lit /\ Owes(calls[c], ip) => r.op = "lights" /\ Owes(r, ip)
  PROVE  Owed(Lit', calls', ip)
<1>1. PICK a \in Lit : Owes(calls[a], ip)
  BY DEF Owed
<1>2. CASE a = c
  <2>1. c \in Lit' /\ calls'[c] = r /\ Owes(r, ip)
    BY <1>1, <1>2, LitPut
  <2>q. QED BY ONLY <2>1 DEF Owed
<1>3. CASE a # c
  <2>1. a \in Lit' /\ calls'[a] = calls[a]
    BY <1>1, <1>3, LitPut
  <2>q. QED BY ONLY <1>1, <2>1 DEF Owed
<1>q. QED BY <1>2, <1>3

\* What the wires and the cache say is left alone.
LEMMA CacheKept ==
  ASSUME CacheInv, UNCHANGED <<cache, toLamp, fromLamp, guessed>>, \A l \in Lamps : lamp'[l] = lamp[l],
         astray \subseteq astray',
         \A ip \in Lamps \ astray' : Owed(Lit, calls, ip) => Owed(Lit', calls', ip)
  PROVE  CacheInv'
BY DEF CacheInv

\* So it is by a request that owes no query, or that lets everyone know of it.
LEMMA CachePut ==
  ASSUME CacheInv, UNCHANGED <<cache, toLamp, fromLamp, guessed>>, \A l \in Lamps : lamp'[l] = lamp[l],
         astray \subseteq astray', NEW c \in Calls, NEW r, Put(c, r),
         c \in Lit /\ calls[c].pc \in {"cache", "query"} => Now(c).to \in astray'
  PROVE  CacheInv'
<1>1. ASSUME NEW ip \in Lamps \ astray', Owed(Lit, calls, ip) PROVE Owed(Lit', calls', ip)
  <2>1. ~(c \in Lit /\ Owes(calls[c], ip))
    BY ONLY <1>1, c \in Lit /\ calls[c].pc \in {"cache", "query"} => Now(c).to \in astray'
       DEF Owes, Now
  <2>q. QED BY ONLY <1>1, <2>1, OwedStays, Put(c, r), c \in Calls
<1>q. QED BY ONLY <1>1, CacheKept, CacheInv, UNCHANGED <<cache, toLamp, fromLamp, guessed>>,
                  \A l \in Lamps : lamp'[l] = lamp[l], astray \subseteq astray'

LEMMA CacheLampTakes ==
  ASSUME Wires, CacheInv, NEW l \in Lamps, LampTakes(l)
  PROVE  CacheInv'
<1>0. /\ UNCHANGED <<cache, astray, guessed, calls>> /\ toLamp[l] # <<>>
      /\ toLamp' = [toLamp EXCEPT ![l] = Tail(@)] /\ toLamp[l] \in Seq(Packets)
      /\ fromLamp \in Seq(Reports) /\ toLamp \in [Lamps -> Seq(Packets)]
      /\ lamp \in [Lamps \cup HueIds -> LampStates]
  BY DEF LampTakes, requestVars, Wires
<1>1. PICK p : p = Head(toLamp[l])
  OBVIOUS
<1>2. p.kind \in {"order", "query", "scan"}
  BY ONLY <1>0, <1>1, TailOf DEF Packets
<1>3. PICK status : status = [kind |-> "devStatus", ip |-> l, state |-> lamp[l]]
  OBVIOUS
<1>4. PICK found : found = [kind |-> "scan", ip |-> l, state |-> lamp[l]]
  OBVIOUS
<1>5. status \in Reports /\ found \in Reports
  BY ONLY <1>0, <1>3, <1>4, l \in Lamps DEF Reports
<1>6. /\ p.kind = "order" => fromLamp' = fromLamp
      /\ p.kind = "query" => fromLamp' = Append(fromLamp, status)
      /\ p.kind = "scan" => fromLamp' = Append(fromLamp, found)
      /\ lamp' = IF p.kind = "order" THEN [lamp EXCEPT ![l] = Obeyed(p.order, @)] ELSE lamp
  BY ONLY LampTakes(l), <1>1, <1>3, <1>4, <1>2 DEF LampTakes
<1>7. SUFFICES ASSUME NEW ip \in Lamps, ip \notin astray,
                      Informed(toLamp[ip], fromLamp, lamp[ip], cache[ip], guessed, ip)
               PROVE  Informed(toLamp'[ip], fromLamp', lamp'[ip], cache[ip], guessed, ip)
  BY <1>0 DEF CacheInv, Lit
<1>8. ~Tells(found, ip)
  BY <1>4 DEF Tells
<1>9. CASE ip # l
  <2>1. toLamp'[ip] = toLamp[ip] /\ lamp'[ip] = lamp[ip]
    BY <1>0, <1>6, <1>9
  <2>2. ~Tells(status, ip)
    BY <1>3, <1>9 DEF Tells
  <2>3. /\ ToldIn(fromLamp, ip, lamp[ip]) => ToldIn(fromLamp', ip, lamp[ip])
        /\ Silent(fromLamp, ip) => Silent(fromLamp', ip)
    BY ONLY <1>0, <1>2, <1>5, <1>6, <1>8, <2>2, ReportSent
  <2>q. QED BY ONLY <1>7, <2>1, <2>3 DEF Informed
<1>10. CASE ip = l
  <2>1. toLamp'[ip] = Tail(toLamp[ip])
    BY <1>0, <1>10
  <2>2. PICK q : q = toLamp[ip]
    OBVIOUS
  <2>3. /\ AskedIn(q) => AskedIn(Tail(q)) \/ (p.kind = "query" /\ NoOrderIn(Tail(q)))
        /\ NoOrderIn(q) => NoOrderIn(Tail(q)) /\ p.kind # "order"
    BY ONLY <1>0, <1>1, <1>10, <2>2, PacketTaken
  <2>4. p.kind # "order" => lamp'[ip] = lamp[ip]
    BY ONLY <1>6
  <2>5. p.kind = "query" => ToldIn(fromLamp', ip, lamp[ip])
    <3>1. Tells(status, ip) /\ status.state = lamp[ip]
      BY ONLY <1>3, <1>10 DEF Tells
    <3>q. QED BY ONLY <1>0, <1>5, <1>6, <3>1, ReportSent
  <2>6. p.kind = "scan" => /\ ToldIn(fromLamp, ip, lamp[ip]) => ToldIn(fromLamp', ip, lamp[ip])
                           /\ Silent(fromLamp, ip) => Silent(fromLamp', ip)
    BY ONLY <1>0, <1>5, <1>6, <1>8, ReportSent
  <2>q. QED BY ONLY <1>2, <1>7, <2>1, <2>2, <2>3, <2>4, <2>5, <2>6 DEF Informed
<1>q. QED BY ONLY <1>9, <1>10

LEMMA CacheReceive ==
  ASSUME Wires, CacheInv, Receive
  PROVE  CacheInv'
<1>0. /\ UNCHANGED <<lamp, toLamp, astray, calls>> /\ fromLamp # <<>> /\ fromLamp' = Tail(fromLamp)
      /\ fromLamp \in Seq(Reports) /\ cache \in [Lamps -> LampStates]
  BY DEF Receive, requestVars, Wires
<1>1. PICK p : p = Head(fromLamp)
  OBVIOUS
<1>2. p.kind \in {"devStatus", "scan"} /\ p.ip \in Lamps
  <2>1. p \in Reports
    BY ONLY <1>0, <1>1, TailOf
  <2>q. QED BY ONLY <2>1 DEF Reports
<1>3. \/ p.kind = "devStatus" /\ cache' = [cache EXCEPT ![p.ip] = p.state]
         /\ guessed' = guessed \ {p.ip}
      \/ p.kind = "scan" /\ cache' = [cache EXCEPT ![p.ip] = NewEntry(FALSE)]
         /\ guessed' = guessed \cup {p.ip}
      \/ p.kind = "scan" /\ UNCHANGED <<cache, guessed>>
  <2>1. CASE p.kind = "devStatus"
    BY ONLY Receive, <1>1, <2>1 DEF Receive
  <2>2. CASE p.kind = "scan" /\ cache[p.ip] = Unknown
    BY ONLY Receive, <1>1, <2>2 DEF Receive
  <2>3. CASE p.kind = "scan" /\ cache[p.ip] # Unknown
    BY ONLY Receive, <1>1, <2>3 DEF Receive
  <2>q. QED BY ONLY <1>2, <2>1, <2>2, <2>3
<1>4. SUFFICES ASSUME NEW ip \in Lamps, ip \notin astray,
                      Informed(toLamp[ip], fromLamp, lamp[ip], cache[ip], guessed, ip)
               PROVE  Informed(toLamp[ip], Tail(fromLamp), lamp[ip], cache'[ip], guessed', ip)
  BY <1>0 DEF CacheInv, Lit
<1>5. PICK q, s : q = toLamp[ip] /\ s = lamp[ip]
  OBVIOUS
<1>6. /\ ToldIn(fromLamp, ip, s) => \/ ToldIn(Tail(fromLamp), ip, s)
                                    \/ Tells(p, ip) /\ p.state = s /\ Silent(Tail(fromLamp), ip)
      /\ Silent(fromLamp, ip) => Silent(Tail(fromLamp), ip) /\ ~Tells(p, ip)
  BY ONLY <1>0, <1>1, ReportTaken
<1>7. CASE AskedIn(q)
  BY ONLY <1>5, <1>7 DEF Informed
<1>8. CASE NoOrderIn(q) /\ ToldIn(fromLamp, ip, s)
  <2>1. Tells(p, ip) => cache'[ip] = p.state
    BY ONLY <1>0, <1>3, <1>4 DEF Tells
  <2>q. QED BY ONLY <1>5, <1>6, <1>8, <2>1 DEF Informed
<1>9. CASE NoOrderIn(q) /\ Silent(fromLamp, ip) /\ (cache[ip] \in {Unknown, s} \/ ip \in guessed)
  <2>1. cache'[ip] \in {Unknown, s} \/ ip \in guessed'
    <3>1. CASE p.ip # ip
      BY ONLY <1>0, <1>3, <1>9, <3>1
    <3>2. CASE p.ip = ip
      BY ONLY <1>0, <1>3, <1>6, <1>9, <3>2 DEF Tells
    <3>q. QED BY ONLY <3>1, <3>2
  <2>q. QED BY ONLY <1>5, <1>6, <1>9, <2>1 DEF Informed
<1>q. QED BY ONLY <1>4, <1>5, <1>7, <1>8, <1>9 DEF Informed

LEMMA CacheStep ==
  ASSUME Shaped, Wires, LitCalls, CacheInv, LightsNext
  PROVE  CacheInv'
<1>0. /\ toLamp \in [Lamps -> Seq(Packets)] /\ lamp \in [Lamps \cup HueIds -> LampStates]
      /\ cache \in [Lamps -> LampStates] /\ fromLamp \in Seq(Reports)
  BY DEF Wires
<1>1. ASSUME NEW c \in Calls, NEW r, Begin(c, r) \/ BeginLong(c, r, 2),
             UNCHANGED <<lamp, cache, toLamp, fromLamp, astray, guessed>>
      PROVE  CacheInv'
  <2>1. Put(c, r) /\ calls[c] = Idle
    BY ONLY <1>1, Puts, Shaped
  <2>2. c \notin Lit
    BY ONLY <2>1 DEF Lit, Idle
  <2>q. QED BY ONLY <1>1, <2>1, <2>2, CachePut, CacheInv
<1>2. ASSUME NEW c \in Calls, LightRequest(c) PROVE CacheInv'
  BY ONLY <1>1, <1>2 DEF LightRequest, Toggle, SetLight, AskStatus, lightVars
<1>3. ASSUME NEW c \in Calls, NEW ids, NEW orders, NEW final, Control(c, ids, orders, final)
      PROVE  CacheInv'
  BY ONLY <1>1, <1>3 DEF Control
<1>4. ASSUME NEW c \in Calls, NEW seen, TakeSnapshot(c, seen) PROVE CacheInv'
  <2>1. calls[c].op = "lights" /\ calls[c].pc = "snapshot"
        /\ UNCHANGED <<lamp, cache, toLamp, fromLamp, astray, guessed>>
        /\ \E todo : Proceed(c, [calls[c] EXCEPT !.passes = Tail(calls[c].passes), !.todo = todo])
    BY ONLY <1>4 DEF TakeSnapshot
  <2>2. \E r : Put(c, r)
    BY ONLY <2>1, Proceeds, Shaped, c \in Calls DEF Resumed
  <2>q. QED BY ONLY <2>1, <2>2, CachePut, CacheInv, c \in Calls
<1>5. ASSUME NEW c \in Calls, NEW p \in {"cache", "query"}, Goto(c, p), calls[c].op = "lights",
             calls[c].pc # "snapshot", UNCHANGED <<lamp, fromLamp, astray, guessed>>,
             \A ip \in Lamps : ip # Now(c).to => cache'[ip] = cache[ip] /\ toLamp'[ip] = toLamp[ip]
      PROVE  CacheInv'
  <2>2. PICK r : r = [calls[c] EXCEPT !.pc = p]
    OBVIOUS
  <2>3. LightSlot(calls[c]) /\ c \in Lit
    BY ONLY <1>5, LitSlots, Shaped
  <2>4. r.todo = calls[c].todo /\ r.op = "lights"
    BY ONLY <2>2, <2>3 DEF LightSlot
  <2>5. Put(c, r)
    BY ONLY <1>5, <2>2, Gotos, Shaped
  <2>7. r.pc \in {"cache", "query"}
    BY ONLY <2>2, <2>3, p \in {"cache", "query"} DEF LightSlot
  <2>6. ASSUME NEW ip \in Lamps, Owed(Lit, calls, ip) PROVE Owed(Lit', calls', ip)
    <3>1. Owes(calls[c], ip) => Owes(r, ip)
      BY ONLY <2>2, <2>4, <2>7 DEF Owes
    <3>q. QED BY ONLY <2>4, <2>5, <2>6, <3>1, OwedStays, c \in Calls
  <2>8. Owed(Lit', calls', Now(c).to)
    <3>1. Owes(r, Now(c).to)
      BY ONLY <2>4, <2>7 DEF Owes, Now
    <3>2. c \in Lit' /\ calls'[c] = r
      BY ONLY <2>4, <2>5, LitPut, c \in Calls
    <3>q. QED BY ONLY <3>1, <3>2 DEF Owed
  <2>9. ASSUME NEW ip \in Lamps, ip \notin astray, ~Owed(Lit', calls', ip)
        PROVE  Informed(toLamp'[ip], fromLamp, lamp[ip], cache'[ip], guessed, ip)
    <3>1. ip # Now(c).to
      BY ONLY <2>8, <2>9
    <3>q. QED BY ONLY <1>5, <2>6, <2>9, <3>1, CacheInv DEF CacheInv
  <2>q. QED BY ONLY <1>5, <2>9 DEF CacheInv
<1>6. ASSUME NEW c \in Calls, SendOrder(c) PROVE CacheInv'
  <2>1. /\ calls[c].op = "lights" /\ calls[c].pc # "snapshot" /\ Goto(c, "cache")
        /\ UNCHANGED <<lamp, cache, fromLamp, astray, guessed>>
        /\ \A ip \in Lamps : ip # Now(c).to => toLamp'[ip] = toLamp[ip]
    BY ONLY <1>0, <1>6 DEF SendOrder, At
  <2>q. QED BY ONLY <1>5, <1>6, <2>1
<1>7. ASSUME NEW c \in Calls, UpdateCache(c) PROVE CacheInv'
  <2>1. /\ calls[c].op = "lights" /\ calls[c].pc # "snapshot" /\ Goto(c, "query")
        /\ UNCHANGED <<lamp, toLamp, fromLamp, astray, guessed>>
        /\ \A ip \in Lamps : ip # Now(c).to => cache'[ip] = cache[ip]
    BY ONLY <1>0, <1>7 DEF UpdateCache, At
  <2>q. QED BY ONLY <1>5, <1>7, <2>1
<1>8. ASSUME NEW c \in Calls, calls[c].op = "lights", calls[c].pc # "snapshot",
             \/ Proceed(c, [calls[c] EXCEPT !.todo = Tail(@)])
             \/ Fail(c, Resume([calls[c] EXCEPT !.todo = Tail(@)]))
      PROVE  \E r : Put(c, r)
  <2>1. Resumed(c, calls[c].passes, Tail(calls[c].todo))
    BY ONLY <1>8, DoneTyped, Shaped, LitCalls
  <2>q. QED BY ONLY <2>1 DEF Resumed
<1>9. ASSUME NEW c \in Calls, QueryStatus(c) PROVE CacheInv'
  <2>1. /\ calls[c].op = "lights" /\ calls[c].pc = "query"
        /\ Proceed(c, [calls[c] EXCEPT !.todo = Tail(@)])
        /\ UNCHANGED <<lamp, cache, fromLamp>> /\ astray' = astray \ {Now(c).to}
        /\ guessed' = guessed \ {Now(c).to}
        /\ toLamp' = [toLamp EXCEPT ![Now(c).to] = Append(@, [kind |-> "query"])]
    BY ONLY <1>9 DEF QueryStatus, At
  <2>2. Now(c).to \in Lamps
    BY ONLY <1>9, <2>1, NowTyped, Shaped, LitCalls
  <2>3. AskedIn(toLamp'[Now(c).to])
    <3>1. PICK x : x = [kind |-> "query"]
      OBVIOUS
    <3>2. x \in Packets /\ x.kind = "query"
      BY ONLY <3>1 DEF Packets
    <3>3. toLamp'[Now(c).to] = Append(toLamp[Now(c).to], x)
      BY ONLY <1>0, <2>1, <2>2, <3>1
    <3>q. QED BY ONLY <1>0, <2>2, <3>2, <3>3, QueryAppended
  <2>4. SUFFICES ASSUME NEW ip \in Lamps, ip \notin astray',
                        ~Owed(Lit', calls', ip)
                 PROVE  Informed(toLamp'[ip], fromLamp, lamp[ip], cache[ip], guessed', ip)
    BY <2>1 DEF CacheInv
  <2>5. CASE ip = Now(c).to
    BY ONLY <2>3, <2>5 DEF Informed
  <2>6. CASE ip # Now(c).to
    <3>1. toLamp'[ip] = toLamp[ip] /\ (ip \in guessed' <=> ip \in guessed) /\ ip \notin astray
      BY ONLY <1>0, <2>1, <2>2, <2>4, <2>6
    <3>2. ~Owed(Lit, calls, ip)
      <4>1. \E r : Put(c, r)
        BY ONLY <1>8, <1>9, <2>1
      <4>2. ~Owes(calls[c], ip)
        BY ONLY <2>6 DEF Owes, Now
      <4>q. QED BY ONLY <1>9, <2>4, <4>1, <4>2, OwedStays
    <3>q. QED BY ONLY <2>4, <3>1, <3>2, CacheInv DEF CacheInv, Informed
  <2>q. QED BY ONLY <2>5, <2>6
<1>10. ASSUME NEW c \in Calls, NEW done, PostHue(c, done) \/ LandHue(c, done) PROVE CacheInv'
  <2>1. /\ calls[c].op = "lights" /\ calls[c].pc \in {"send", "adrift"} /\ AskHue(c, done)
        /\ Proceed(c, [calls[c] EXCEPT !.todo = Tail(@)]) \/ Return(c)
    BY ONLY <1>10 DEF PostHue, LandHue, At
  <2>2. Now(c).to \in HueIds
    BY ONLY <1>10, <2>1, NowTyped, Shaped, LitCalls DEF PostHue, LandHue, At
  <2>3. \A l \in Lamps : lamp'[l] = lamp[l]
    BY ONLY <1>0, <2>1, <2>2, LightAssumption DEF AskHue
  <2>4. \E r : Put(c, r)
    BY ONLY <1>8, <1>10, <2>1, Puts, Shaped
  <2>q. QED BY ONLY <1>10, <2>1, <2>3, <2>4, CachePut, CacheInv DEF AskHue
<1>13. ASSUME NEW c \in Calls, SendFails(c) PROVE CacheInv'
  <2>1. /\ calls[c].op = "lights" /\ calls[c].pc \in {"send", "query"}
        /\ Fail(c, Resume([calls[c] EXCEPT !.todo = Tail(@)]))
        /\ UNCHANGED <<lamp, cache, toLamp, fromLamp, guessed>> /\ astray \subseteq astray'
        /\ calls[c].pc = "query" => Now(c).to \in astray'
    BY ONLY <1>13 DEF SendFails, At
  <2>2. \E r : Put(c, r)
    BY ONLY <1>8, <1>13, <2>1
  <2>q. QED BY ONLY <1>13, <2>1, <2>2, CachePut, CacheInv
<1>14. ASSUME NEW c \in Calls, GiveUpLights(c) PROVE CacheInv'
  <2>1. /\ UNCHANGED <<lamp, cache, toLamp, fromLamp, guessed>> /\ astray \subseteq astray'
        /\ calls[c].pc \in {"cache", "query"} => Now(c).to \in astray'
    BY ONLY <1>14 DEF GiveUpLights, At
  <2>2. \E r : Put(c, r)
    BY ONLY <1>14, Dropped, Shaped, LitCalls
  <2>q. QED BY ONLY <1>14, <2>1, <2>2, CachePut, CacheInv
<1>11. ASSUME NEW l \in Lamps, Lose(l) PROVE CacheInv'
  <2>1. /\ UNCHANGED <<lamp, cache, guessed, calls>> /\ astray' = astray \cup {l}
        /\ \A ip \in Lamps : ip # l => toLamp'[ip] = toLamp[ip]
        /\ \/ UNCHANGED fromLamp
           \/ fromLamp # <<>> /\ Head(fromLamp).ip = l /\ fromLamp' = Tail(fromLamp)
    BY ONLY <1>0, <1>11 DEF Lose, Brief
  <2>2. SUFFICES ASSUME NEW ip \in Lamps, ip \notin astray, ip # l,
                        Informed(toLamp[ip], fromLamp, lamp[ip], cache[ip], guessed, ip)
                 PROVE  Informed(toLamp[ip], fromLamp', lamp[ip], cache[ip], guessed, ip)
    BY <2>1 DEF CacheInv, Lit
  <2>3. /\ ToldIn(fromLamp, ip, lamp[ip]) => ToldIn(fromLamp', ip, lamp[ip])
        /\ Silent(fromLamp, ip) => Silent(fromLamp', ip)
    <3>1. CASE fromLamp # <<>> /\ Head(fromLamp).ip = l /\ fromLamp' = Tail(fromLamp)
      <4>1. ~Tells(Head(fromLamp), ip)
        BY ONLY <2>2, <3>1 DEF Tells
      <4>q. QED BY ONLY <1>0, <3>1, <4>1, ReportTaken
    <3>q. QED BY ONLY <2>1, <3>1
  <2>q. QED BY ONLY <2>2, <2>3 DEF Informed
<1>12. ASSUME NEW l \in Lamps, Switch(l) PROVE CacheInv'
  <2>1. /\ UNCHANGED <<cache, toLamp, fromLamp, guessed, calls>> /\ astray' = astray \cup {l}
        /\ \A ip \in Lamps : ip # l => lamp'[ip] = lamp[ip]
    BY ONLY <1>0, <1>12 DEF Switch, Brief
  <2>q. QED BY ONLY <2>1, CacheInv DEF CacheInv, Lit
<1>q. QED
  BY ONLY <1>2, <1>3, <1>4, <1>6, <1>7, <1>9, <1>10, <1>11, <1>12, <1>13, <1>14, LightsNext,
          CacheReceive, CacheLampTakes, Wires, CacheInv
     DEF LightsNext, LightWorld, LightStep, GroupOrder, RoomScene, Scene

-----------------------------------------------------------------------------
(* Scenes: what an order does to an aspect                                 *)

LEMMA OrderMeets ==
  ASSUME NEW o \in LightOrders, NEW s \in LampStates, NEW g, NEW a \in Aspects
  PROVE  /\ Touches(o, a) /\ Meets(Obeyed(o, Unknown), g, a) => Meets(Obeyed(o, s), g, a)
         /\ ~Touches(o, a) /\ Meets(s, g, a) => Meets(Obeyed(o, s), g, a)
         /\ Touches(o, a) /\ Meets(Obeyed(o, Unknown), g, a) => HueMeets(HueObeyed(o, s), g, a)
         /\ ~Touches(o, a) /\ HueMeets(s, g, a) => HueMeets(HueObeyed(o, s), g, a)
<1>0. PICK u : u = Unknown
  OBVIOUS
<1>1. DOMAIN s = {"on", "level", "rgb", "kelvin"} /\ DOMAIN u = {"on", "level", "rgb", "kelvin"}
  BY <1>0 DEF LampStates, Unknown
<1>2. CASE o.do = "power"
  <2>1. PICK x, y : x = [s EXCEPT !.on = o.on] /\ y = [u EXCEPT !.on = o.on]
    OBVIOUS
  <2>2. Obeyed(o, s) = x /\ HueObeyed(o, s) = x /\ Obeyed(o, u) = y
    BY ONLY <1>2, <2>1 DEF Obeyed, HueObeyed
  <2>3. /\ x.on = o.on /\ y.on = o.on /\ x.level = s.level /\ x.rgb = s.rgb /\ x.kelvin = s.kelvin
    BY ONLY <1>1, <2>1
  <2>q. QED BY ONLY <1>0, <1>2, <2>2, <2>3, a \in Aspects DEF Aspects, Touches, Meets, HueMeets
<1>3. CASE o.do = "brightness"
  <2>1. PICK x, y, z : /\ x = [s EXCEPT !.on = TRUE, !.level = o.level]
                       /\ y = [u EXCEPT !.on = TRUE, !.level = o.level]
                       /\ z = [s EXCEPT !.on = TRUE, !.level = HueBri(o.level)]
    OBVIOUS
  <2>2. Obeyed(o, s) = x /\ HueObeyed(o, s) = z /\ Obeyed(o, u) = y
    BY ONLY <1>3, <2>1 DEF Obeyed, HueObeyed
  <2>3. /\ x.on = TRUE /\ x.level = o.level /\ x.rgb = s.rgb /\ x.kelvin = s.kelvin
        /\ y.on = TRUE /\ y.level = o.level
        /\ z.on = TRUE /\ z.level = HueBri(o.level) /\ z.rgb = s.rgb /\ z.kelvin = s.kelvin
    BY ONLY <1>1, <2>1
  <2>q. QED BY ONLY <1>0, <1>3, <2>2, <2>3, a \in Aspects DEF Aspects, Touches, Meets, HueMeets
<1>4. CASE o.do = "color"
  <2>1. PICK x, y, z : /\ x = [s EXCEPT !.on = TRUE, !.rgb = o.rgb, !.kelvin = 0]
                       /\ y = [u EXCEPT !.on = TRUE, !.rgb = o.rgb, !.kelvin = 0]
                       /\ z = [s EXCEPT !.on = TRUE]
    OBVIOUS
  <2>2. Obeyed(o, s) = x /\ HueObeyed(o, s) = z /\ Obeyed(o, u) = y
    BY ONLY <1>4, <2>1 DEF Obeyed, HueObeyed
  <2>3. /\ x.on = TRUE /\ x.level = s.level /\ x.rgb = o.rgb /\ x.kelvin = 0
        /\ y.on = TRUE /\ y.rgb = o.rgb /\ y.kelvin = 0
        /\ z.on = TRUE /\ z.level = s.level /\ z.rgb = s.rgb /\ z.kelvin = s.kelvin
    BY ONLY <1>1, <2>1
  <2>q. QED BY ONLY <1>0, <1>4, <2>2, <2>3, a \in Aspects DEF Aspects, Touches, Meets, HueMeets
<1>5. CASE o.do = "temp"
  <2>0. PICK ct : ct = HueCt(o.kelvin)
    OBVIOUS
  <2>1. PICK x, y, z : /\ x = [s EXCEPT !.on = TRUE, !.rgb = "black", !.kelvin = o.kelvin]
                       /\ y = [u EXCEPT !.on = TRUE, !.rgb = "black", !.kelvin = o.kelvin]
                       /\ z = [s EXCEPT !.on = TRUE, !.kelvin = ct]
    OBVIOUS
  <2>2. Obeyed(o, s) = x /\ HueObeyed(o, s) = z /\ Obeyed(o, u) = y
    BY ONLY <1>5, <2>0, <2>1 DEF Obeyed, HueObeyed
  <2>3. /\ x.on = TRUE /\ x.level = s.level /\ x.rgb = "black" /\ x.kelvin = o.kelvin
        /\ y.on = TRUE /\ y.rgb = "black" /\ y.kelvin = o.kelvin
        /\ z.on = TRUE /\ z.level = s.level /\ z.kelvin = ct
    BY ONLY <1>1, <2>1
  <2>q. QED BY ONLY <1>0, <1>5, <2>0, <2>2, <2>3, a \in Aspects DEF Aspects, Touches, Meets, HueMeets
<1>q. QED BY <1>2, <1>3, <1>4, <1>5, OrderKinds

\* A packet at the end of the wire.
LEMMA PacketAdded ==
  ASSUME NEW q \in Seq(Packets), NEW p \in Packets, NEW g, NEW s, NEW a
  PROVE  /\ Touching(p, a) /\ Meets(Obeyed(p.order, Unknown), g, a)
              => LampReached(g, Append(q, p), s, a)
         /\ ~Touching(p, a) /\ LampReached(g, q, s, a) => LampReached(g, Append(q, p), s, a)
<1>0. /\ Len(q) \in Nat /\ DOMAIN q = 1..Len(q) /\ DOMAIN Append(q, p) = 1..(Len(q) + 1)
      /\ Append(q, p)[Len(q) + 1] = p /\ \A i \in DOMAIN q : Append(q, p)[i] = q[i]
  BY AppendsTo
<1>1. ASSUME Touching(p, a), Meets(Obeyed(p.order, Unknown), g, a)
      PROVE  Will(Append(q, p), g, a)
  BY ONLY <1>0, <1>1 DEF Will
<1>2. ASSUME ~Touching(p, a), NEW j \in DOMAIN q, Touching(q[j], a),
             Meets(Obeyed(q[j].order, Unknown), g, a), \A k \in DOMAIN q : k > j => ~Touching(q[k], a)
      PROVE  Will(Append(q, p), g, a)
  <2>1. j \in DOMAIN Append(q, p) /\ Append(q, p)[j] = q[j]
    BY ONLY <1>0, <1>2
  <2>2. \A k \in DOMAIN Append(q, p) : k > j => ~Touching(Append(q, p)[k], a)
    BY ONLY <1>0, <1>2
  <2>q. QED BY ONLY <1>2, <2>1, <2>2 DEF Will
<1>3. ASSUME ~Touching(p, a), Untouched(q, a) PROVE Untouched(Append(q, p), a)
  BY ONLY <1>0, <1>3 DEF Untouched
<1>q. QED BY ONLY <1>1, <1>2, <1>3 DEF LampReached, Will

\* The packet at its head is taken.
LEMMA PacketObeyed ==
  ASSUME NEW q \in Seq(Packets), q # <<>>, NEW g, NEW s \in LampStates, NEW a \in Aspects,
         LampReached(g, q, s, a)
  PROVE  LET p == Head(q)
         IN  LampReached(g, Tail(q), IF p.kind = "order" THEN Obeyed(p.order, s) ELSE s, a)
<1>0. /\ Head(q) = q[1] /\ 1 \in DOMAIN q /\ Len(q) \in Nat /\ DOMAIN q = 1..Len(q)
      /\ DOMAIN Tail(q) = 1..(Len(q) - 1) /\ Head(q) \in Packets
      /\ \A i \in DOMAIN Tail(q) : Tail(q)[i] = q[i + 1]
  BY TailOf
<1>1. PICK p : p = Head(q)
  OBVIOUS
<1>2. PICK t : t = IF p.kind = "order" THEN Obeyed(p.order, s) ELSE s
  OBVIOUS
<1>3. p.kind = "order" => p.order \in LightOrders
  BY ONLY <1>0, <1>1 DEF Packets
<1>4. /\ Touching(p, a) /\ Meets(Obeyed(p.order, Unknown), g, a) => Meets(t, g, a)
      /\ ~Touching(p, a) /\ Meets(s, g, a) => Meets(t, g, a)
  BY ONLY <1>2, <1>3, OrderMeets, s \in LampStates, a \in Aspects DEF Touching
<1>5. ASSUME Untouched(q, a), Meets(s, g, a) PROVE LampReached(g, Tail(q), t, a)
  <2>1. Untouched(Tail(q), a) /\ ~Touching(p, a)
    BY ONLY <1>0, <1>1, <1>5 DEF Untouched
  <2>q. QED BY ONLY <1>4, <1>5, <2>1 DEF LampReached
<1>6. ASSUME NEW j \in DOMAIN q, Touching(q[j], a), Meets(Obeyed(q[j].order, Unknown), g, a),
             \A k \in DOMAIN q : k > j => ~Touching(q[k], a)
      PROVE  LampReached(g, Tail(q), t, a)
  <2>1. CASE j = 1
    <3>1. Untouched(Tail(q), a)
      BY ONLY <1>0, <1>6, <2>1 DEF Untouched
    <3>q. QED BY ONLY <1>0, <1>1, <1>4, <1>6, <2>1, <3>1 DEF LampReached
  <2>2. CASE j # 1
    <3>1. j - 1 \in DOMAIN Tail(q) /\ Tail(q)[j - 1] = q[j]
      BY ONLY <1>0, <1>6, <2>2
    <3>2. \A k \in DOMAIN Tail(q) : k > j - 1 => ~Touching(Tail(q)[k], a)
      BY ONLY <1>0, <1>6, <2>2
    <3>3. Will(Tail(q), g, a)
      BY ONLY <1>6, <3>1, <3>2 DEF Will
    <3>q. QED BY ONLY <3>3 DEF LampReached
  <2>q. QED BY ONLY <2>1, <2>2
<1>q. QED BY ONLY <1>1, <1>2, <1>5, <1>6, LampReached(g, q, s, a) DEF LampReached, Will

-----------------------------------------------------------------------------
(* Scenes: what they want                                                  *)

LEMMA SceneWanted ==
  ASSUME NEW scene \in {"all_off", "all_on", "relax", "focus", "night", "cinema"}, NEW ids, NEW g,
         g = Wanted(ids, Passes(scene))
  PROVE  /\ g.ids = ids /\ (g.kelvin # 0 => g.rgb # "none")
         /\ \A p \in DOMAIN Passes(scene) : Right(g, Passes(scene)[p])
         /\ \A a \in Aspects : Aims(g, a) =>
              \E p \in DOMAIN Passes(scene) : Touches(Passes(scene)[p], a)
<1>0. PICK orders : orders = Passes(scene)
  OBVIOUS
<1>1. /\ g.ids = ids /\ g.on = (\A i \in DOMAIN orders : orders[i] # Power(FALSE))
      /\ g.level = LET told == {i \in DOMAIN orders : orders[i].do \in {"brightness"}}
                   IN  IF told = {} THEN 0 ELSE Obeyed(orders[CHOOSE i \in told : TRUE], Unknown).level
      /\ LET told == {i \in DOMAIN orders : orders[i].do \in {"color", "temp"}}
             tone == IF told = {} THEN Unknown ELSE Obeyed(orders[CHOOSE i \in told : TRUE], Unknown)
         IN  g.rgb = tone.rgb /\ g.kelvin = tone.kelvin
  BY <1>0 DEF Wanted
<1>2. Unknown.on = FALSE /\ Unknown.level = 0 /\ Unknown.rgb = "none" /\ Unknown.kelvin = 0
  BY DEF Unknown
<1>3. CASE orders = <<Power(FALSE)>>
  <2>1. DOMAIN orders = {1} /\ orders[1] = Power(FALSE)
    BY ONLY <1>3
  <2>2. orders[1].do = "power" /\ orders[1].on = FALSE
    BY ONLY <2>1 DEF Power
  <2>3. g.on = FALSE /\ g.level = 0 /\ g.rgb = "none" /\ g.kelvin = 0
    BY ONLY <1>1, <1>2, <2>1, <2>2
  <2>4. Obeyed(orders[1], Unknown).on = FALSE /\ Accepted(orders[1]) = orders[1]
    BY ONLY <2>2 DEF Obeyed, Unknown, Accepted
  <2>5. Right(g, orders[1])
    BY ONLY <2>2, <2>3, <2>4 DEF Right, Aspects, Aims, Touches, Meets
  <2>6. \A a \in Aspects : Aims(g, a) => Touches(orders[1], a)
    BY ONLY <2>3 DEF Aspects, Aims, Touches
  <2>q. QED BY ONLY <1>0, <1>1, <2>1, <2>3, <2>5, <2>6
<1>4. ASSUME NEW b \in Percents, NEW t \in Tints, orders = LitTo(b, t)
      PROVE  /\ g.kelvin # 0 => g.rgb # "none"
             /\ \A p \in DOMAIN orders : Right(g, orders[p])
             /\ \A a \in Aspects : Aims(g, a) => \E p \in DOMAIN orders : Touches(orders[p], a)
  <2>1. DOMAIN orders = {1, 2, 3} /\ orders[1] = Power(TRUE) /\ orders[2] = Brightness(b) /\ orders[3] = t
    BY ONLY <1>4 DEF LitTo
  <2>2. /\ orders[1].do = "power" /\ orders[1].on = TRUE
        /\ orders[2].do = "brightness" /\ orders[2].level = b
        /\ orders[3].do \in {"color", "temp"}
    BY ONLY <1>4, <2>1 DEF Power, Brightness, Tints, Color, Temp
  <2>3. g.on = TRUE
    BY ONLY <1>1, <2>1, <2>2 DEF Power
  <2>4. g.level = b
    <3>1. {i \in DOMAIN orders : orders[i].do \in {"brightness"}} = {2}
      BY ONLY <2>1, <2>2
    <3>2. g.level = Obeyed(orders[2], Unknown).level
      BY ONLY <1>1, <3>1
    <3>q. QED BY ONLY <2>2, <3>2 DEF Obeyed, Unknown
  <2>5. g.rgb = Obeyed(orders[3], Unknown).rgb /\ g.kelvin = Obeyed(orders[3], Unknown).kelvin
    <3>1. {i \in DOMAIN orders : orders[i].do \in {"color", "temp"}} = {3}
      BY ONLY <2>1, <2>2
    <3>q. QED BY ONLY <1>1, <3>1
  <2>6. Right(g, orders[1])
    <3>1. Obeyed(orders[1], Unknown).on = TRUE /\ Accepted(orders[1]) = orders[1]
      BY ONLY <2>2 DEF Obeyed, Unknown, Accepted
    <3>q. QED BY ONLY <2>2, <2>3, <3>1 DEF Right, Aspects, Aims, Touches, Meets
  <2>7. Right(g, orders[2])
    <3>1. Obeyed(orders[2], Unknown).on = TRUE /\ Obeyed(orders[2], Unknown).level = b
      BY ONLY <2>2 DEF Obeyed, Unknown
    <3>2. Clamp(b, 1, 100) = b
      BY ONLY <1>4, SMT DEF Percents, Clamp
    <3>3. Accepted(orders[2]) = orders[2]
      BY ONLY <2>1, <2>2, <3>2 DEF Accepted
    <3>q. QED BY ONLY <2>2, <2>3, <2>4, <3>1, <3>3 DEF Right, Aspects, Aims, Touches, Meets
  <2>8. Right(g, orders[3])
    <3>1. Obeyed(orders[3], Unknown).on = TRUE
      BY ONLY <2>2 DEF Obeyed, Unknown
    <3>2. CASE t = Color("blue")
      <4>1. Accepted(t) = t
        BY ONLY <3>2 DEF Accepted, Color
      <4>q. QED BY ONLY <2>1, <2>2, <2>3, <2>5, <3>1, <4>1 DEF Right, Aspects, Aims, Touches, Meets
    <3>3. ASSUME NEW k \in Warmths, t = Temp(k) PROVE Right(g, orders[3])
      <4>1. Clamp(k, 2000, 9000) = k
        BY ONLY <3>3, SMT DEF Warmths, Clamp
      <4>2. t.do = "temp" /\ t.kelvin = k
        BY ONLY <3>3 DEF Temp
      <4>3. Accepted(t) = t
        BY ONLY <3>3, <4>1, <4>2, SMT DEF Accepted
      <4>q. QED BY ONLY <2>1, <2>2, <2>3, <2>5, <3>1, <4>3 DEF Right, Aspects, Aims, Touches, Meets
    <3>q. QED BY ONLY <1>4, <3>2, <3>3 DEF Tints
  <2>9. g.rgb # "none"
    <3>1. CASE t = Color("blue")
      <4>1. t.do = "color" /\ t.rgb = "blue"
        BY ONLY <3>1 DEF Color
      <4>2. Obeyed(t, Unknown).rgb = "blue"
        BY ONLY <4>1 DEF Obeyed, Unknown
      <4>q. QED BY ONLY <2>1, <2>5, <4>2
    <3>2. ASSUME NEW k \in Warmths, t = Temp(k) PROVE g.rgb # "none"
      <4>1. t.do = "temp"
        BY ONLY <3>2 DEF Temp
      <4>2. Obeyed(t, Unknown).rgb = "black"
        BY ONLY <4>1 DEF Obeyed, Unknown
      <4>q. QED BY ONLY <2>1, <2>5, <4>2
    <3>q. QED BY ONLY <1>4, <3>1, <3>2 DEF Tints
  <2>10. /\ Touches(orders[1], "on") /\ Touches(orders[2], "level") /\ Touches(orders[3], "tone")
    BY ONLY <2>2 DEF Touches
  <2>q. QED BY ONLY <2>1, <2>6, <2>7, <2>8, <2>9, <2>10 DEF Aspects
<1>q. QED BY ONLY <1>0, <1>1, <1>3, <1>4, ScenePasses,
          scene \in {"all_off", "all_on", "relax", "focus", "night", "cinema"}

-----------------------------------------------------------------------------
(* Scenes: what the requests have still to do                              *)

LEMMA ComingStays ==
  ASSUME NEW c \in Calls, NEW r, Put(c, r), NEW l, NEW a, ComingTo(Lit, calls, l, a),
         c \in Lit /\ Coming(calls[c], l, a) => r.op = "lights" /\ Coming(r, l, a)
  PROVE  ComingTo(Lit', calls', l, a)
<1>1. PICK e \in Lit : Coming(calls[e], l, a)
  BY DEF ComingTo
<1>2. CASE e = c
  <2>1. c \in Lit' /\ calls'[c] = r /\ Coming(r, l, a)
    BY <1>1, <1>2, LitPut
  <2>q. QED BY ONLY <2>1 DEF ComingTo
<1>3. CASE e # c
  <2>1. e \in Lit' /\ calls'[e] = calls[e]
    BY <1>1, <1>3, LitPut
  <2>q. QED BY ONLY <1>1, <2>1 DEF ComingTo
<1>q. QED BY <1>2, <1>3

LEMMA PassingStays ==
  ASSUME NEW c \in Calls, NEW r, Put(c, r), NEW ids, NEW a, PassingBy(Lit, calls, ids, a),
         c \in Lit /\ Passing(calls[c], ids, a) => r.op = "lights" /\ Passing(r, ids, a)
  PROVE  PassingBy(Lit', calls', ids, a)
<1>1. PICK e \in Lit : Passing(calls[e], ids, a)
  BY DEF PassingBy
<1>2. CASE e = c
  <2>1. c \in Lit' /\ calls'[c] = r /\ Passing(r, ids, a)
    BY <1>1, <1>2, LitPut
  <2>q. QED BY ONLY <2>1 DEF PassingBy
<1>3. CASE e # c
  <2>1. e \in Lit' /\ calls'[e] = calls[e]
    BY <1>1, <1>3, LitPut
  <2>q. QED BY ONLY <1>1, <2>1 DEF PassingBy
<1>q. QED BY <1>2, <1>3

LEMMA RightStays ==
  ASSUME NEW g, \A c \in Lit : RightCall(g, calls[c]), NEW c \in Calls, NEW r, Put(c, r),
         r.op = "lights" => RightCall(g, r)
  PROVE  \A e \in Lit' : RightCall(g, calls'[e])
<1>1. SUFFICES ASSUME NEW e \in Lit' PROVE RightCall(g, calls'[e])
  OBVIOUS
<1>2. CASE e = c
  BY <1>1, <1>2, LitPut
<1>3. CASE e # c
  <2>1. e \in Lit /\ calls'[e] = calls[e]
    BY <1>1, <1>3, LitPut
  <2>q. QED BY <2>1
<1>q. QED BY <1>2, <1>3

\* An errand is done: only what it told is no longer to come.
LEMMA ErrandDone ==
  ASSUME Shaped, LitCalls, NEW c \in Calls, calls[c].op = "lights", calls[c].pc \in {"send", "query"},
         \/ Proceed(c, [calls[c] EXCEPT !.todo = Tail(@)])
         \/ Fail(c, Resume([calls[c] EXCEPT !.todo = Tail(@)])),
         NEW g, \A e \in Lit : RightCall(g, calls[e])
  PROVE  /\ \A e \in Lit' : RightCall(g, calls'[e])
         /\ \A ids, a : PassingBy(Lit, calls, ids, a) => PassingBy(Lit', calls', ids, a)
         /\ \A l, a : ComingTo(Lit, calls, l, a) =>
              \/ ComingTo(Lit', calls', l, a)
              \/ calls[c].pc = "send" /\ Now(c).to = l /\ Touches(Now(c).order, a)
<1>1. PICK todo : todo = calls[c].todo
  OBVIOUS
<1>2. /\ todo \in Seq(Errands) /\ todo # <<>> /\ Now(c) = todo[1]
  BY <1>1, NowTyped
<1>3. Resumed(c, calls[c].passes, Tail(todo)) /\ c \in Lit
  BY <1>1, DoneTyped, LitSlots
<1>4. /\ Len(todo) \in Nat /\ DOMAIN todo = 1..Len(todo) /\ DOMAIN Tail(todo) = 1..(Len(todo) - 1)
      /\ \A k \in DOMAIN Tail(todo) : Tail(todo)[k] = todo[k + 1]
  BY ONLY <1>2, TailOf
<1>5. /\ \A k \in DOMAIN todo : k > 1 => k - 1 \in DOMAIN Tail(todo) /\ Tail(todo)[k - 1] = todo[k]
      /\ \A k \in DOMAIN Tail(todo) : k + 1 \in DOMAIN todo /\ k + 1 > 1 /\ Tail(todo)[k] = todo[k + 1]
  BY ONLY <1>4
<1>6. ASSUME NEW l, NEW a, Coming(calls[c], l, a),
             ~(calls[c].pc = "send" /\ Now(c).to = l /\ Touches(Now(c).order, a))
      PROVE  \E k \in DOMAIN Tail(todo) : Tail(todo)[k].to = l /\ Touches(Tail(todo)[k].order, a)
  <2>1. PICK k \in DOMAIN todo : /\ k > 1 \/ calls[c].pc = "send"
                                 /\ todo[k].to = l /\ Touches(todo[k].order, a)
    BY ONLY <1>1, <1>6 DEF Coming, Unsent
  <2>2. k > 1
    BY ONLY <1>2, <1>4, <1>6, <2>1
  <2>q. QED BY ONLY <1>5, <2>1, <2>2
<1>7. CASE Put(c, Idle) /\ calls[c].passes = <<>> /\ Tail(todo) = <<>>
  <2>1. \A e \in Lit' : RightCall(g, calls'[e])
    BY <1>7, RightStays DEF Idle
  <2>2. ASSUME NEW ids, NEW a, PassingBy(Lit, calls, ids, a) PROVE PassingBy(Lit', calls', ids, a)
    <3>1. ~Passing(calls[c], ids, a)
      BY ONLY <1>7 DEF Passing
    <3>q. QED BY ONLY <1>7, <2>2, <3>1, PassingStays, c \in Calls
  <2>3. ASSUME NEW l, NEW a, ComingTo(Lit, calls, l, a),
               ~(calls[c].pc = "send" /\ Now(c).to = l /\ Touches(Now(c).order, a))
        PROVE  ComingTo(Lit', calls', l, a)
    <3>1. ~Coming(calls[c], l, a)
      BY ONLY <1>6, <1>7, <2>3
    <3>q. QED BY ONLY <1>7, <2>3, <3>1, ComingStays, c \in Calls
  <2>q. QED BY ONLY <2>1, <2>2, <2>3
<1>8. ASSUME NEW r, Put(c, r), r.op = "lights", r.ids = calls[c].ids, r.passes = calls[c].passes,
             r.todo = Tail(todo), Tail(todo) # <<>> => r.pc = "send", r.pc # "adrift"
      PROVE  /\ \A e \in Lit' : RightCall(g, calls'[e])
             /\ \A ids, a : PassingBy(Lit, calls, ids, a) => PassingBy(Lit', calls', ids, a)
             /\ \A l, a : ComingTo(Lit, calls, l, a) =>
                  \/ ComingTo(Lit', calls', l, a)
                  \/ calls[c].pc = "send" /\ Now(c).to = l /\ Touches(Now(c).order, a)
  <2>1. RightCall(g, r)
    <3>1. RightCall(g, calls[c])
      BY <1>3
    <3>2. \A k \in DOMAIN Tail(todo) : Right(g, Tail(todo)[k].order)
      BY ONLY <1>1, <1>5, <3>1 DEF RightCall, Unsent
    <3>q. QED BY ONLY <1>8, <3>1, <3>2 DEF RightCall, Unsent
  <2>2. \A e \in Lit' : RightCall(g, calls'[e])
    BY <1>8, <2>1, RightStays
  <2>3. ASSUME NEW ids, NEW a, PassingBy(Lit, calls, ids, a) PROVE PassingBy(Lit', calls', ids, a)
    <3>1. Passing(calls[c], ids, a) => Passing(r, ids, a)
      BY ONLY <1>8 DEF Passing
    <3>q. QED BY ONLY <1>8, <2>3, <3>1, PassingStays, c \in Calls
  <2>4. ASSUME NEW l, NEW a, ComingTo(Lit, calls, l, a),
               ~(calls[c].pc = "send" /\ Now(c).to = l /\ Touches(Now(c).order, a))
        PROVE  ComingTo(Lit', calls', l, a)
    <3>1. Coming(calls[c], l, a) => Coming(r, l, a)
      <4>1. SUFFICES ASSUME Coming(calls[c], l, a) PROVE Coming(r, l, a)
        OBVIOUS
      <4>2. PICK k \in DOMAIN Tail(todo) : Tail(todo)[k].to = l /\ Touches(Tail(todo)[k].order, a)
        BY ONLY <1>6, <2>4, <4>1
      <4>3. r.pc = "send"
        BY ONLY <1>8, <4>2
      <4>q. QED BY ONLY <1>8, <4>2, <4>3 DEF Coming, Unsent
    <3>q. QED BY ONLY <1>8, <2>4, <3>1, ComingStays, c \in Calls
  <2>q. QED BY ONLY <2>2, <2>3, <2>4
<1>q. QED BY ONLY <1>3, <1>7, <1>8 DEF Resumed

LEMMA SceneStays ==
  ASSUME SceneInv, goal # NoGoal, goal' = goal,
         \A c \in Lit' : RightCall(goal, calls'[c]),
         \A a \in Aspects : PassingBy(Lit, calls, goal.ids, a) => PassingBy(Lit', calls', goal.ids, a),
         \A l \in HueIds : \A a \in Aspects :
           Aims(goal, a) /\ HueGood(Lit, calls, goal, lamp[l], l, a)
             => HueGood(Lit', calls', goal, lamp'[l], l, a),
         \A l \in Lamps : \A a \in Aspects :
           Aims(goal, a) /\ LampGood(Lit, calls, goal, toLamp[l], lamp[l], l, a)
             => LampGood(Lit', calls', goal, toLamp'[l], lamp'[l], l, a)
  PROVE  SceneInv'
<1>1. /\ goal.kelvin # 0 => goal.rgb # "none"
      /\ \A i \in DOMAIN Devices : \A a \in Aspects :
           LET d == Devices[i] IN
           d.id \in goal.ids /\ Aims(goal, a) =>
             \/ PassingBy(Lit, calls, goal.ids, a)
             \/ /\ d.hue => HueGood(Lit, calls, goal, lamp[d.id], d.id, a)
                /\ ~d.hue /\ d.ip \in Lamps =>
                     LampGood(Lit, calls, goal, toLamp[d.ip], lamp[d.ip], d.ip, a)
  BY DEF SceneInv
<1>2. ASSUME NEW i \in DOMAIN Devices, NEW a \in Aspects, NEW d, d = Devices[i],
             d.id \in goal.ids, Aims(goal, a)
      PROVE  \/ PassingBy(Lit', calls', goal.ids, a)
             \/ /\ d.hue => HueGood(Lit', calls', goal, lamp'[d.id], d.id, a)
                /\ ~d.hue /\ d.ip \in Lamps =>
                     LampGood(Lit', calls', goal, toLamp'[d.ip], lamp'[d.ip], d.ip, a)
  <2>1. d.hue => d.id \in HueIds
    BY ONLY <1>2 DEF HueIds
  <2>2. \/ PassingBy(Lit, calls, goal.ids, a)
        \/ /\ d.hue => HueGood(Lit, calls, goal, lamp[d.id], d.id, a)
           /\ ~d.hue /\ d.ip \in Lamps =>
                LampGood(Lit, calls, goal, toLamp[d.ip], lamp[d.ip], d.ip, a)
    BY ONLY <1>1, <1>2
  <2>q. QED BY <1>2, <2>1, <2>2
<1>q. QED BY <1>1, <1>2 DEF SceneInv

\* The lamps and what is on its way to them are left alone.
LEMMA SceneKept ==
  ASSUME SceneInv, UNCHANGED <<goal, lamp, toLamp>>, goal # NoGoal,
         \A c \in Lit' : RightCall(goal, calls'[c]),
         \A a \in Aspects : PassingBy(Lit, calls, goal.ids, a) => PassingBy(Lit', calls', goal.ids, a),
         \A l, a : ComingTo(Lit, calls, l, a) => ComingTo(Lit', calls', l, a)
  PROVE  SceneInv'
BY SceneStays DEF HueGood, LampGood

\* So is what the requests have still to do.
LEMMA SceneWires ==
  ASSUME SceneInv, goal' = goal, UNCHANGED calls,
         goal # NoGoal => \A l \in HueIds : lamp'[l] = lamp[l],
         goal # NoGoal => \A l \in Lamps : \A a \in Aspects :
           LampReached(goal, toLamp[l], lamp[l], a) => LampReached(goal, toLamp'[l], lamp'[l], a)
  PROVE  SceneInv'
<1>1. CASE goal = NoGoal
  BY <1>1 DEF SceneInv
<1>2. CASE goal # NoGoal
  <2>1. Lit' = Lit
    BY DEF Lit
  <2>2. \A c \in Lit' : RightCall(goal, calls'[c])
    BY <1>2, <2>1 DEF SceneInv
  <2>q. QED BY <1>2, <2>1, <2>2, SceneStays DEF HueGood, LampGood
<1>q. QED BY <1>1, <1>2

\* A slot that no light request is in is given to another request.
LEMMA SceneApart ==
  ASSUME SceneInv, UNCHANGED <<goal, lamp, toLamp>>, NEW c \in Calls, c \notin Lit, NEW r, Put(c, r),
         r.op = "lights" => \A g : RightCall(g, r)
  PROVE  SceneInv'
<1>1. CASE goal = NoGoal
  BY <1>1 DEF SceneInv
<1>2. CASE goal # NoGoal
  <2>1. \A e \in Lit : RightCall(goal, calls[e])
    BY <1>2 DEF SceneInv
  <2>2. \A e \in Lit' : RightCall(goal, calls'[e])
    BY ONLY <2>1, RightStays, Put(c, r), c \in Calls, r.op = "lights" => \A g : RightCall(g, r)
  <2>3. \A a : PassingBy(Lit, calls, goal.ids, a) => PassingBy(Lit', calls', goal.ids, a)
    BY ONLY PassingStays, Put(c, r), c \in Calls, c \notin Lit
  <2>4. \A l, a : ComingTo(Lit, calls, l, a) => ComingTo(Lit', calls', l, a)
    BY ONLY ComingStays, Put(c, r), c \in Calls, c \notin Lit
  <2>q. QED BY <1>2, <2>2, <2>3, <2>4, SceneKept
<1>q. QED BY <1>1, <1>2

-----------------------------------------------------------------------------
(* Scenes: the steps                                                       *)

LEMMA SceneSnapshot ==
  ASSUME Shaped, LitCalls, SceneInv, goal # NoGoal, NEW c \in Calls, TakeSnapshot(c, TRUE)
  PROVE  SceneInv'
<1>0. /\ goal' = goal /\ UNCHANGED <<lamp, toLamp>> /\ calls[c].op = "lights"
      /\ calls[c].pc = "snapshot"
  BY DEF TakeSnapshot
<1>1. c \in Lit /\ LightCall(calls[c])
  BY <1>0, LitSlots DEF LitCalls
<1>2. /\ calls[c].passes \in Seq(LightOrders) /\ calls[c].passes # <<>> /\ calls[c].todo = <<>>
  BY ONLY <1>0, <1>1 DEF LightCall
<1>3. PICK passes : passes = calls[c].passes
  OBVIOUS
<1>4. PICK o : o = Head(passes)
  OBVIOUS
<1>5. /\ o \in LightOrders /\ o = passes[1] /\ 1 \in DOMAIN passes
      /\ Len(passes) \in Nat /\ DOMAIN passes = 1..Len(passes)
      /\ DOMAIN Tail(passes) = 1..(Len(passes) - 1)
      /\ \A k \in DOMAIN Tail(passes) : Tail(passes)[k] = passes[k + 1]
  BY ONLY <1>2, <1>3, <1>4, TailOf
<1>6. \A p \in DOMAIN passes : Right(goal, passes[p])
  BY <1>1, <1>3 DEF SceneInv, RightCall
<1>7. Accepted(o) = o /\ Right(goal, o)
  BY ONLY <1>5, <1>6 DEF Right
<1>8. PICK S : S = {e \in Errands : Right(goal, e.order)}
  OBVIOUS
<1>9. ASSUME NEW i \in DOMAIN Devices
      PROVE  LET d == Devices[i] IN
               /\ d.ip # NoIp => [to |-> d.ip, order |-> Accepted(o)] \in S
               /\ d.net # NoIp => [to |-> d.net, order |-> Accepted(o)] \in S
               /\ d.hue => [to |-> d.id, order |-> o] \in S
  BY ONLY <1>5, <1>7, <1>8, <1>9, StepsTyped
<1>10. PICK todo \in Seq(S) :
         /\ Resumed(c, Tail(passes), todo)
         /\ \A i \in DOMAIN Devices : Devices[i].id \in calls[c].ids =>
              Within(StepsFor(Devices[i], o, TRUE), todo)
  BY ONLY <1>3, <1>4, <1>9, SnapshotSteps, Shaped, c \in Calls, TakeSnapshot(c, TRUE)
<1>11. \A k \in DOMAIN todo : Right(goal, todo[k].order)
  <2>1. \A k \in DOMAIN todo : todo[k] \in S
    OBVIOUS
  <2>q. QED BY ONLY <1>8, <2>1
<1>12. \A l, a : ~Coming(calls[c], l, a)
  BY ONLY <1>2 DEF Coming, Unsent
<1>13. /\ \A k \in DOMAIN passes : k = 1 \/ (k - 1 \in DOMAIN Tail(passes) /\ Tail(passes)[k - 1] = passes[k])
       /\ \A k \in DOMAIN Tail(passes) : k + 1 \in DOMAIN passes /\ Tail(passes)[k] = passes[k + 1]
  BY ONLY <1>5
<1>14. /\ goal.kelvin # 0 => goal.rgb # "none"
       /\ \A e \in Lit : RightCall(goal, calls[e])
       /\ \A i \in DOMAIN Devices : \A a \in Aspects :
            LET d == Devices[i] IN
            d.id \in goal.ids /\ Aims(goal, a) =>
              \/ PassingBy(Lit, calls, goal.ids, a)
              \/ /\ d.hue => HueGood(Lit, calls, goal, lamp[d.id], d.id, a)
                 /\ ~d.hue /\ d.ip \in Lamps =>
                      LampGood(Lit, calls, goal, toLamp[d.ip], lamp[d.ip], d.ip, a)
  BY DEF SceneInv
\* The request goes on to r, or ends.
<1>15. PICK r : /\ Put(c, r)
                /\ \/ r = Idle /\ Tail(passes) = <<>> /\ todo = <<>>
                   \/ /\ r.op = "lights" /\ r.ids = calls[c].ids /\ r.passes = Tail(passes)
                      /\ r.todo = todo /\ (todo # <<>> => r.pc = "send") /\ r.pc # "adrift"
  BY ONLY <1>10 DEF Resumed
<1>16. \A e \in Lit' : RightCall(goal, calls'[e])
  <2>1. r.op = "lights" => RightCall(goal, r)
    <3>1. SUFFICES ASSUME r.op = "lights" PROVE RightCall(goal, r)
      OBVIOUS
    <3>2. r.passes = Tail(passes) /\ r.todo = todo /\ r.pc # "adrift"
      BY ONLY <1>15, <3>1 DEF Idle
    <3>3. \A k \in DOMAIN Tail(passes) : Right(goal, Tail(passes)[k])
      BY ONLY <1>6, <1>13
    <3>q. QED BY ONLY <1>11, <3>2, <3>3 DEF RightCall, Unsent
  <2>q. QED BY ONLY <1>14, <1>15, <2>1, RightStays, c \in Calls
<1>17. ASSUME NEW l, NEW a, ComingTo(Lit, calls, l, a) PROVE ComingTo(Lit', calls', l, a)
  BY ONLY <1>12, <1>15, <1>17, ComingStays, c \in Calls
<1>18. ASSUME NEW k \in DOMAIN todo, NEW a, Touches(todo[k].order, a)
       PROVE  ComingTo(Lit', calls', todo[k].to, a)
  <2>1. todo # <<>>
    BY ONLY <1>18
  <2>2. r.op = "lights" /\ r.todo = todo /\ r.pc = "send"
    BY ONLY <1>15, <2>1
  <2>3. Coming(r, todo[k].to, a)
    BY ONLY <1>18, <2>2 DEF Coming, Unsent
  <2>4. c \in Lit' /\ calls'[c] = r
    BY ONLY <1>15, <2>2, LitPut, c \in Calls
  <2>q. QED BY ONLY <2>3, <2>4 DEF ComingTo
<1>19. ASSUME NEW i \in DOMAIN Devices, NEW d, d = Devices[i], d.id \in calls[c].ids,
              NEW a, Touches(o, a)
       PROVE  /\ d.hue => ComingTo(Lit', calls', d.id, a)
              /\ d.ip \in Lamps => ComingTo(Lit', calls', d.ip, a)
  <2>1. Within(StepsFor(d, o, TRUE), todo)
    BY ONLY <1>10, <1>19
  <2>2. /\ d.ip # NoIp => [to |-> d.ip, order |-> Accepted(o)] \in S
        /\ d.net # NoIp => [to |-> d.net, order |-> Accepted(o)] \in S
        /\ d.hue => [to |-> d.id, order |-> o] \in S
    BY ONLY <1>9, <1>19
  <2>3. PICK x, y : x = [to |-> d.ip, order |-> Accepted(o)] /\ y = [to |-> d.id, order |-> o]
    OBVIOUS
  <2>4. /\ d.ip # NoIp => Within(<<x>>, StepsFor(d, o, TRUE))
        /\ d.hue => Within(<<y>>, StepsFor(d, o, TRUE))
    BY ONLY <2>2, <2>3, StepsIn
  <2>5. ASSUME NEW z, Within(<<z>>, StepsFor(d, o, TRUE)) PROVE \E k \in DOMAIN todo : todo[k] = z
    <3>1. PICK u : u = <<z>>
      OBVIOUS
    <3>2. PICK v : v = StepsFor(d, o, TRUE)
      OBVIOUS
    <3>3. 1 \in DOMAIN u /\ u[1] = z
      BY ONLY <3>1
    <3>4. Within(u, v) /\ Within(v, todo)
      BY ONLY <2>1, <2>5, <3>1, <3>2
    <3>5. PICK k \in DOMAIN v : v[k] = z
      BY ONLY <3>3, <3>4 DEF Within
    <3>q. QED BY ONLY <3>4, <3>5 DEF Within
  <2>6. x.to = d.ip /\ y.to = d.id /\ Touches(x.order, a) /\ Touches(y.order, a)
    BY ONLY <1>7, <1>19, <2>3
  <2>7. d.ip \in Lamps => d.ip # NoIp
    BY LightAssumption
  <2>q. QED BY ONLY <1>18, <2>4, <2>5, <2>6, <2>7
<1>20. ASSUME NEW i \in DOMAIN Devices, NEW a \in Aspects, NEW d, d = Devices[i],
              d.id \in goal.ids, Aims(goal, a)
       PROVE  \/ PassingBy(Lit', calls', goal.ids, a)
              \/ /\ d.hue => HueGood(Lit', calls', goal, lamp[d.id], d.id, a)
                 /\ ~d.hue /\ d.ip \in Lamps =>
                      LampGood(Lit', calls', goal, toLamp[d.ip], lamp[d.ip], d.ip, a)
  <2>1. CASE PassingBy(Lit, calls, goal.ids, a) /\ ~(calls[c].ids = goal.ids /\ Touches(o, a))
    <3>1. ASSUME Passing(calls[c], goal.ids, a) PROVE r.op = "lights" /\ Passing(r, goal.ids, a)
      <4>1. PICK k \in DOMAIN passes : Touches(passes[k], a) /\ calls[c].ids = goal.ids
        BY ONLY <1>3, <3>1 DEF Passing
      <4>2. k - 1 \in DOMAIN Tail(passes) /\ Tail(passes)[k - 1] = passes[k]
        BY ONLY <1>5, <1>13, <2>1, <4>1
      <4>3. Tail(passes) # <<>>
        BY ONLY <4>2
      <4>q. QED BY ONLY <1>15, <4>1, <4>2, <4>3 DEF Passing
    <3>q. QED BY ONLY <1>15, <2>1, <3>1, PassingStays, c \in Calls
  <2>2. CASE calls[c].ids = goal.ids /\ Touches(o, a)
    BY ONLY <1>19, <1>20, <2>2 DEF HueGood, LampGood
  <2>3. CASE ~PassingBy(Lit, calls, goal.ids, a)
    <3>1. /\ d.hue => HueGood(Lit, calls, goal, lamp[d.id], d.id, a)
          /\ ~d.hue /\ d.ip \in Lamps =>
               LampGood(Lit, calls, goal, toLamp[d.ip], lamp[d.ip], d.ip, a)
      BY ONLY <1>14, <1>20, <2>3
    <3>q. QED BY ONLY <1>17, <3>1 DEF HueGood, LampGood
  <2>q. QED BY ONLY <2>1, <2>2, <2>3
<1>q. QED BY <1>0, <1>14, <1>16, <1>20 DEF SceneInv

LEMMA SceneBegins ==
  ASSUME Shaped, NEW c \in Calls, NEW ids, NEW scene \in Scenes, Scene(c, ids, scene)
  PROVE  SceneInv'
<1>1. PICK g : g = Wanted(ids, Passes(scene))
  OBVIOUS
<1>2. PICK passes : passes = Passes(scene)
  OBVIOUS
<1>3. /\ g.ids = ids /\ (g.kelvin # 0 => g.rgb # "none")
      /\ \A p \in DOMAIN passes : Right(g, passes[p])
      /\ \A a \in Aspects : Aims(g, a) => \E p \in DOMAIN passes : Touches(passes[p], a)
  BY ONLY <1>1, <1>2, SceneWanted, LightAssumption, scene \in Scenes DEF LightAssumption
<1>4. /\ BeginLong(c, Work("snapshot", ids, passes, <<>>), 2)
      /\ goal' = IF Lit = {} THEN g ELSE NoGoal
  BY ONLY <1>1, <1>2, Scene(c, ids, scene) DEF Scene, Control
<1>5. PICK r : r = Work("snapshot", ids, passes, <<>>)
  OBVIOUS
<1>6. Put(c, r) /\ r.op = "lights" /\ r.ids = ids /\ r.passes = passes /\ r.todo = <<>>
      /\ r.pc # "adrift"
  BY ONLY <1>4, <1>5, Puts, Shaped, c \in Calls DEF Work
<1>7. CASE goal' = NoGoal
  BY ONLY <1>7 DEF SceneInv
<1>8. CASE Lit = {} /\ goal' = g
  <2>1. Lit' = {c} /\ calls'[c] = r
    BY ONLY <1>6, <1>8, LitPut, c \in Calls
  <2>2. RightCall(g, r)
    BY ONLY <1>3, <1>6 DEF RightCall, Unsent
  <2>3. \A e \in Lit' : RightCall(g, calls'[e])
    BY ONLY <2>1, <2>2
  <2>4. ASSUME NEW a \in Aspects, Aims(g, a) PROVE PassingBy(Lit', calls', g.ids, a)
    <3>1. Passing(r, g.ids, a)
      BY ONLY <1>3, <1>6, <2>4 DEF Passing
    <3>q. QED BY ONLY <2>1, <3>1 DEF PassingBy
  <2>q. QED BY ONLY <1>3, <1>8, <2>3, <2>4 DEF SceneInv
<1>q. QED BY ONLY <1>4, <1>7, <1>8

\* A step inside an errand: what the request has still to do stays, but for the
\* order it has sent.
LEMMA ErrandGoesOn ==
  ASSUME Shaped, LitCalls, NEW c \in Calls, calls[c].op = "lights", calls[c].pc # "snapshot",
         NEW p \in {"cache", "query"}, Goto(c, p), NEW g, \A e \in Lit : RightCall(g, calls[e])
  PROVE  /\ \A e \in Lit' : RightCall(g, calls'[e])
         /\ \A ids, a : PassingBy(Lit, calls, ids, a) => PassingBy(Lit', calls', ids, a)
         /\ \A l, a : ComingTo(Lit, calls, l, a) =>
              \/ ComingTo(Lit', calls', l, a)
              \/ calls[c].pc = "send" /\ Now(c).to = l /\ Touches(Now(c).order, a)
<1>1. LightSlot(calls[c]) /\ c \in Lit
  BY LitSlots
<1>2. PICK r : r = [calls[c] EXCEPT !.pc = p]
  OBVIOUS
<1>3. /\ Put(c, r) /\ r.op = "lights" /\ r.pc = p /\ r.ids = calls[c].ids
      /\ r.passes = calls[c].passes /\ r.todo = calls[c].todo
  BY <1>1, <1>2, Gotos DEF LightSlot
<1>4. calls[c].todo \in Seq(Errands) /\ Now(c) = calls[c].todo[1]
  BY NowTyped
<1>5. \A k \in DOMAIN calls[c].todo : k = 1 \/ k > 1
  BY ONLY <1>4
<1>6. RightCall(g, r)
  <2>1. RightCall(g, calls[c])
    BY <1>1
  <2>q. QED BY ONLY <1>3, <2>1, p \in {"cache", "query"} DEF RightCall, Unsent
<1>7. \A e \in Lit' : RightCall(g, calls'[e])
  BY <1>3, <1>6, RightStays
<1>8. ASSUME NEW ids, NEW a, PassingBy(Lit, calls, ids, a) PROVE PassingBy(Lit', calls', ids, a)
  <2>1. Passing(calls[c], ids, a) => Passing(r, ids, a)
    BY ONLY <1>3 DEF Passing
  <2>q. QED BY ONLY <1>3, <1>8, <2>1, PassingStays, c \in Calls
<1>9. ASSUME NEW l, NEW a, ComingTo(Lit, calls, l, a),
             ~(calls[c].pc = "send" /\ Now(c).to = l /\ Touches(Now(c).order, a))
      PROVE  ComingTo(Lit', calls', l, a)
  <2>1. Coming(calls[c], l, a) => Coming(r, l, a)
    BY ONLY <1>3, <1>4, <1>5, <1>9 DEF Coming, Unsent
  <2>q. QED BY ONLY <1>3, <1>9, <2>1, ComingStays, c \in Calls
<1>q. QED BY ONLY <1>7, <1>8, <1>9

LEMMA SceneSend ==
  ASSUME Shaped, Wires, LitCalls, SceneInv, goal # NoGoal, NEW c \in Calls, SendOrder(c)
  PROVE  SceneInv'
<1>0. /\ calls[c].op = "lights" /\ calls[c].pc = "send" /\ Goto(c, "cache") /\ Now(c).to \in Lamps
      /\ UNCHANGED <<lamp, goal>> /\ \A e \in Lit : RightCall(goal, calls[e])
  BY DEF SendOrder, At, SceneInv
<1>1. PICK o : o = Now(c).order
  OBVIOUS
<1>2. PICK p : p = [kind |-> "order", order |-> o]
  OBVIOUS
<1>3. o \in LightOrders /\ 1 \in DOMAIN calls[c].todo /\ Now(c) = calls[c].todo[1]
  BY ONLY <1>0, <1>1, NowTyped, Shaped, LitCalls, c \in Calls
<1>4. p \in Packets /\ p.order = o /\ \A a : Touching(p, a) <=> Touches(o, a)
  BY ONLY <1>2, <1>3 DEF Packets, Touching
<1>5. Right(goal, o)
  <2>1. RightCall(goal, calls[c])
    BY <1>0, LitSlots
  <2>q. QED BY ONLY <1>0, <1>1, <1>3, <2>1 DEF RightCall, Unsent
<1>6. toLamp' = [toLamp EXCEPT ![Now(c).to] = Append(@, p)] /\ toLamp \in [Lamps -> Seq(Packets)]
  BY <1>1, <1>2 DEF SendOrder, Wires
<1>7. /\ \A e \in Lit' : RightCall(goal, calls'[e])
      /\ \A ids, a : PassingBy(Lit, calls, ids, a) => PassingBy(Lit', calls', ids, a)
      /\ \A l, a : ComingTo(Lit, calls, l, a) =>
           ComingTo(Lit', calls', l, a) \/ (Now(c).to = l /\ Touches(o, a))
  BY ONLY <1>0, <1>1, ErrandGoesOn, Shaped, LitCalls, c \in Calls
<1>8. ASSUME NEW l \in HueIds, NEW a \in Aspects, HueGood(Lit, calls, goal, lamp[l], l, a)
      PROVE  HueGood(Lit', calls', goal, lamp'[l], l, a)
  <2>1. l # Now(c).to
    BY ONLY <1>0, <1>8, LightAssumption
  <2>q. QED BY ONLY <1>0, <1>7, <1>8, <2>1 DEF HueGood
<1>9. ASSUME NEW l \in Lamps, NEW a \in Aspects, Aims(goal, a),
             LampGood(Lit, calls, goal, toLamp[l], lamp[l], l, a)
      PROVE  LampGood(Lit', calls', goal, toLamp'[l], lamp'[l], l, a)
  <2>1. CASE l # Now(c).to
    BY ONLY <1>0, <1>6, <1>7, <1>9, <2>1 DEF LampGood
  <2>2. CASE l = Now(c).to
    <3>1. PICK q : q = toLamp[l]
      OBVIOUS
    <3>2. q \in Seq(Packets) /\ toLamp'[l] = Append(q, p)
      BY ONLY <1>6, <1>9, <2>2, <3>1
    <3>3. Touches(o, a) => Meets(Obeyed(o, Unknown), goal, a)
      BY ONLY <1>5, <1>9 DEF Right
    <3>4. Touches(o, a) => LampReached(goal, Append(q, p), lamp[l], a)
      BY ONLY <1>4, <3>2, <3>3, PacketAdded
    <3>5. ~Touches(o, a) /\ LampReached(goal, q, lamp[l], a)
            => LampReached(goal, Append(q, p), lamp[l], a)
      BY ONLY <1>4, <3>2, PacketAdded
    <3>q. QED BY ONLY <1>0, <1>7, <1>9, <2>2, <3>1, <3>2, <3>4, <3>5 DEF LampGood
  <2>q. QED BY ONLY <2>1, <2>2
<1>q. QED BY <1>0, <1>7, <1>8, <1>9, SceneStays

LEMMA SceneQuery ==
  ASSUME Shaped, Wires, LitCalls, SceneInv, goal # NoGoal, NEW c \in Calls, QueryStatus(c)
  PROVE  SceneInv'
<1>0. /\ calls[c].op = "lights" /\ calls[c].pc = "query" /\ UNCHANGED <<lamp, goal>>
      /\ Proceed(c, [calls[c] EXCEPT !.todo = Tail(@)])
      /\ \A e \in Lit : RightCall(goal, calls[e])
  BY DEF QueryStatus, At, SceneInv
<1>1. /\ \A e \in Lit' : RightCall(goal, calls'[e])
      /\ \A ids, a : PassingBy(Lit, calls, ids, a) => PassingBy(Lit', calls', ids, a)
      /\ \A l, a : ComingTo(Lit, calls, l, a) => ComingTo(Lit', calls', l, a)
  BY ONLY <1>0, ErrandDone, Shaped, LitCalls, c \in Calls
<1>2. PICK p : p = [kind |-> "query"]
  OBVIOUS
<1>3. p \in Packets /\ \A a : ~Touching(p, a)
  BY ONLY <1>2 DEF Packets, Touching
<1>4. toLamp' = [toLamp EXCEPT ![Now(c).to] = Append(@, p)] /\ toLamp \in [Lamps -> Seq(Packets)]
  BY <1>2 DEF QueryStatus, Wires
<1>5. ASSUME NEW l \in Lamps, NEW a, LampReached(goal, toLamp[l], lamp[l], a)
      PROVE  LampReached(goal, toLamp'[l], lamp[l], a)
  <2>1. toLamp'[l] = toLamp[l] \/ toLamp'[l] = Append(toLamp[l], p)
    BY ONLY <1>4, <1>5
  <2>q. QED BY ONLY <1>3, <1>4, <1>5, <2>1, PacketAdded
<1>q. QED BY <1>0, <1>1, <1>5, SceneStays DEF HueGood, LampGood

LEMMA ScenePost ==
  ASSUME Shaped, Wires, LitCalls, SceneInv, goal # NoGoal, NEW c \in Calls, PostHue(c, TRUE)
  PROVE  SceneInv'
<1>0. /\ calls[c].op = "lights" /\ calls[c].pc = "send" /\ UNCHANGED <<toLamp, goal>>
      /\ Proceed(c, [calls[c] EXCEPT !.todo = Tail(@)]) /\ Now(c).to \in HueIds
      /\ \A e \in Lit : RightCall(goal, calls[e])
  BY DEF PostHue, AskHue, At, SceneInv
<1>1. PICK o : o = Now(c).order
  OBVIOUS
<1>2. o \in LightOrders /\ 1 \in DOMAIN calls[c].todo /\ Now(c) = calls[c].todo[1]
  BY ONLY <1>0, <1>1, NowTyped, Shaped, LitCalls, c \in Calls
<1>3. Right(goal, o)
  <2>1. RightCall(goal, calls[c])
    BY <1>0, LitSlots
  <2>q. QED BY ONLY <1>0, <1>1, <1>2, <2>1 DEF RightCall, Unsent
<1>4. lamp' = [lamp EXCEPT ![Now(c).to] = HueObeyed(o, @)]
      /\ lamp \in [Lamps \cup HueIds -> LampStates]
  BY <1>1 DEF PostHue, AskHue, Wires
<1>5. /\ \A e \in Lit' : RightCall(goal, calls'[e])
      /\ \A ids, a : PassingBy(Lit, calls, ids, a) => PassingBy(Lit', calls', ids, a)
      /\ \A l, a : ComingTo(Lit, calls, l, a) =>
           ComingTo(Lit', calls', l, a) \/ (Now(c).to = l /\ Touches(o, a))
  BY ONLY <1>0, <1>1, ErrandDone, Shaped, LitCalls, c \in Calls
<1>6. ASSUME NEW l \in HueIds, NEW a \in Aspects, Aims(goal, a),
             HueGood(Lit, calls, goal, lamp[l], l, a)
      PROVE  HueGood(Lit', calls', goal, lamp'[l], l, a)
  <2>1. CASE l # Now(c).to
    BY ONLY <1>4, <1>5, <1>6, <2>1 DEF HueGood
  <2>2. CASE l = Now(c).to
    <3>1. PICK s : s = lamp[l]
      OBVIOUS
    <3>2. s \in LampStates /\ lamp'[l] = HueObeyed(o, s)
      BY ONLY <1>4, <1>6, <2>2, <3>1
    <3>3. Touches(o, a) => Meets(Obeyed(o, Unknown), goal, a)
      BY ONLY <1>3, <1>6 DEF Right
    <3>4. Touches(o, a) => HueMeets(HueObeyed(o, s), goal, a)
      BY ONLY <1>2, <1>6, <3>2, <3>3, OrderMeets
    <3>5. ~Touches(o, a) /\ HueMeets(s, goal, a) => HueMeets(HueObeyed(o, s), goal, a)
      BY ONLY <1>2, <1>6, <3>2, OrderMeets
    <3>q. QED BY ONLY <1>5, <1>6, <2>2, <3>1, <3>2, <3>4, <3>5 DEF HueGood
  <2>q. QED BY ONLY <2>1, <2>2
<1>7. ASSUME NEW l \in Lamps, NEW a \in Aspects, LampGood(Lit, calls, goal, toLamp[l], lamp[l], l, a)
      PROVE  LampGood(Lit', calls', goal, toLamp'[l], lamp'[l], l, a)
  <2>1. l # Now(c).to
    BY ONLY <1>0, <1>7, LightAssumption
  <2>q. QED BY ONLY <1>0, <1>4, <1>5, <1>7, <2>1 DEF LampGood
<1>q. QED BY <1>0, <1>5, <1>6, <1>7, SceneStays

LEMMA SceneTakes ==
  ASSUME Wires, SceneInv, NEW ip \in Lamps, LampTakes(ip)
  PROVE  SceneInv'
<1>0. /\ UNCHANGED <<goal, calls>> /\ toLamp[ip] # <<>>
      /\ toLamp' = [toLamp EXCEPT ![ip] = Tail(@)] /\ toLamp \in [Lamps -> Seq(Packets)]
      /\ lamp \in [Lamps \cup HueIds -> LampStates]
  BY DEF LampTakes, requestVars, Wires
<1>1. PICK p : p = Head(toLamp[ip])
  OBVIOUS
<1>2. lamp' = IF p.kind = "order" THEN [lamp EXCEPT ![ip] = Obeyed(p.order, @)] ELSE lamp
  BY <1>1 DEF LampTakes
<1>3. ASSUME NEW l \in HueIds PROVE lamp'[l] = lamp[l]
  <2>1. l # ip
    BY ONLY <1>3, LightAssumption, ip \in Lamps
  <2>q. QED BY ONLY <1>0, <1>2, <1>3, <2>1
<1>4. ASSUME NEW l \in Lamps, NEW a \in Aspects, LampReached(goal, toLamp[l], lamp[l], a)
      PROVE  LampReached(goal, toLamp'[l], lamp'[l], a)
  <2>1. CASE l # ip
    BY ONLY <1>0, <1>2, <1>4, <2>1
  <2>2. CASE l = ip
    <3>1. PICK q, s : q = toLamp[l] /\ s = lamp[l]
      OBVIOUS
    <3>2. q \in Seq(Packets) /\ q # <<>> /\ s \in LampStates /\ p = Head(q) /\ toLamp'[l] = Tail(q)
      BY ONLY <1>0, <1>1, <1>4, <2>2, <3>1
    <3>3. LampReached(goal, Tail(q), IF p.kind = "order" THEN Obeyed(p.order, s) ELSE s, a)
      BY ONLY <1>4, <3>1, <3>2, PacketObeyed
    <3>4. lamp'[l] = IF p.kind = "order" THEN Obeyed(p.order, s) ELSE s
      BY ONLY <1>0, <1>2, <1>4, <2>2, <3>1
    <3>q. QED BY ONLY <3>2, <3>3, <3>4
  <2>q. QED BY ONLY <2>1, <2>2
<1>q. QED BY <1>0, <1>3, <1>4, SceneWires

LEMMA SceneAsks ==
  ASSUME Shaped, SceneInv, NEW c \in Calls, NEW ip \in Lamps, AskStatus(c, ip)
  PROVE  SceneInv'
<1>1. PICK todo : todo = <<[to |-> ip, order |-> Power(TRUE)]>>
  OBVIOUS
<1>2. PICK r : r = Work("query", {}, <<>>, todo)
  OBVIOUS
<1>3. Begin(c, r) /\ UNCHANGED <<goal, lamp, toLamp>>
  BY <1>1, <1>2 DEF AskStatus, lightVars
<1>4. Put(c, r) /\ calls[c] = Idle
  BY ONLY <1>3, Puts, Shaped, c \in Calls
<1>5. r.passes = <<>> /\ r.pc = "query" /\ r.todo = todo
  BY ONLY <1>2 DEF Work
<1>6. \A k \in DOMAIN todo : ~(k > 1)
  BY ONLY <1>1
<1>7. \A g : RightCall(g, r)
  BY ONLY <1>5, <1>6 DEF RightCall, Unsent
<1>8. c \notin Lit
  BY ONLY <1>4 DEF Lit, Idle
<1>q. QED BY <1>3, <1>4, <1>7, <1>8, SceneApart

LEMMA SceneStep ==
  ASSUME Shaped, Wires, LitCalls, SceneInv, LightsNext
  PROVE  SceneInv'
<1>0. ASSUME goal' = NoGoal PROVE SceneInv'
  BY ONLY <1>0 DEF SceneInv
<1>1. ASSUME goal' = goal, goal = NoGoal PROVE SceneInv'
  BY ONLY <1>0, <1>1
<1>2. ASSUME NEW c \in Calls, NEW ip \in Lamps, NEW o, SetLight(c, ip, o) PROVE SceneInv'
  BY ONLY <1>0, <1>2 DEF SetLight
<1>3. ASSUME NEW c \in Calls, LightRequest(c) PROVE SceneInv'
  BY ONLY <1>2, <1>3, SceneAsks, Shaped, SceneInv DEF LightRequest, Toggle
<1>4. ASSUME NEW c \in Calls, NEW seen \in BOOLEAN, TakeSnapshot(c, seen) PROVE SceneInv'
  <2>1. CASE seen = FALSE
    BY ONLY <1>0, <1>4, <2>1 DEF TakeSnapshot
  <2>2. CASE seen = TRUE
    <3>1. goal' = goal
      BY ONLY <1>4, <2>2 DEF TakeSnapshot
    <3>q. QED BY ONLY <1>1, <1>4, <2>2, <3>1, SceneSnapshot, Shaped, LitCalls, SceneInv
  <2>q. QED BY ONLY <1>4, <2>1, <2>2
<1>5. ASSUME NEW c \in Calls, SendOrder(c) PROVE SceneInv'
  <2>1. goal' = goal
    BY ONLY <1>5 DEF SendOrder
  <2>q. QED BY ONLY <1>1, <1>5, <2>1, SceneSend, Shaped, Wires, LitCalls, SceneInv
<1>6. ASSUME NEW c \in Calls, UpdateCache(c) PROVE SceneInv'
  <2>1. /\ UNCHANGED <<goal, lamp, toLamp>> /\ calls[c].op = "lights" /\ calls[c].pc = "cache"
        /\ Goto(c, "query")
    BY ONLY <1>6 DEF UpdateCache, At
  <2>2. CASE goal # NoGoal
    <3>0. \A e \in Lit : RightCall(goal, calls[e])
      BY ONLY <2>2, SceneInv DEF SceneInv
    <3>1. /\ \A e \in Lit' : RightCall(goal, calls'[e])
          /\ \A ids, a : PassingBy(Lit, calls, ids, a) => PassingBy(Lit', calls', ids, a)
          /\ \A l, a : ComingTo(Lit, calls, l, a) => ComingTo(Lit', calls', l, a)
      BY ONLY <1>6, <2>1, <3>0, ErrandGoesOn, Shaped, LitCalls
    <3>q. QED BY ONLY <2>1, <2>2, <3>1, SceneKept, SceneInv
  <2>q. QED BY ONLY <1>1, <2>1, <2>2
<1>7. ASSUME NEW c \in Calls, QueryStatus(c) PROVE SceneInv'
  <2>1. goal' = goal
    BY ONLY <1>7 DEF QueryStatus
  <2>q. QED BY ONLY <1>1, <1>7, <2>1, SceneQuery, Shaped, Wires, LitCalls, SceneInv
<1>8. ASSUME NEW c \in Calls, NEW done \in BOOLEAN, PostHue(c, done) PROVE SceneInv'
  <2>1. CASE done = FALSE
    BY ONLY <1>0, <1>8, <2>1 DEF PostHue, AskHue
  <2>2. CASE done = TRUE
    <3>1. goal' = goal
      BY ONLY <1>8, <2>2 DEF PostHue, AskHue
    <3>q. QED BY ONLY <1>1, <1>8, <2>2, <3>1, ScenePost, Shaped, Wires, LitCalls, SceneInv
  <2>q. QED BY ONLY <1>8, <2>1, <2>2
<1>9. ASSUME Receive PROVE SceneInv'
  <2>1. UNCHANGED <<goal, calls, lamp, toLamp>>
    BY ONLY <1>9 DEF Receive, requestVars
  <2>q. QED BY ONLY <2>1, SceneWires, SceneInv
<1>10. ASSUME NEW ip \in Lamps, Lose(ip) \/ Switch(ip) PROVE SceneInv'
  BY ONLY <1>0, <1>10 DEF Lose, Switch
<1>11. ASSUME NEW c \in Calls, NEW g, NEW o, GroupOrder(c, g, o) PROVE SceneInv'
  BY ONLY <1>0, <1>11 DEF GroupOrder, Control
<1>12. ASSUME NEW c \in Calls, NEW n, NEW scene \in Scenes, NEW seen, RoomScene(c, n, scene, seen) PROVE SceneInv'
  BY ONLY <1>12, SceneBegins, Shaped DEF RoomScene
<1>13. ASSUME NEW c \in Calls, SendFails(c) PROVE SceneInv'
  <2>1. CASE goal' = goal /\ goal # NoGoal
    <3>1. /\ calls[c].op = "lights" /\ calls[c].pc \in {"send", "query"}
          /\ goal' # NoGoal => calls[c].pc = "query"
          /\ Fail(c, Resume([calls[c] EXCEPT !.todo = Tail(@)])) /\ UNCHANGED <<lamp, toLamp>>
      BY ONLY <1>13 DEF SendFails, At
    <3>2. \A e \in Lit : RightCall(goal, calls[e])
      BY ONLY <2>1, SceneInv DEF SceneInv
    <3>3. /\ \A e \in Lit' : RightCall(goal, calls'[e])
          /\ \A ids, a : PassingBy(Lit, calls, ids, a) => PassingBy(Lit', calls', ids, a)
          /\ \A l, a : ComingTo(Lit, calls, l, a) => ComingTo(Lit', calls', l, a)
      BY ONLY <1>13, <2>1, <3>1, <3>2, ErrandDone, Shaped, LitCalls
    <3>q. QED BY ONLY <2>1, <3>1, <3>3, SceneKept, SceneInv
  <2>2. goal' \in {goal, NoGoal}
    BY ONLY <1>13 DEF SendFails
  <2>q. QED BY ONLY <1>0, <2>1, <2>2
<1>14. ASSUME NEW c \in Calls, GiveUpLights(c) PROVE SceneInv'
  BY ONLY <1>0, <1>14 DEF GiveUpLights
<1>15. ASSUME NEW c \in Calls, NEW done, LandHue(c, done) PROVE SceneInv'
  <2>1. calls[c].op = "lights" /\ calls[c].pc = "adrift" /\ goal' \in {goal, NoGoal}
    BY ONLY <1>15 DEF LandHue, AskHue, At
  <2>2. c \in Lit
    BY ONLY <1>15, <2>1, LitSlots, Shaped
  <2>3. goal = NoGoal
    BY ONLY <2>1, <2>2, SceneInv DEF SceneInv, RightCall
  <2>q. QED BY ONLY <1>0, <2>1, <2>3
<1>q. QED
  BY ONLY <1>3, <1>4, <1>5, <1>6, <1>7, <1>8, <1>9, <1>10, <1>11, <1>12, <1>13, <1>14, <1>15,
          SceneTakes, Wires, SceneInv, LightsNext
     DEF LightsNext, LightWorld, LightStep

-----------------------------------------------------------------------------
(* Lights: the invariant                                                   *)

\* Requests of the other parts leave the lights alone.
LEMMA LightsApart ==
  ASSUME LightInv, UNCHANGED lightVars, NEW c \in Calls, c \notin Lit, NEW r, Put(c, r),
         r.op # "lights"
  PROVE  LightInv'
<1>0. UNCHANGED <<lamp, cache, toLamp, fromLamp, astray, guessed, goal>>
  BY DEF lightVars
<1>1. Wires'
  BY ONLY <1>0, LightInv DEF LightInv, Wires
<1>2. LitCalls'
  BY ONLY CallsPut, LightInv, c \in Calls, Put(c, r), r.op # "lights" DEF LightInv
<1>3. CacheInv'
  BY ONLY <1>0, CachePut, LightInv, c \in Calls, c \notin Lit, Put(c, r) DEF LightInv
<1>4. SceneInv'
  BY ONLY <1>0, SceneApart, LightInv, c \in Calls, c \notin Lit, Put(c, r), r.op # "lights"
     DEF LightInv
<1>q. QED BY ONLY <1>1, <1>2, <1>3, <1>4 DEF LightInv

LEMMA LightsStill ==
  ASSUME LightInv, UNCHANGED lightVars, UNCHANGED calls
  PROVE  LightInv'
<1>0. UNCHANGED <<lamp, cache, toLamp, fromLamp, astray, guessed, goal>> /\ Lit' = Lit
  BY DEF lightVars, Lit
<1>1. Wires' /\ LitCalls'
  BY ONLY <1>0, LightInv, UNCHANGED calls DEF LightInv, Wires, LitCalls
<1>2. CacheInv'
  BY ONLY <1>0, LightInv, UNCHANGED calls, CacheKept DEF LightInv
<1>3. SceneInv'
  BY ONLY <1>0, LightInv, UNCHANGED calls, SceneWires DEF LightInv
<1>q. QED BY ONLY <1>1, <1>2, <1>3 DEF LightInv

\* Nothing is under way, and no lamp that counts has an order on its wire.
FreshLights ==
  /\ Quiet /\ lamp \in [Lamps \cup HueIds -> LampStates] /\ cache = [ip \in Lamps |-> Unknown]
  /\ toLamp \in [Lamps -> Seq(Packets)] /\ \A ip \in Lamps \ astray : NoOrderIn(toLamp[ip])
  /\ fromLamp = <<>> /\ goal = NoGoal

LEMMA LightsFresh == FreshLights => LightInv
<1>. SUFFICES ASSUME FreshLights PROVE LightInv
  OBVIOUS
<1>. USE DEF FreshLights
<1>1. Lit = {}
  BY DEF Lit, Quiet, Idle
<1>2. Wires
  BY DEF Wires, Unknown, LampStates, Tones
<1>3. CacheInv
  BY DEF CacheInv, Informed, Silent
<1>q. QED BY <1>1, <1>2, <1>3 DEF LightInv, LitCalls, SceneInv

LEMMA ScanSent ==
  /\ <<>> \in Seq(Packets)
  /\ \A q \in Seq(Packets) : Append(q, [kind |-> "scan"]) \in Seq(Packets)
  /\ Append(<<>>, [kind |-> "scan"]) = <<[kind |-> "scan"]>>
  /\ NoOrderIn(<<[kind |-> "scan"]>>)
<1>1. PICK p : p = [kind |-> "scan"]
  OBVIOUS
<1>2. p \in Packets /\ p.kind = "scan"
  BY ONLY <1>1 DEF Packets
<1>3. NoOrderIn(<<p>>)
  <2>1. PICK q : q = <<p>>
    OBVIOUS
  <2>2. \A i \in DOMAIN q : q[i] = p
    BY ONLY <2>1
  <2>q. QED BY ONLY <1>2, <2>1, <2>2 DEF NoOrderIn
<1>4. \A q \in Seq(Packets) : Append(q, p) \in Seq(Packets)
  BY ONLY <1>2, AppendsTo
<1>5. <<>> \in Seq(Packets) /\ Append(<<>>, p) = <<p>>
  OBVIOUS
<1>q. QED BY ONLY <1>1, <1>3, <1>4, <1>5

LEMMA LightsStart == Init => LightInv
<1>1. Init => LightInit /\ calls = [c \in Calls |-> Idle]
  BY DEF Init
<1>2. SUFFICES ASSUME Init PROVE LightInv
  OBVIOUS
<1>3. LightInit /\ Quiet
  BY <1>1, <1>2 DEF Quiet
<1>4. lamp \in [Lamps \cup HueIds -> LampStates]
  BY ONLY <1>3 DEF LightInit, NewEntry, LampStates, Tones
<1>5. PICK q : q = <<[kind |-> "scan"]>>
  OBVIOUS
<1>6. q \in Seq(Packets) /\ NoOrderIn(q)
  BY ONLY <1>5, ScanSent
<1>7. toLamp = [ip \in Lamps |-> q]
  BY ONLY <1>3, <1>5 DEF LightInit
<1>q. QED BY ONLY <1>3, <1>4, <1>6, <1>7, LightsFresh DEF LightInit, FreshLights

LEMMA LightsRestart ==
  ASSUME LightInv, Restart
  PROVE  LightInv'
<1>1. Quiet'
  BY DEF Restart, Quiet
<1>2. /\ lamp' = lamp /\ cache' = [ip \in Lamps |-> Unknown] /\ fromLamp' = <<>> /\ goal' = NoGoal
      /\ toLamp' = [ip \in Lamps |-> Append(toLamp[ip], [kind |-> "scan"])]
      /\ astray' = {ip \in Lamps : toLamp[ip] # <<>>}
  BY DEF Restart, RestartLights, StartLights
<1>3. lamp \in [Lamps \cup HueIds -> LampStates] /\ toLamp \in [Lamps -> Seq(Packets)]
  BY DEF LightInv, Wires
<1>4. toLamp' \in [Lamps -> Seq(Packets)]
  BY ONLY <1>2, <1>3, ScanSent
<1>5. ASSUME NEW ip \in Lamps, ip \notin astray' PROVE NoOrderIn(toLamp'[ip])
  <2>1. toLamp[ip] = <<>> /\ toLamp'[ip] = Append(toLamp[ip], [kind |-> "scan"])
    BY ONLY <1>2, <1>5
  <2>q. QED BY ONLY <2>1, ScanSent
<1>6. FreshLights'
  BY ONLY <1>1, <1>2, <1>3, <1>4, <1>5 DEF FreshLights
<1>7. (FreshLights => LightInv)'
  BY ONLY LightsFresh, PTL
<1>q. QED BY ONLY <1>6, <1>7

LEMMA LightsStep ==
  ASSUME RoomsInv, LightInv, [Next]_vars
  PROVE  LightInv'
<1>0. Shaped /\ RoomTypes
  BY ONLY RoomsInv DEF RoomsInv
<1>1. CASE RoomsNext
  <2>1. UNCHANGED lightVars
    BY ONLY <1>1 DEF RoomsNext
  <2>2. CASE BookBrief
    <3>1. UNCHANGED calls
      BY ONLY <2>2 DEF BookBrief, Claim, AssignProduct, Brief
    <3>q. QED BY ONLY <2>1, <3>1, LightInv, LightsStill
  <2>3. ASSUME NEW c \in Calls, BookRequest(c) \/ BookStep(c) PROVE LightInv'
    <3>1. CASE UNCHANGED calls
      BY ONLY <2>1, <3>1, LightInv, LightsStill
    <3>2. ASSUME NEW r, Put(c, r), r = Idle \/ RoomSlot(r), calls[c] = Idle \/ RoomSlot(calls[c])
          PROVE  LightInv'
      <4>1. r.op # "lights" /\ c \notin Lit
        BY ONLY <3>2 DEF RoomSlot, Idle, Lit
      <4>q. QED BY ONLY <2>1, <2>3, <3>2, <4>1, LightInv, LightsApart
    <3>q. QED BY ONLY <1>0, <2>3, <3>1, <3>2, BookMoves, BookOwn DEF Moved
  <2>q. QED BY ONLY <1>1, <2>2, <2>3 DEF RoomsNext
<1>2. CASE DevicesNext
  <2>1. UNCHANGED lightVars
    BY ONLY <1>2 DEF DevicesNext
  <2>2. CASE DeviceBrief
    <3>1. UNCHANGED calls
      BY ONLY <2>2 DEF DeviceBrief, Link, Unlink, Brief
    <3>q. QED BY ONLY <2>1, <3>1, LightInv, LightsStill
  <2>3. ASSUME NEW c \in Calls, DeviceRequest(c) \/ DeviceStep(c) PROVE LightInv'
    <3>1. CASE UNCHANGED calls
      BY ONLY <2>1, <3>1, LightInv, LightsStill
    <3>2. ASSUME NEW r, Put(c, r), r = Idle \/ DeviceSlot(r), calls[c] = Idle \/ DeviceSlot(calls[c])
          PROVE  LightInv'
      <4>1. r.op # "lights" /\ c \notin Lit
        BY ONLY <3>2 DEF DeviceSlot, Idle, Lit
      <4>q. QED BY ONLY <2>1, <2>3, <3>2, <4>1, LightInv, LightsApart
    <3>q. QED BY ONLY <1>0, <2>3, <3>1, <3>2, DeviceMoves DEF DeviceMoved
  <2>q. QED BY ONLY <1>2, <2>2, <2>3 DEF DevicesNext
<1>3. CASE LightsNext
  BY ONLY <1>0, <1>3, LightInv, CallsStep, WiresStep, CacheStep, SceneStep DEF LightInv
<1>4. CASE UNCHANGED vars
  BY ONLY <1>4, LightInv, LightsStill DEF vars, requestVars
<1>q. QED BY ONLY [Next]_vars, LightInv, <1>1, <1>2, <1>3, <1>4, LightsRestart DEF Next

\* The invariant holds in every state of the web module.
THEOREM LightsInvariant == Spec => []LightInv
<1>1. RoomsInv /\ LightInv /\ [Next]_vars => LightInv'
  BY LightsStep
<1>q. QED BY <1>1, LightsStart, RoomsInvariant, PTL DEF Spec

LEMMA SettledAgrees == LitCalls /\ CacheInv => CacheAgrees
<1>1. SUFFICES ASSUME LitCalls, CacheInv, NEW ip \in Lamps, ip \notin astray, ip \notin guessed,
                      Settled(ip), cache[ip] # Unknown
               PROVE  cache[ip] = lamp[ip]
  BY DEF CacheAgrees
<1>2. ~Owed(Lit, calls, ip)
  <2>1. ASSUME NEW c \in Lit, Owes(calls[c], ip) PROVE FALSE
    <3>1. calls[c].todo \in Seq(Errands) /\ calls[c].todo # <<>>
      BY ONLY <1>1, <2>1 DEF LitCalls, LightCall, Owes
    <3>2. 1 \in DOMAIN calls[c].todo /\ Head(calls[c].todo) = calls[c].todo[1]
      BY ONLY <3>1, TailOf
    <3>q. QED BY ONLY <1>1, <2>1, <3>2 DEF Settled, Owes
  <2>q. QED BY ONLY <2>1 DEF Owed
<1>3. ~AskedIn(toLamp[ip]) /\ \A s : ~ToldIn(fromLamp, ip, s)
  BY ONLY <1>1 DEF Settled, AskedIn, ToldIn, Tells
<1>4. Informed(toLamp[ip], fromLamp, lamp[ip], cache[ip], guessed, ip)
  BY ONLY <1>1, <1>2 DEF CacheInv
<1>q. QED BY ONLY <1>1, <1>3, <1>4 DEF Informed

\* However orders overlap, and whichever requests are dropped, once all packets
\* have arrived, in order, and nothing is under way for a lamp, the cache has what
\* the lamp does: an order is followed by a query, unless its request ends before
\* it, which makes the lamp one of those astray, of which nothing is said.
THEOREM CacheIsRight == Spec => []CacheAgrees
<1>1. LightInv => CacheAgrees
  BY SettledAgrees DEF LightInv
<1>q. QED BY <1>1, LightsInvariant, PTL

LEMMA SettledScene == SceneInv => SceneApplied
<1>1. SUFFICES ASSUME SceneInv, Lit = {}, goal # NoGoal, NEW i \in DOMAIN Devices, NEW d, d = Devices[i],
                      NEW s, s = IF d.hue THEN lamp[d.id] ELSE lamp[d.ip],
                      d.id \in goal.ids, d.hue \/ (d.ip \in Lamps /\ Settled(d.ip))
               PROVE  /\ s.on = goal.on
                      /\ goal.level # 0 => s.level = IF d.hue THEN HueBri(goal.level) ELSE goal.level
                      /\ goal.kelvin # 0 => s.kelvin = IF d.hue THEN HueCt(goal.kelvin) ELSE goal.kelvin
                      /\ goal.rgb # "none" /\ ~d.hue => s.rgb = goal.rgb
  BY DEF SceneApplied
<1>2. /\ goal.kelvin # 0 => goal.rgb # "none"
      /\ \A a \in Aspects : Aims(goal, a) =>
           \/ PassingBy(Lit, calls, goal.ids, a)
           \/ /\ d.hue => HueGood(Lit, calls, goal, lamp[d.id], d.id, a)
              /\ ~d.hue /\ d.ip \in Lamps =>
                   LampGood(Lit, calls, goal, toLamp[d.ip], lamp[d.ip], d.ip, a)
  BY ONLY <1>1 DEF SceneInv
<1>3. \A a : ~PassingBy(Lit, calls, goal.ids, a) /\ \A l : ~ComingTo(Lit, calls, l, a)
  BY ONLY <1>1 DEF PassingBy, ComingTo
<1>4. CASE d.hue
  <2>1. \A a \in Aspects : Aims(goal, a) => HueMeets(s, goal, a)
    BY ONLY <1>1, <1>2, <1>3, <1>4 DEF HueGood
  <2>q. QED BY ONLY <1>2, <1>4, <2>1 DEF Aspects, Aims, HueMeets
<1>5. CASE ~d.hue
  <2>1. toLamp[d.ip] = <<>>
    BY ONLY <1>1, <1>5 DEF Settled
  <2>2. \A a : ~Will(<<>>, goal, a)
    BY ONLY DEF Will
  <2>3. \A a \in Aspects : Aims(goal, a) => Meets(s, goal, a)
    BY ONLY <1>1, <1>2, <1>3, <1>5, <2>1, <2>2 DEF LampGood, LampReached
  <2>q. QED BY ONLY <1>2, <1>5, <2>3 DEF Aspects, Aims, Meets
<1>q. QED BY ONLY <1>4, <1>5

\* A scene that went through to its end, its request neither dropped nor failing
\* in part, and that nothing has come in between leaves every light of the room as
\* it asks, Govee lamps and Hue lights alike, in whatever order its steps, the
\* packets and the status requests are carried out.
THEOREM ScenesAreApplied == Spec => []SceneApplied
<1>1. LightInv => SceneApplied
  BY SettledScene DEF LightInv
<1>q. QED BY <1>1, LightsInvariant, PTL
=============================================================================
