---------------------------- MODULE GoveeLights ----------------------------
(***************************************************************************)
(* Light control (modules/web/src/govee.rs and the handlers of main.rs):   *)
(* Govee lamps are driven by UDP packets that nobody acknowledges.  The    *)
(* cache is updated as if the lamp had obeyed, and the status that is      *)
(* asked for afterwards arrives at a listener of its own.  Hue lights are  *)
(* driven by a call of the Hue module, whose failure is ignored.           *)
(*                                                                         *)
(* A request that steers many lights takes seconds and ends where it is    *)
(* when its client goes away.  Packets between two ends are taken to stay  *)
(* in order; any of them may be lost.                                      *)
(***************************************************************************)
EXTENDS WebRequests, Sequences, SequencesExt

CONSTANTS
  Devices,  \* sequence of lights: [id, net: the address in an id "net-...",
            \* ip, hue, room: the one the record names]
  Lamps,    \* addresses of Govee lamps
  NoIp,     \* a record, or an id, without an address
  Levels,   \* brightness that requests ask for
  Kelvins,  \* colour temperatures that requests ask for
  Scenes,   \* scenes that are asked for
  MaxWire   \* bound: packets on the way to a lamp, or from all of them

HueIds == {Devices[i].id : i \in {i \in DOMAIN Devices : Devices[i].hue}}

ASSUME LightAssumption ==
  /\ NoIp \notin Lamps /\ HueIds \cap Lamps = {}
  /\ Levels \subseteq 0..255 /\ Kelvins \subseteq Nat /\ MaxWire \in Nat
  /\ Scenes \subseteq {"all_off", "all_on", "relax", "focus", "night", "cinema"}
  /\ Len(Devices) \in Nat /\ DOMAIN Devices = 1..Len(Devices)
  /\ \A i \in DOMAIN Devices : {Devices[i].ip, Devices[i].net} \subseteq Lamps \cup {NoIp}

VARIABLES
  lamp,      \* state of each Govee lamp and of each Hue light
  cache,     \* GoveeManager::devices
  toLamp,    \* packets to each lamp
  fromLamp,  \* packets to port 4002
  astray,    \* lamps moved by others, or with a packet lost or a request dropped
             \* before its query, since the last query
  guessed,   \* lamps whose entry a scan has made, and no status or order since
  goal       \* what the last scene asked for, if nothing has come in between

lightVars == <<lamp, cache, toLamp, fromLamp, astray, guessed, goal>>

Unknown == [on |-> FALSE, level |-> 0, rgb |-> "none", kelvin |-> 0]
NewEntry(on) == [on |-> on, level |-> 100, rgb |-> "white", kelvin |-> 0]
NoGoal == [on |-> FALSE, level |-> 0, rgb |-> "none", kelvin |-> 0, ids |-> {}]

Clamp(x, low, high) == IF x < low THEN low ELSE IF x > high THEN high ELSE x

-----------------------------------------------------------------------------
(* Orders                                                                  *)

Power(on) == [do |-> "power", on |-> on]
Brightness(b) == [do |-> "brightness", level |-> b]
Color(c) == [do |-> "color", rgb |-> c]
Temp(k) == [do |-> "temp", kelvin |-> k]

\* set_brightness and set_color_temp: what a lamp accepts.
Accepted(o) ==
  CASE o.do = "brightness" -> Brightness(Clamp(o.level, 1, 100))
    [] o.do = "temp" -> Temp(Clamp(o.kelvin, 2000, 9000))
    [] OTHER -> o

Obeyed(o, s) ==
  CASE o.do = "power" -> [s EXCEPT !.on = o.on]
    [] o.do = "brightness" -> [s EXCEPT !.on = TRUE, !.level = o.level]
    [] o.do = "color" -> [s EXCEPT !.on = TRUE, !.rgb = o.rgb, !.kelvin = 0]
    [] o.do = "temp" -> [s EXCEPT !.on = TRUE, !.rgb = "black", !.kelvin = o.kelvin]

\* What the cache makes of an order: only power adds a lamp to it, and a
\* temperature leaves the colour.
Expected(o, s) ==
  CASE o.do = "power" /\ s = Unknown -> NewEntry(o.on)
    [] o.do # "power" /\ s = Unknown -> Unknown
    [] o.do = "temp" /\ s # Unknown -> [s EXCEPT !.on = TRUE, !.kelvin = o.kelvin]
    [] OTHER -> Obeyed(o, s)

\* The body posted to the Hue module: bri up to 254, ct in mired, no colour.
HueBri(b) == Clamp((b * 254 + 50) \div 100, 0, 255)
HueCt(k) == Clamp(1000000 \div Clamp(k, 2000, 6500), 153, 500)
HueObeyed(o, s) ==
  CASE o.do = "power" -> [s EXCEPT !.on = o.on]
    [] o.do = "brightness" -> [s EXCEPT !.on = TRUE, !.level = HueBri(o.level)]
    [] o.do = "color" -> [s EXCEPT !.on = TRUE]
    [] o.do = "temp" -> [s EXCEPT !.on = TRUE, !.kelvin = HueCt(o.kelvin)]

\* room_scene_handler
Passes(scene) ==
  CASE scene = "all_off" -> <<Power(FALSE)>>
    [] scene = "all_on" -> <<Power(TRUE), Brightness(100), Temp(4000)>>
    [] scene = "relax" -> <<Power(TRUE), Brightness(40), Temp(2700)>>
    [] scene = "focus" -> <<Power(TRUE), Brightness(100), Temp(6500)>>
    [] scene = "night" -> <<Power(TRUE), Brightness(10), Temp(2200)>>
    [] scene = "cinema" -> <<Power(TRUE), Brightness(20), Color("blue")>>

-----------------------------------------------------------------------------
(* Requests                                                                *)

Lit == {c \in Calls : calls[c].op = "lights"}
Work(pc, ids, passes, todo) ==
  [op |-> "lights", pc |-> pc, ids |-> ids, passes |-> passes, todo |-> todo]

Resume(r) ==
  IF r.todo # <<>> THEN [r EXCEPT !.pc = "send"]
  ELSE IF r.passes # <<>> THEN [r EXCEPT !.pc = "snapshot"] ELSE Idle
Proceed(c, r) == Continue(c, Resume(r))

\* The routes of one lamp.
SetLight(c, ip, o) ==
  /\ Begin(c, Work("send", {}, <<>>, <<[to |-> ip, order |-> Accepted(o)]>>))
  /\ goal' = NoGoal
  /\ UNCHANGED <<lamp, cache, toLamp, fromLamp, astray, guessed>>

\* toggle_govee_light_handler: the opposite of what the cache has.
Toggle(c, ip) == SetLight(c, ip, Power(cache[ip] = Unknown \/ ~cache[ip].on))

\* get_govee_status_handler
AskStatus(c, ip) ==
  /\ Begin(c, Work("query", {}, <<>>, <<[to |-> ip, order |-> Power(TRUE)]>>))
  /\ UNCHANGED lightVars

\* control_devices_*, once for each order: a light group, or the lights of a
\* room.  final is what a scene wants in the end.
Control(c, ids, orders, final) ==
  /\ BeginLong(c, Work("snapshot", ids, orders, <<>>), 2)
  /\ goal' = IF Lit = {} THEN final ELSE NoGoal
  /\ UNCHANGED <<lamp, cache, toLamp, fromLamp, astray, guessed>>

\* What a light does in the end that obeys every order of a scene, of which no
\* two are of a kind: level 0 or colour "none" stand for what is not asked for.
Wanted(ids, orders) ==
  LET Told(kinds) == {i \in DOMAIN orders : orders[i].do \in kinds}
      Made(kinds) == Obeyed(orders[CHOOSE i \in Told(kinds) : TRUE], Unknown)
      tone == IF Told({"color", "temp"}) = {} THEN Unknown ELSE Made({"color", "temp"})
  IN  [on |-> \A i \in DOMAIN orders : orders[i] # Power(FALSE),
       level |-> IF Told({"brightness"}) = {} THEN 0 ELSE Made({"brightness"}).level,
       rgb |-> tone.rgb, kelvin |-> tone.kelvin, ids |-> ids]

Scene(c, ids, scene) == Control(c, ids, Passes(scene), Wanted(ids, Passes(scene)))

\* Mutant: the Hue module is asked only for lights with an address.
StepsFor_Nested(d, o, seen) ==
  (IF seen /\ d.ip # NoIp THEN <<[to |-> d.ip, order |-> Accepted(o)]>> ELSE <<>>)
  \o (IF seen /\ d.hue /\ d.ip # NoIp THEN <<[to |-> d.id, order |-> o]>> ELSE <<>>)
  \o (IF d.net # NoIp THEN <<[to |-> d.net, order |-> Accepted(o)]>> ELSE <<>>)

\* A light that the snapshot has and whose id starts with "net-" is told twice,
\* the second time at the address it had when it got the id.
StepsFor(d, o, seen) ==
  (IF seen /\ d.ip # NoIp THEN <<[to |-> d.ip, order |-> Accepted(o)]>> ELSE <<>>)
  \o (IF seen /\ d.hue THEN <<[to |-> d.id, order |-> o]>> ELSE <<>>)
  \o (IF d.net # NoIp THEN <<[to |-> d.net, order |-> Accepted(o)]>> ELSE <<>>)

\* The snapshot at the start of a pass; it may fail.
TakeSnapshot(c, seen) ==
  /\ calls[c].op = "lights" /\ calls[c].pc = "snapshot"
  /\ LET o == Head(calls[c].passes)
         steps == [i \in DOMAIN Devices |->
                     IF Devices[i].id \in calls[c].ids THEN StepsFor(Devices[i], o, seen)
                     ELSE <<>>]
     IN  Proceed(c, [calls[c] EXCEPT !.passes = Tail(@), !.todo = FlattenSeq(steps)])
  /\ goal' = IF seen THEN goal ELSE NoGoal
  /\ UNCHANGED <<lamp, cache, toLamp, fromLamp, astray, guessed>>

-----------------------------------------------------------------------------
(* One order: the packet, the cache, the query                             *)

Now(c) == Head(calls[c].todo)
At(c, pc) == calls[c].op = "lights" /\ calls[c].pc = pc

SendOrder(c) ==
  /\ At(c, "send") /\ Now(c).to \in Lamps /\ Len(toLamp[Now(c).to]) < MaxWire
  /\ toLamp' = [toLamp EXCEPT ![Now(c).to] =
                  Append(@, [kind |-> "order", order |-> Now(c).order])]
  /\ Goto(c, "cache")
  /\ UNCHANGED <<lamp, cache, fromLamp, astray, guessed, goal>>

UpdateCache(c) ==
  /\ At(c, "cache")
  /\ cache' = [cache EXCEPT ![Now(c).to] = Expected(Now(c).order, @)]
  /\ Goto(c, "query")
  /\ UNCHANGED <<lamp, toLamp, fromLamp, astray, guessed, goal>>

\* Mutant: the lamp is not asked when it is switched on or off.
QueryStatus_Trusting(c) ==
  /\ At(c, "query") /\ Len(toLamp[Now(c).to]) < MaxWire
  /\ LET ip == Now(c).to IN
       /\ toLamp' = IF Now(c).order.do = "power" THEN toLamp
                      ELSE [toLamp EXCEPT ![ip] = Append(@, [kind |-> "query"])]
       /\ astray' = astray \ {ip}
       /\ guessed' = guessed \ {ip}
  /\ Proceed(c, [calls[c] EXCEPT !.todo = Tail(@)])
  /\ UNCHANGED <<lamp, cache, fromLamp, goal>>

QueryStatus(c) ==
  /\ At(c, "query") /\ Len(toLamp[Now(c).to]) < MaxWire
  /\ LET ip == Now(c).to IN
       /\ toLamp' = [toLamp EXCEPT ![ip] = Append(@, [kind |-> "query"])]
       /\ astray' = astray \ {ip}
       /\ guessed' = guessed \ {ip}
  /\ Proceed(c, [calls[c] EXCEPT !.todo = Tail(@)])
  /\ UNCHANGED <<lamp, cache, fromLamp, goal>>

\* send_to fails: an order is given up, a query is not missed.
SendFails(c) ==
  /\ \/ At(c, "send") /\ Now(c).to \in Lamps /\ goal' = NoGoal /\ UNCHANGED astray
     \/ At(c, "query") /\ astray' = astray \cup {Now(c).to} /\ UNCHANGED goal
  /\ Fail(c, Resume([calls[c] EXCEPT !.todo = Tail(@)]))
  /\ UNCHANGED <<lamp, cache, toLamp, fromLamp, guessed>>

AskHue(c, done) ==
  /\ lamp' = IF done THEN [lamp EXCEPT ![Now(c).to] = HueObeyed(Now(c).order, @)] ELSE lamp
  /\ goal' = IF done THEN goal ELSE NoGoal
  /\ UNCHANGED <<cache, toLamp, fromLamp, astray, guessed>>

\* http_post_json to port 8125: the answer does not matter.
PostHue(c, done) ==
  /\ At(c, "send") /\ Now(c).to \in HueIds
  /\ AskHue(c, done)
  /\ Proceed(c, [calls[c] EXCEPT !.todo = Tail(@)])

-----------------------------------------------------------------------------
(* Requests that are dropped                                               *)

\* The client goes away and axum drops the handler at the await where it is: in
\* the midst of a scene, or between an order and the query that follows it.  A
\* call of the Hue module may be on its way.
GiveUpLights(c) ==
  /\ calls[c].op = "lights" /\ calls[c].pc # "adrift"
  /\ goal' = NoGoal
  /\ astray' = IF At(c, "cache") \/ At(c, "query") THEN astray \cup {Now(c).to} ELSE astray
  /\ \/ Fail(c, Idle)
     \/ At(c, "send") /\ Now(c).to \in HueIds /\ Fail(c, Work("adrift", {}, <<>>, <<Now(c)>>))
  /\ UNCHANGED <<lamp, cache, toLamp, fromLamp, guessed>>

\* What is left of a dropped request: the call arrives, or not.
LandHue(c, done) ==
  /\ At(c, "adrift")
  /\ AskHue(c, done)
  /\ Return(c)

-----------------------------------------------------------------------------
(* Lamps and the listener                                                  *)

LampTakes(ip) ==
  /\ toLamp[ip] # <<>> /\ Len(fromLamp) < MaxWire
  /\ LET p == Head(toLamp[ip])
         Say(kind) == Append(fromLamp, [kind |-> kind, ip |-> ip, state |-> lamp[ip]])
     IN  /\ lamp' = IF p.kind = "order" THEN [lamp EXCEPT ![ip] = Obeyed(p.order, @)] ELSE lamp
         /\ fromLamp' = CASE p.kind = "order" -> fromLamp
                           [] p.kind = "query" -> Say("devStatus")
                           [] p.kind = "scan" -> Say("scan")
  /\ toLamp' = [toLamp EXCEPT ![ip] = Tail(@)]
  /\ UNCHANGED <<cache, astray, guessed, goal, requestVars>>

\* handle_incoming_packet: a scan adds a lamp as if it were off.
Receive ==
  /\ fromLamp # <<>>
  /\ fromLamp' = Tail(fromLamp)
  /\ LET p == Head(fromLamp)
         new == p.kind = "scan" /\ cache[p.ip] = Unknown
     IN  /\ cache' = CASE p.kind = "devStatus" -> [cache EXCEPT ![p.ip] = p.state]
                        [] new -> [cache EXCEPT ![p.ip] = NewEntry(FALSE)]
                        [] OTHER -> cache
         /\ guessed' = CASE p.kind = "devStatus" -> guessed \ {p.ip}
                          [] new -> guessed \cup {p.ip}
                          [] OTHER -> guessed
  /\ UNCHANGED <<lamp, toLamp, astray, goal, requestVars>>

Lose(ip) ==
  /\ Brief
  /\ \/ /\ toLamp[ip] # <<>>
        /\ toLamp' = [toLamp EXCEPT ![ip] = Tail(@)]
        /\ UNCHANGED fromLamp
     \/ /\ fromLamp # <<>> /\ Head(fromLamp).ip = ip
        /\ fromLamp' = Tail(fromLamp)
        /\ UNCHANGED toLamp
  /\ astray' = astray \cup {ip}
  /\ goal' = NoGoal
  /\ UNCHANGED <<lamp, cache, guessed>>

\* Somebody uses the switch or the vendor's app.
Switch(ip) ==
  /\ Brief
  /\ lamp' = [lamp EXCEPT ![ip].on = ~@]
  /\ astray' = astray \cup {ip}
  /\ goal' = NoGoal
  /\ UNCHANGED <<cache, toLamp, fromLamp, guessed>>

\* The module starts: an empty cache, a new socket and a scan.
StartLights(lamps, wires) ==
  /\ lamp' = lamps
  /\ cache' = [ip \in Lamps |-> Unknown]
  /\ toLamp' = [ip \in Lamps |-> Append(wires[ip], [kind |-> "scan"])]
  /\ fromLamp' = <<>>
  /\ astray' = {ip \in Lamps : wires[ip] # <<>>}
  /\ guessed' = {}
  /\ goal' = NoGoal
RestartLights == StartLights(lamp, toLamp)

LightInit ==
  /\ lamp = [l \in Lamps \cup HueIds |-> [NewEntry(TRUE) EXCEPT !.level = 50]]
  /\ cache = [ip \in Lamps |-> Unknown]
  /\ toLamp = [ip \in Lamps |-> <<[kind |-> "scan"]>>]
  /\ fromLamp = <<>> /\ astray = {} /\ guessed = {} /\ goal = NoGoal

LightRequest(c) ==
  \E ip \in Lamps :
    \/ Toggle(c, ip) \/ AskStatus(c, ip)
    \/ \E b \in Levels : SetLight(c, ip, Brightness(b))
    \/ \E k \in Kelvins : SetLight(c, ip, Temp(k))
    \/ \E on \in BOOLEAN : SetLight(c, ip, Power(on))
    \/ SetLight(c, ip, Color("red"))

LightStep(c) ==
  \/ \E seen \in BOOLEAN : TakeSnapshot(c, seen)
  \/ SendOrder(c) \/ UpdateCache(c) \/ QueryStatus(c) \/ SendFails(c) \/ GiveUpLights(c)
  \/ \E done \in BOOLEAN : PostHue(c, done) \/ LandHue(c, done)

LightWorld == Receive \/ \E ip \in Lamps : LampTakes(ip) \/ Lose(ip) \/ Switch(ip)

-----------------------------------------------------------------------------
(* Properties                                                              *)

Settled(ip) ==
  /\ toLamp[ip] = <<>>
  /\ \A i \in DOMAIN fromLamp : fromLamp[i].ip # ip
  /\ \A c \in Lit : \A i \in DOMAIN calls[c].todo : calls[c].todo[i].to # ip

\* However orders overlap, once all packets have arrived the cache has what
\* the lamp does, for each order is followed by a query of its own and packets
\* stay in order; but not when, since the last query, a packet was lost, the
\* query was not sent or its request dropped before it, or somebody else moved
\* the lamp, nor when a scan alone has told of it.  (govee.rs 98-241, 254-316)
CacheAgrees ==
  \A ip \in Lamps \ (astray \cup guessed) :
    Settled(ip) /\ cache[ip] # Unknown => cache[ip] = lamp[ip]

\* A scene that went through to its end, and that nothing has come in between,
\* leaves every light of the room as it asks, Govee lamps and Hue lights alike,
\* each within its own range: not one whose request was dropped half way, or one
\* with a send or a call that failed.  (main.rs 2073-2151, 1901-2019)
SceneApplied ==
  Lit = {} /\ goal # NoGoal =>
    \A i \in DOMAIN Devices :
      LET d == Devices[i]
          s == IF d.hue THEN lamp[d.id] ELSE lamp[d.ip]
      IN  d.id \in goal.ids /\ (d.hue \/ (d.ip \in Lamps /\ Settled(d.ip))) =>
            /\ s.on = goal.on
            /\ goal.level # 0 => s.level = IF d.hue THEN HueBri(goal.level) ELSE goal.level
            /\ goal.kelvin # 0 => s.kelvin = IF d.hue THEN HueCt(goal.kelvin) ELSE goal.kelvin
            /\ goal.rgb # "none" /\ ~d.hue => s.rgb = goal.rgb
=============================================================================
