-------------------------- MODULE CommandPortsProofs --------------------------
(***************************************************************************)
(* The sockets of the three receivers, for any ports, any programs on the  *)
(* host and any number of Saves.  NetOK is what every startListening and   *)
(* setPort keeps: a bound receiver is on its port and alone there, and a   *)
(* team receiver that is not bound never was, since its port in the        *)
(* settings does not change while the program runs.                        *)
(***************************************************************************)
EXTENDS CommandPortsClaims, TLAPS

NetType == [sock : PortOf, current : PortOf, links : [Receivers -> 0 .. 1]]

BoundAsSet(n, s, f) ==
  \A r \in Receivers :
    n.sock[r] # None =>
      /\ n.sock[r] = s[r]
      /\ n.current[r] = s[r]
      /\ n.sock[r] \notin f
      /\ \A q \in Receivers : n.sock[q] = n.sock[r] => q = r
      /\ n.links[r] = 1

NeverBound(n) ==
  \A t \in Teams : n.sock[t] = None => n.current[t] = None /\ n.links[t] = 0

NetOK(n, s, f) == n \in NetType /\ BoundAsSet(n, s, f) /\ NeverBound(n)

LEMMA ClosedOK ==
  ASSUME NEW s \in [Receivers -> Ports], NEW f
  PROVE  NetOK(Closed, s, f)
  BY PortsAssumption
     DEF NetOK, NetType, BoundAsSet, NeverBound, Closed, PortOf, Receivers, Teams

-----------------------------------------------------------------------------
(* A bind of a receiver that is not bound.                                 *)

LEMMA BindOK ==
  ASSUME NEW s \in [Receivers -> Ports], NEW n, NEW r \in Receivers,
         NetOK(n, s, foreign), n.sock[r] = None, Available(n, s[r])
  PROVE  LET b == [sock    |-> [n.sock EXCEPT ![r] = s[r]],
                   current |-> [n.current EXCEPT ![r] = s[r]],
                   links   |-> [n.links EXCEPT ![r] = Linked(n, r)]]
         IN  NetOK(b, s, foreign)
<1> DEFINE sock    == [n.sock EXCEPT ![r] = s[r]]
           current == [n.current EXCEPT ![r] = s[r]]
           links   == [n.links EXCEPT ![r] = Linked(n, r)]
           b       == [sock |-> sock, current |-> current, links |-> links]
<1>1. /\ n.sock \in PortOf /\ n.current \in PortOf /\ n.links \in [Receivers -> 0 .. 1]
  BY DEF NetOK, NetType
<1>2. s[r] \in Ports /\ s[r] # None
  BY PortsAssumption
<1>3. Linked(n, r) = 1
  BY DEF Linked, NetOK, NeverBound, Teams
<1>4. sock \in PortOf /\ current \in PortOf
  BY <1>1, <1>2 DEF PortOf
<1>5. links \in [Receivers -> 0 .. 1]
  BY <1>1, <1>3
<1>6. \A q \in Receivers : sock[q] = IF q = r THEN s[r] ELSE n.sock[q]
  BY <1>1 DEF PortOf
<1>7. \A q \in Receivers : current[q] = IF q = r THEN s[r] ELSE n.current[q]
  BY <1>1 DEF PortOf
<1>8. \A q \in Receivers : links[q] = IF q = r THEN 1 ELSE n.links[q]
  BY <1>1, <1>3
<1> HIDE DEF sock, current, links
<1>9. b \in NetType
  BY <1>4, <1>5 DEF NetType
<1>10. BoundAsSet(b, s, foreign)
  <2> SUFFICES ASSUME NEW q \in Receivers, sock[q] # None
               PROVE  /\ sock[q] = s[q]
                      /\ current[q] = s[q]
                      /\ sock[q] \notin foreign
                      /\ \A o \in Receivers : sock[o] = sock[q] => o = q
                      /\ links[q] = 1
    BY DEF BoundAsSet
  <2>1. s[r] \notin foreign /\ \A o \in Receivers : n.sock[o] # s[r]
    BY DEF Available
  <2>2. CASE q = r
    BY <1>6, <1>7, <1>8, <2>1, <2>2
  <2>3. CASE q # r
    <3>1. n.sock[q] # None /\ sock[q] = n.sock[q]
      BY <1>6, <2>3
    <3>2. /\ n.sock[q] = s[q] /\ n.current[q] = s[q] /\ n.sock[q] \notin foreign
          /\ \A o \in Receivers : n.sock[o] = n.sock[q] => o = q
          /\ n.links[q] = 1
      BY <3>1 DEF NetOK, BoundAsSet
    <3>3. QED
      BY <1>6, <1>7, <1>8, <2>1, <2>3, <3>1, <3>2
  <2>4. QED
    BY <2>2, <2>3
<1>11. NeverBound(b)
  BY <1>2, <1>6, <1>7, <1>8 DEF NetOK, NeverBound, Teams, Receivers
<1>12. QED
  BY <1>9, <1>10, <1>11 DEF NetOK, sock, current, links

LEMMA StartOK ==
  ASSUME NEW s \in [Receivers -> Ports], NEW n, NEW r \in Receivers,
         NetOK(n, s, foreign)
  PROVE  NetOK(StartListening(n, r, s[r]), s, foreign)
  BY BindOK DEF StartListening

(* A team receiver keeps the port it has, and is not closed: there is      *)
(* nothing to close.                                                       *)
LEMMA TeamSet ==
  ASSUME NEW s \in [Receivers -> Ports], NEW n, NEW t \in Teams, NetOK(n, s, foreign)
  PROVE  SetPort(n, t, s[t]) = StartListening(n, t, s[t])
<1>1. t \in Receivers /\ s[t] \in Ports /\ s[t] # None
  BY PortsAssumption DEF Receivers
<1>2. CASE n.sock[t] # None
  <2>1. n.current[t] = s[t]
    BY <1>1, <1>2 DEF NetOK, BoundAsSet
  <2>2. QED
    BY <1>2, <2>1 DEF SetPort, StartListening
<1>3. CASE n.sock[t] = None
  <2>1. n.current[t] # s[t]
    BY <1>1, <1>3 DEF NetOK, NeverBound
  <2>2. StopListening(n, t) = n
    <3>1. [n.sock EXCEPT ![t] = None] = n.sock
      BY <1>1, <1>3 DEF NetOK, NetType, PortOf
    <3>2. QED
      BY <3>1 DEF StopListening, NetOK, NetType
  <2>3. QED
    BY <2>1, <2>2 DEF SetPort
<1>4. QED
  BY <1>2, <1>3

LEMMA TeamSetOK ==
  ASSUME NEW s \in [Receivers -> Ports], NEW n, NEW t \in Teams, NetOK(n, s, foreign)
  PROVE  NetOK(SetPort(n, t, s[t]), s, foreign)
  BY TeamSet, StartOK DEF Receivers

(* The command receiver may be moved to any port.                          *)
LEMMA CommandSetOK ==
  ASSUME NEW s \in [Receivers -> Ports], NEW n, NEW p \in Ports, NetOK(n, s, foreign)
  PROVE  NetOK(SetPort(n, "command", p), [s EXCEPT !["command"] = p], foreign)
<1> DEFINE new == [s EXCEPT !["command"] = p]
           stopped == StopListening(n, "command")
<1>1. /\ new \in [Receivers -> Ports] /\ "command" \in Receivers
      /\ new["command"] = p
      /\ \A q \in Receivers : q # "command" => new[q] = s[q]
  BY DEF Receivers
<1> HIDE DEF new
<1>2. CASE p = n.current["command"]
  <2>1. n.sock["command"] # None => n.current["command"] = s["command"]
    BY <1>1 DEF NetOK, BoundAsSet
  <2>2. BoundAsSet(n, new, foreign)
    BY <1>1, <1>2, <2>1 DEF NetOK, BoundAsSet
  <2>3. QED
    BY <1>2, <2>2 DEF SetPort, NetOK, new
<1>3. CASE p # n.current["command"]
  <2>1. /\ stopped \in NetType
        /\ stopped.current = n.current /\ stopped.links = n.links
        /\ stopped.sock = [n.sock EXCEPT !["command"] = None]
    BY <1>1 DEF StopListening, NetOK, NetType, PortOf
  <2>2. \A q \in Receivers : stopped.sock[q] = IF q = "command" THEN None ELSE n.sock[q]
    BY <1>1, <2>1 DEF NetOK, NetType, PortOf
  <2> HIDE DEF stopped
  <2>3. BoundAsSet(stopped, new, foreign)
    BY <1>1, <2>1, <2>2 DEF NetOK, BoundAsSet
  <2>4. NeverBound(stopped)
    BY <2>1, <2>2 DEF NetOK, NeverBound, Teams, Receivers
  <2>5. NetOK(StartListening(stopped, "command", p), new, foreign)
    BY <1>1, <2>1, <2>3, <2>4, StartOK DEF NetOK
  <2>6. QED
    BY <1>3, <2>5 DEF SetPort, stopped, new
<1>4. QED
  BY <1>2, <1>3

-----------------------------------------------------------------------------
PortsInv ==
  /\ TypeOK
  /\ NetOK(net, setting, foreign)
  /\ ~running => net = Closed

(* The three receivers of a Save, and of a start, in their order.          *)
Saved(p) == SetPort(SetPort(SetPort(net, "command", p), "blue", setting["blue"]),
                    "yellow", setting["yellow"])

LEMMA SaveOK ==
  ASSUME PortsInv, NEW p \in Ports
  PROVE  NetOK(Saved(p), [setting EXCEPT !["command"] = p], foreign)
<1> DEFINE new == [setting EXCEPT !["command"] = p]
           first == SetPort(net, "command", p)
           second == SetPort(first, "blue", new["blue"])
           third == SetPort(second, "yellow", new["yellow"])
<1>1. /\ new \in [Receivers -> Ports]
      /\ new["blue"] = setting["blue"] /\ new["yellow"] = setting["yellow"]
      /\ "blue" \in Teams /\ "yellow" \in Teams
  BY DEF PortsInv, TypeOK, Receivers, Teams
<1>2. NetOK(first, new, foreign)
  BY CommandSetOK DEF PortsInv, TypeOK
<1>3. Saved(p) = third
  BY <1>1 DEF Saved
<1> HIDE DEF new, first
<1>4. NetOK(second, new, foreign)
  BY <1>1, <1>2, TeamSetOK
<1> HIDE DEF second
<1>5. NetOK(third, new, foreign)
  BY <1>1, <1>4, TeamSetOK
<1>6. QED
  BY <1>3, <1>5 DEF new

LEMMA PortsInvHolds == Spec => []PortsInv
<1>1. Init => PortsInv
  <2> SUFFICES ASSUME Init PROVE PortsInv
    OBVIOUS
  <2>1. NetOK(Closed, setting, foreign)
    BY ClosedOK DEF Init
  <2>2. QED
    BY <2>1 DEF Init, PortsInv, TypeOK, NetOK, NetType
<1>2. PortsInv /\ [Next]_vars => PortsInv'
  <2> SUFFICES ASSUME PortsInv, [Next]_vars PROVE PortsInv'
    OBVIOUS
  <2>1. CASE Start
    <3> DEFINE first == StartListening(Closed, "command", setting["command"])
               second == StartListening(first, "blue", setting["blue"])
               third == StartListening(second, "yellow", setting["yellow"])
    <3>1. setting \in [Receivers -> Ports] /\ {"command", "blue", "yellow"} \subseteq Receivers
      BY DEF PortsInv, TypeOK, Receivers, Teams
    <3>2. net' = third
      BY <2>1 DEF Start
    <3>3. NetOK(first, setting, foreign)
      BY <3>1, ClosedOK, StartOK
    <3> HIDE DEF first
    <3>4. NetOK(second, setting, foreign)
      BY <3>1, <3>3, StartOK
    <3> HIDE DEF second
    <3>5. NetOK(third, setting, foreign)
      BY <3>1, <3>4, StartOK
    <3> HIDE DEF third
    <3>6. QED
      BY <2>1, <3>2, <3>5 DEF Start, PortsInv, TypeOK, NetOK, NetType
  <2>2. CASE Quit
    <3>1. NetOK(Closed, setting, foreign)
      BY ClosedOK DEF PortsInv, TypeOK
    <3>2. QED
      BY <2>2, <3>1 DEF Quit, PortsInv, TypeOK, NetOK, NetType
  <2>3. CASE EditConfig
    <3>1. NetOK(Closed, setting', foreign)
      BY <2>3, ClosedOK DEF EditConfig
    <3>2. QED
      BY <2>3, <3>1 DEF EditConfig, PortsInv, TypeOK
  <2>4. CASE \E p \in Ports : Save(p)
    <3>1. PICK p \in Ports : Save(p)
      BY <2>4
    <3>2. NetOK(Saved(p), [setting EXCEPT !["command"] = p], foreign)
      BY SaveOK
    <3>3. net' = Saved(p) /\ setting' = [setting EXCEPT !["command"] = p]
      BY <3>1 DEF Save, Saved
    <3>4. setting' \in [Receivers -> Ports]
      BY <3>3 DEF PortsInv, TypeOK
    <3> HIDE DEF Saved
    <3>5. QED
      BY <3>1, <3>2, <3>3, <3>4 DEF Save, PortsInv, TypeOK, NetOK, NetType
  <2>5. CASE Others
    <3>1. BoundAsSet(net, setting, foreign')
      BY <2>5 DEF Others, Available, PortsInv, NetOK, BoundAsSet
    <3>2. NetOK(net, setting, foreign')
      BY <3>1 DEF PortsInv, NetOK
    <3>3. foreign' \in SUBSET Ports
      BY <2>5 DEF Others, PortsInv, TypeOK
    <3>4. QED
      BY <2>5, <3>2, <3>3 DEF Others, PortsInv, TypeOK
  <2>6. CASE UNCHANGED vars
    BY <2>6 DEF vars, PortsInv, TypeOK
  <2>7. QED
    BY <2>1, <2>2, <2>3, <2>4, <2>5, <2>6 DEF Next
<1>3. QED
  BY <1>1, <1>2, PTL DEF Spec

(* Ports and sockets are well typed, and no receiver is ever      *)
(* connected twice (the blue one lacks Qt::UniqueConnection).              *)
THEOREM PortsTypeCorrect == Spec => []TypeOK
  BY PortsInvHolds, PTL DEF PortsInv

(* A bound receiver is on the port of the settings, alone, and connected   *)
(* once, for any ports and any programs on the host.                       *)
THEOREM BoundToSetting == Spec => []ListensOnSetting
<1>1. PortsInv => ListensOnSetting
  BY DEF PortsInv, NetOK, BoundAsSet, ListensOnSetting
<1>2. QED
  BY <1>1, PortsInvHolds, PTL

-----------------------------------------------------------------------------
(* A bind of one receiver takes nobody else's port away.                   *)
LEMMA StartOnlyBinds ==
  ASSUME NEW s \in [Receivers -> Ports], NEW n, NEW r \in Receivers,
         NetOK(n, s, foreign)
  PROVE  /\ \A q \in Receivers :
              n.sock[q] # None => StartListening(n, r, s[r]).sock[q] = n.sock[q]
         /\ StartListening(n, r, s[r]).sock[r] # None \/ ~Available(n, s[r])
<1>1. n.sock \in PortOf /\ s[r] # None
  BY PortsAssumption DEF NetOK, NetType
<1>2. CASE n.sock[r] = None /\ Available(n, s[r])
  <2>1. StartListening(n, r, s[r]).sock = [n.sock EXCEPT ![r] = s[r]]
    BY <1>2 DEF StartListening
  <2>2. QED
    BY <1>1, <1>2, <2>1 DEF PortOf
<1>3. CASE ~(n.sock[r] = None /\ Available(n, s[r]))
  <2>1. StartListening(n, r, s[r]) = n
    BY <1>3 DEF StartListening
  <2>2. QED
    BY <1>3, <2>1
<1>4. QED
  BY <1>2, <1>3

(* Nor does it bind or close another receiver.                             *)
LEMMA StartLeavesOthers ==
  ASSUME NEW s \in [Receivers -> Ports], NEW n, NEW r \in Receivers,
         NetOK(n, s, foreign), NEW q \in Receivers, q # r
  PROVE  StartListening(n, r, s[r]).sock[q] = n.sock[q]
<1>1. n.sock \in PortOf
  BY DEF NetOK, NetType
<1>2. StartListening(n, r, s[r]).sock \in {n.sock, [n.sock EXCEPT ![r] = s[r]]}
  BY DEF StartListening
<1>3. QED
  BY <1>1, <1>2 DEF PortOf

(* After a Save a team receiver is bound, or its port is somebody else's.  *)
THEOREM TeamPortsComeBack == Spec => TeamPortsHeal
<1>1. PortsInv /\ [Next]_vars =>
        [\A p \in Ports, t \in Teams :
           Save(p) => net'.sock[t] # None \/ ~Available(net', setting[t])]_vars
  <2> SUFFICES ASSUME PortsInv, NEW p \in Ports, NEW t \in Teams, Save(p)
               PROVE  net'.sock[t] # None \/ ~Available(net', setting[t])
    OBVIOUS
  <2> DEFINE new == [setting EXCEPT !["command"] = p]
             first == SetPort(net, "command", p)
             second == StartListening(first, "blue", new["blue"])
             third == StartListening(second, "yellow", new["yellow"])
  <2>1. /\ new \in [Receivers -> Ports]
        /\ new["blue"] = setting["blue"] /\ new["yellow"] = setting["yellow"]
        /\ "blue" \in Teams /\ "yellow" \in Teams /\ Teams \subseteq Receivers
    BY DEF PortsInv, TypeOK, Receivers, Teams
  <2>2. net' = SetPort(SetPort(first, "blue", new["blue"]), "yellow", new["yellow"])
    BY <2>1 DEF Save
  <2>3. NetOK(first, new, foreign)
    BY CommandSetOK DEF PortsInv, TypeOK
  <2> HIDE DEF new, first
  <2>4. SetPort(first, "blue", new["blue"]) = second
    BY <2>1, <2>3, TeamSet
  <2>5. NetOK(second, new, foreign)
    BY <2>1, <2>3, StartOK
  <2>6. /\ \A q \in Receivers : first.sock[q] # None => second.sock[q] = first.sock[q]
        /\ second.sock["blue"] # None \/ ~Available(first, new["blue"])
    BY <2>1, <2>3, StartOnlyBinds
  <2> HIDE DEF second
  <2>7. net' = third
    BY <2>1, <2>2, <2>4, <2>5, TeamSet
  <2>8. /\ \A q \in Receivers : second.sock[q] # None => third.sock[q] = second.sock[q]
        /\ third.sock["yellow"] # None \/ ~Available(second, new["yellow"])
    BY <2>1, <2>5, StartOnlyBinds
  <2> HIDE DEF third
  <2>9. setting[t] # None
    BY <2>1, PortsAssumption DEF PortsInv, TypeOK
  <2>10. CASE t = "blue"
    BY <2>1, <2>6, <2>7, <2>8, <2>9, <2>10 DEF Available
  <2>11. CASE t = "yellow"
    BY <2>1, <2>7, <2>8, <2>9, <2>11 DEF Available
  <2>12. QED
    BY <2>10, <2>11 DEF Teams
<1>2. QED
  BY <1>1, PortsInvHolds, PTL DEF Spec, TeamPortsHeal

(* What CommandPortHeals leaves: the one Save that does not bind a free    *)
(* port is that of the very port the command receiver had and lost.        *)
CommandPortMoves ==
  [][\A p \in Ports :
       Save(p) /\ Available([net EXCEPT !.sock["command"] = None], p) =>
         \/ net'.sock["command"] = p
         \/ net.current["command"] = p /\ net.sock["command"] = None
              /\ net'.sock["command"] = None]_vars

(* A Save of any other port that is free makes the command receiver listen *)
(* there: the team receivers, whose turn comes later, take nothing away    *)
(* from it (setPort, startListening).                                      *)
THEOREM CommandPortCanMove == Spec => CommandPortMoves
<1>1. PortsInv /\ [Next]_vars =>
        [\A p \in Ports :
           Save(p) /\ Available([net EXCEPT !.sock["command"] = None], p) =>
             \/ net'.sock["command"] = p
             \/ net.current["command"] = p /\ net.sock["command"] = None
                  /\ net'.sock["command"] = None]_vars
  <2> SUFFICES ASSUME PortsInv, NEW p \in Ports, Save(p),
                      Available([net EXCEPT !.sock["command"] = None], p)
               PROVE  \/ net'.sock["command"] = p
                      \/ net.current["command"] = p /\ net.sock["command"] = None
                           /\ net'.sock["command"] = None
    OBVIOUS
  <2> DEFINE new == [setting EXCEPT !["command"] = p]
             stopped == StopListening(net, "command")
             first == SetPort(net, "command", p)
             second == StartListening(first, "blue", new["blue"])
             third == StartListening(second, "yellow", new["yellow"])
  <2>1. /\ new \in [Receivers -> Ports]
        /\ new["blue"] = setting["blue"] /\ new["yellow"] = setting["yellow"]
        /\ "blue" \in Teams /\ "yellow" \in Teams /\ Teams \subseteq Receivers
        /\ "command" \in Receivers
    BY DEF PortsInv, TypeOK, Receivers, Teams
  <2>2. net' = SetPort(SetPort(first, "blue", new["blue"]), "yellow", new["yellow"])
    BY <2>1 DEF Save
  <2>3. NetOK(first, new, foreign)
    BY CommandSetOK DEF PortsInv, TypeOK
  <2>4. \/ first.sock["command"] = p
        \/ net.current["command"] = p /\ first = net /\ net.sock["command"] # p
    <3>1. CASE p = net.current["command"]
      BY <3>1 DEF SetPort
    <3>2. CASE p # net.current["command"]
      <4>1. first = StartListening(stopped, "command", p)
        BY <3>2 DEF SetPort
      <4>2. /\ stopped.sock["command"] = None /\ Available(stopped, p)
            /\ stopped.sock \in PortOf
        BY <2>1 DEF StopListening, PortsInv, NetOK, NetType, PortOf
      <4>3. first.sock = [stopped.sock EXCEPT !["command"] = p]
        BY <4>1, <4>2 DEF StartListening
      <4> QED
        BY <2>1, <4>2, <4>3 DEF PortOf
    <3> QED
      BY <3>1, <3>2
  <2> HIDE DEF new, first
  <2>5. SetPort(first, "blue", new["blue"]) = second
    BY <2>1, <2>3, TeamSet
  <2>6. NetOK(second, new, foreign)
    BY <2>1, <2>3, StartOK
  <2>7. second.sock["command"] = first.sock["command"]
    BY <2>1, <2>3, StartLeavesOthers DEF Teams
  <2> HIDE DEF second
  <2>8. net' = third
    BY <2>1, <2>2, <2>5, <2>6, TeamSet
  <2>9. third.sock["command"] = second.sock["command"]
    BY <2>1, <2>6, StartLeavesOthers DEF Teams
  <2> HIDE DEF third
  <2>10. net.sock["command"] # None /\ net.current["command"] = p => net.sock["command"] = p
    BY <2>1 DEF PortsInv, NetOK, BoundAsSet
  <2> QED
    BY <2>4, <2>7, <2>8, <2>9, <2>10
<1>2. QED
  BY <1>1, PortsInvHolds, PTL DEF Spec, CommandPortMoves

=============================================================================
