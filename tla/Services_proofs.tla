---------------------------- MODULE Services_proofs ----------------------------
(***************************************************************************)
(* For any library, any plugins that need one another and any scholars,    *)
(* batches and requests: the library holds what was stored and asked for,  *)
(* the plugin pages show what runs, the right parents are reminded once.   *)
(* For any accounts, roles, tokens and requests: sessions end with the     *)
(* account or its password, a refresh token is traded once, an account has *)
(* one role, and the last super admin stays.                               *)
(*                                                                         *)
(* Each request reads, and writes later; what it read is still so as long  *)
(* as nobody overtook it, and a history variable tells when somebody did.  *)
(***************************************************************************)
EXTENDS Services, Access, FiniteSetTheorems, SequenceTheorems, TLAPS

-----------------------------------------------------------------------------
(* The reminders.                                                          *)

\* Whoever a firing is about to remind was not reminded yet.
FiringsFresh ==
    overrun \/ /\ \A w \in Bell : firing[w] # NotFired =>
                     \A s \in DOMAIN firing[w].events : reminders[s] = <<>>
               /\ \A s \in Scholar : Len(reminders[s]) <= 1

\* A batch has at most one row, and what a replacement read is still so.
RowsAsRead ==
    tangled \/ /\ \A b \in Stream : Len(switch[b]) <= 1
               /\ \A c \in Chooser : choosing[c] # NotChoosing =>
                     /\ choosing[c].read = switch
                     /\ \A b \in Stream : choosing[c].pick[b] = Len(switch[b])
               /\ Switched = asked

RemindersInv == RemindersTypeOK /\ FiringsFresh /\ RowsAsRead

LEMMA RemindersStart == RemindersInit => RemindersInv
<1> SUFFICES ASSUME RemindersInit PROVE RemindersInv
  OBVIOUS
<1> USE DEF RemindersInit
<1>1. RemindersTypeOK
  <2>1. switch \in [Stream -> Seq(BOOLEAN)] /\ reminders \in [Scholar -> Seq(SUBSET Topic)]
    OBVIOUS
  <2> QED
    BY <2>1 DEF RemindersTypeOK
<1>2. FiringsFresh
  BY DEF FiringsFresh
<1>3. Switched = asked
  BY DEF Switched
<1> QED
  BY <1>1, <1>2, <1>3 DEF RemindersInv, RowsAsRead

LEMMA FunIsSeq ==
    ASSUME NEW S, NEW n \in Nat, NEW f \in [1 .. n -> S]
    PROVE  f \in Seq(S) /\ Len(f) = n
OBVIOUS

LEMMA OneIsSeq ==
    ASSUME NEW S, NEW x \in S
    PROVE  <<x>> \in Seq(S) /\ <<>> \in Seq(S)
OBVIOUS

\* What is stored of a batch after a replacement that read what is there.
LEMMA ChosenRow ==
    ASSUME NEW v, NEW b \in Stream, switch \in [Stream -> Seq(BOOLEAN)],
           v.pick[b] = Len(switch[b]), Len(switch[b]) <= 1, v.read[b] = switch[b]
    PROVE  /\ Chosen(v, b) \in Seq(BOOLEAN) /\ Len(Chosen(v, b)) <= 1
           /\ (\E n \in DOMAIN Chosen(v, b) : Chosen(v, b)[n]) <=> b \in v.wanted
<1> DEFINE kept == [n \in DOMAIN switch[b] |->
                      IF n = v.pick[b] /\ v.read[b][n] # (b \in v.wanted) THEN b \in v.wanted ELSE switch[b][n]]
           added == IF v.pick[b] = 0 /\ b \in v.wanted THEN <<TRUE>> ELSE <<>>
<1>1. Chosen(v, b) = kept \o added
  BY DEF Chosen
<1>2. switch[b] \in Seq(BOOLEAN) /\ DOMAIN switch[b] = 1 .. Len(switch[b]) /\ Len(switch[b]) \in Nat
  OBVIOUS
<1>3. CASE Len(switch[b]) = 0
  <2>1. kept = <<>>
    BY <1>2, <1>3
  <2>2. Chosen(v, b) = added
    BY <1>1, <2>1
  <2>3. CASE b \in v.wanted
    <3>1. Chosen(v, b) = <<TRUE>>
      BY <2>2, <2>3, <1>3
    <3>2. <<TRUE>> \in Seq(BOOLEAN)
      BY OneIsSeq, TRUE \in BOOLEAN, Zenon
    <3>3. DOMAIN Chosen(v, b) = {1} /\ Chosen(v, b)[1] = TRUE /\ Len(Chosen(v, b)) = 1
      BY <3>1
    <3>4. Chosen(v, b)[1]
      BY <3>3
    <3>5. \E n \in DOMAIN Chosen(v, b) : Chosen(v, b)[n]
      BY <3>3, <3>4, Zenon
    <3> QED
      BY <3>1, <3>2, <3>3, <3>5, <2>3
  <2>4. CASE b \notin v.wanted
    BY <2>2, <2>4, <1>3
  <2> QED
    BY <2>3, <2>4
<1>4. CASE Len(switch[b]) = 1
  <2>1. added = <<>>
    BY <1>4
  <2>2. DOMAIN kept = 1 .. 1 /\ kept[1] = (b \in v.wanted)
    BY <1>2, <1>4
  <2>3. kept \in Seq(BOOLEAN) /\ Len(kept) = 1
    <3>1. kept[1] \in BOOLEAN
      <4>1. (b \in v.wanted) \in BOOLEAN
        OBVIOUS
      <4> QED
        BY <2>2, <4>1, Zenon
    <3>2. \A n \in 1 .. 1 : kept[n] \in BOOLEAN
      BY <3>1, 1 .. 1 = {1}
    <3>3. kept \in [1 .. 1 -> BOOLEAN]
      BY <3>2, <2>2, Zenon
    <3> QED
      BY <3>3, FunIsSeq
  <2>4. Chosen(v, b) = kept
    BY <1>1, <2>1, <2>3
  <2> QED
    BY <2>2, <2>3, <2>4
<1> QED
  BY <1>2, <1>3, <1>4

\* Whatever was read, rows stay rows.
LEMMA ChosenTyped ==
    ASSUME NEW v, NEW b \in Stream, switch \in [Stream -> Seq(BOOLEAN)]
    PROVE  Chosen(v, b) \in Seq(BOOLEAN)
<1> DEFINE kept == [n \in DOMAIN switch[b] |->
                      IF n = v.pick[b] /\ v.read[b][n] # (b \in v.wanted) THEN b \in v.wanted ELSE switch[b][n]]
           added == IF v.pick[b] = 0 /\ b \in v.wanted THEN <<TRUE>> ELSE <<>>
<1>1. switch[b] \in Seq(BOOLEAN) /\ DOMAIN switch[b] = 1 .. Len(switch[b]) /\ Len(switch[b]) \in Nat
  OBVIOUS
<1>2. kept \in Seq(BOOLEAN)
  <2>1. ASSUME NEW n \in DOMAIN switch[b] PROVE kept[n] \in BOOLEAN
    <3>1. switch[b][n] \in BOOLEAN /\ (b \in v.wanted) \in BOOLEAN
      BY <1>1
    <3>2. kept[n] = (b \in v.wanted) \/ kept[n] = switch[b][n]
      OBVIOUS
    <3> QED
      BY <3>1, <3>2, Zenon
  <2>2. kept \in [1 .. Len(switch[b]) -> BOOLEAN]
    BY <2>1, <1>1, Zenon
  <2> QED
    BY <2>2, <1>1, FunIsSeq
<1>3. added \in Seq(BOOLEAN)
  <2>1. <<TRUE>> \in Seq(BOOLEAN) /\ <<>> \in Seq(BOOLEAN)
    BY OneIsSeq, TRUE \in BOOLEAN, Zenon
  <2> QED
    BY <2>1, Zenon
<1>4. Chosen(v, b) = kept \o added
  BY DEF Chosen
<1> QED
  BY <1>2, <1>3, <1>4

\* A firing finds only scholars who were not reminded.
LEMMA FireKeeps ==
    ASSUME RemindersInv, NEW w \in Bell, Fire(w)
    PROVE  RemindersInv'
<1> USE DEF Fire, RemindersInv
<1> DEFINE e == [s \in Due |-> UNION {daybook[b] : b \in Announced(s)}]
<1>1. Due \subseteq Scholar /\ e \in [Due -> SUBSET Topic]
  <2>1. ASSUME NEW s \in Due PROVE UNION {daybook[b] : b \in Announced(s)} \subseteq Topic
    BY DEF Announced, RemindersTypeOK, Due
  <2> QED
    BY <2>1 DEF Due
<1>2. firing' = [firing EXCEPT ![w] = [kind |-> "fired", events |-> e]]
  OBVIOUS
<1>3. ASSUME NEW x \in Bell, firing'[x] # NotFired
      PROVE  firing[x] = firing'[x] \/ firing'[x] = [kind |-> "fired", events |-> e]
  BY <1>2, <1>3
<1> HIDE DEF e
<1>4. RemindersTypeOK'
  <2>1. ASSUME NEW x \in Bell
        PROVE  firing'[x] = NotFired \/ \E who \in SUBSET Scholar : firing'[x] \in [kind : {"fired"}, events : [who -> SUBSET Topic]]
    <3>1. CASE firing'[x] = [kind |-> "fired", events |-> e]
      BY <3>1, <1>1
    <3>2. CASE firing'[x] = NotFired
      BY <3>2
    <3>3. CASE firing'[x] # NotFired /\ firing[x] = firing'[x]
      BY <3>3 DEF RemindersTypeOK
    <3> QED
      BY <3>1, <3>2, <3>3, <1>3
  <2> QED
    BY <2>1 DEF RemindersTypeOK
<1>5. FiringsFresh'
  <2>1. ASSUME NEW s \in DOMAIN e PROVE reminders[s] = <<>>
    BY <1>1 DEF Due, Fresh, e
  <2> QED
    BY <2>1, <1>3 DEF FiringsFresh
<1>6. RowsAsRead'
  BY DEF RowsAsRead, Switched
<1> QED
  BY <1>4, <1>5, <1>6

\* Nobody was reminded since this firing read, or it is not alone.
LEMMA StoreRemindersKeeps ==
    ASSUME RemindersInv, NEW w \in Bell, StoreReminders(w)
    PROVE  RemindersInv'
<1> USE DEF StoreReminders, RemindersInv
<1> DEFINE e == firing[w].events
<1>1. PICK who \in SUBSET Scholar : firing[w] \in [kind : {"fired"}, events : [who -> SUBSET Topic]]
  BY DEF RemindersTypeOK
<1>2. e \in [who -> SUBSET Topic]
  BY <1>1
<1>3. reminders' = [s \in Scholar |-> IF s \in who THEN Append(reminders[s], e[s]) ELSE reminders[s]]
  BY <1>2
<1>4. RemindersTypeOK'
  <2>1. reminders' \in [Scholar -> Seq(SUBSET Topic)]
    BY <1>2, <1>3 DEF RemindersTypeOK
  <2>2. ASSUME NEW x \in Bell
        PROVE  firing'[x] = NotFired \/ \E k \in SUBSET Scholar : firing'[x] \in [kind : {"fired"}, events : [k -> SUBSET Topic]]
    BY DEF RemindersTypeOK, NotFired
  <2>3. overrun' \in BOOLEAN
    BY DEF RemindersTypeOK
  <2> QED
    BY <2>1, <2>2, <2>3 DEF RemindersTypeOK
<1>5. FiringsFresh'
  <2>1. CASE overrun'
    BY <2>1 DEF FiringsFresh
  <2>2. CASE ~ overrun'
    <3>1. ~ overrun /\ \A x \in Bell \ {w} : firing[x] = NotFired
      BY <2>2
    <3>2. \A x \in Bell : firing'[x] = NotFired
      BY <3>1 DEF RemindersTypeOK
    <3>3. \A s \in who : reminders[s] = <<>>
      BY <3>1, <1>2 DEF FiringsFresh
    <3>4. ASSUME NEW s \in Scholar PROVE Len(reminders'[s]) <= 1
      <4>1. CASE s \in who
        BY <4>1, <3>3, <1>2, <1>3
      <4>2. CASE s \notin who
        BY <4>2, <3>1, <1>3 DEF FiringsFresh
      <4> QED
        BY <4>1, <4>2
    <3> QED
      BY <3>2, <3>4 DEF FiringsFresh
  <2> QED
    BY <2>1, <2>2
<1>6. RowsAsRead'
  BY DEF RowsAsRead, Switched
<1> QED
  BY <1>4, <1>5, <1>6

LEMMA BeginChoiceKeeps ==
    ASSUME RemindersInv, NEW c \in Chooser, NEW wanted \in SUBSET Stream,
           NEW pick \in [Stream -> 0 .. Cardinality(Chooser)], BeginChoice(c, wanted, pick)
    PROVE  RemindersInv'
<1> USE DEF BeginChoice, RemindersInv
<1> DEFINE new == [kind |-> "choosing", wanted |-> wanted, pick |-> pick, read |-> switch]
<1>1. \A b \in Stream : switch[b] \in Seq(BOOLEAN)
  BY DEF RemindersTypeOK
<1>2. \A b \in Stream : pick[b] \in Nat
  BY <1>1
<1>3. pick \in [Stream -> Nat]
  BY <1>2
<1>4. ASSUME NEW d \in Chooser PROVE choosing'[d] = choosing[d] \/ choosing'[d] = new
  BY DEF NotChoosing
<1>5. new \in [kind : {"choosing"}, wanted : SUBSET Stream, pick : [Stream -> Nat], read : [Stream -> Seq(BOOLEAN)]]
  BY <1>3 DEF RemindersTypeOK
<1>6. new.read = switch /\ new.pick = pick
  OBVIOUS
<1> HIDE DEF new
<1>7. RemindersTypeOK'
  <2>1. \A d \in Chooser : choosing'[d] = NotChoosing
          \/ choosing'[d] \in [kind : {"choosing"}, wanted : SUBSET Stream, pick : [Stream -> Nat], read : [Stream -> Seq(BOOLEAN)]]
    BY <1>4, <1>5 DEF RemindersTypeOK
  <2> QED
    BY <2>1 DEF RemindersTypeOK
<1>8. RowsAsRead'
  <2>1. CASE tangled
    BY <2>1 DEF RowsAsRead
  <2>2. CASE ~ tangled
    <3>1. \A b \in Stream : Len(switch[b]) <= 1
      BY <2>2 DEF RowsAsRead
    <3>2. ASSUME NEW b \in Stream PROVE pick[b] = Len(switch[b])
      <4>1. CASE switch[b] = <<>>
        BY <4>1
      <4>2. CASE switch[b] # <<>>
        BY <4>2, <3>1, <1>1
      <4> QED
        BY <4>1, <4>2
    <3>3. \A d \in Chooser : choosing'[d] # NotChoosing =>
             choosing'[d].read = switch /\ \A b \in Stream : choosing'[d].pick[b] = Len(switch[b])
      BY <3>2, <1>4, <1>6, <2>2 DEF RowsAsRead
    <3>4. Switched' = asked'
      BY <2>2 DEF RowsAsRead, Switched
    <3> QED
      BY <3>1, <3>3, <3>4 DEF RowsAsRead
  <2> QED
    BY <2>1, <2>2
<1>9. FiringsFresh'
  BY DEF FiringsFresh
<1> QED
  BY <1>7, <1>8, <1>9

\* The rows become those asked for, and nobody holds what they were.
LEMMA CommitChoiceKeeps ==
    ASSUME RemindersInv, NEW c \in Chooser, CommitChoice(c)
    PROVE  RemindersInv'
<1> USE DEF CommitChoice, RemindersInv
<1> DEFINE v == choosing[c]
<1>1. switch \in [Stream -> Seq(BOOLEAN)] /\ v.wanted \subseteq Stream
  BY DEF RemindersTypeOK
<1>2. switch' = [b \in Stream |-> Chosen(v, b)] /\ asked' = v.wanted
  OBVIOUS
<1>3. RemindersTypeOK'
  <2>1. \A b \in Stream : Chosen(v, b) \in Seq(BOOLEAN)
    BY <1>1, ChosenTyped
  <2>2. switch' \in [Stream -> Seq(BOOLEAN)]
    BY <1>2, <2>1
  <2>3. \A d \in Chooser : choosing'[d] = NotChoosing \/ choosing'[d] = choosing[d]
    BY DEF NotChoosing
  <2>4. \A d \in Chooser : choosing'[d] = NotChoosing
          \/ choosing'[d] \in [kind : {"choosing"}, wanted : SUBSET Stream, pick : [Stream -> Nat], read : [Stream -> Seq(BOOLEAN)]]
    BY <2>3 DEF RemindersTypeOK
  <2>5. tangled' \in BOOLEAN
    BY DEF RemindersTypeOK
  <2> QED
    BY <1>1, <2>2, <2>4, <2>5 DEF RemindersTypeOK
<1>4. RowsAsRead'
  <2>1. CASE tangled'
    BY <2>1 DEF RowsAsRead
  <2>2. CASE ~ tangled'
    <3>1. ~ tangled /\ \A d \in Chooser \ {c} : choosing[d] = NotChoosing
      BY <2>2
    <3>2. v.read = switch /\ \A b \in Stream : Len(switch[b]) <= 1 /\ v.pick[b] = Len(switch[b])
      BY <3>1 DEF RowsAsRead
    <3>3. ASSUME NEW b \in Stream
          PROVE  /\ Len(Chosen(v, b)) <= 1
                 /\ (\E n \in DOMAIN Chosen(v, b) : Chosen(v, b)[n]) <=> b \in v.wanted
      <4> HIDE DEF v
      <4>1. v.read[b] = switch[b]
        BY <3>2
      <4> QED
        BY <1>1, <3>2, <4>1, ChosenRow
    <3>4. \A d \in Chooser : choosing'[d] = NotChoosing
      BY <3>1 DEF NotChoosing, RemindersTypeOK
    <3>5. \A b \in Stream : switch'[b] = Chosen(v, b)
      BY <1>2
    <3> HIDE DEF v
    <3>6. Switched' = {b \in Stream : b \in v.wanted}
      BY <3>3, <3>5 DEF Switched
    <3>7. Switched' = asked'
      BY <3>6, <1>1, <1>2
    <3>8. \A b \in Stream : Len(switch'[b]) <= 1
      BY <3>3, <3>5
    <3> QED
      BY <3>4, <3>7, <3>8 DEF RowsAsRead
  <2> QED
    BY <2>1, <2>2
<1>5. FiringsFresh'
  BY DEF FiringsFresh
<1> QED
  BY <1>3, <1>4, <1>5

LEMMA RemindersStep == RemindersInv /\ [RemindersNext]_remindersVars => RemindersInv'
<1> SUFFICES ASSUME RemindersInv, [RemindersNext]_remindersVars PROVE RemindersInv'
  OBVIOUS
<1>1. ASSUME NEW w \in Bell, DropFiring(w) PROVE RemindersInv'
  BY <1>1 DEF DropFiring, RemindersInv, RemindersTypeOK, FiringsFresh, RowsAsRead, Switched
<1>2. ASSUME NEW c \in Chooser, DropChoice(c) PROVE RemindersInv'
  BY <1>2 DEF DropChoice, RemindersInv, RemindersTypeOK, FiringsFresh, RowsAsRead, Switched
<1>3. ASSUME NEW b \in Stream, NEW ts \in SUBSET Topic, Replan(b, ts) PROVE RemindersInv'
  BY <1>3 DEF Replan, RemindersInv, RemindersTypeOK, FiringsFresh, RowsAsRead, Switched
<1>4. CASE SetMaster
  BY <1>4 DEF SetMaster, RemindersInv, RemindersTypeOK, FiringsFresh, RowsAsRead, Switched
<1>5. CASE Later
  BY <1>5 DEF Later, RemindersInv, RemindersTypeOK, FiringsFresh, RowsAsRead, Switched
<1>6. CASE UNCHANGED remindersVars
  BY <1>6 DEF remindersVars, RemindersInv, RemindersTypeOK, FiringsFresh, RowsAsRead, Switched
<1> QED
  BY <1>1, <1>2, <1>3, <1>4, <1>5, <1>6, FireKeeps, StoreRemindersKeeps, BeginChoiceKeeps, CommitChoiceKeeps
     DEF RemindersNext

\* Nobody is reminded twice, and the parents of the batches asked for are told.
LEMMA RemindersHold == RemindersInv => RemindersSound
BY DEF RemindersInv, FiringsFresh, RowsAsRead, RemindersSound, RemindedOnce, ChosenAsAsked

\* For any scholars, batches, firings and requests: repeated firings remind nobody
\* twice and the enabled batches are exactly those last asked for, unless a firing
\* or a replacement stored beside another.
THEOREM RemindersAreSound == RemindersSpec => []RemindersSound
<1>1. RemindersSpec => []RemindersInv
  BY RemindersStart, RemindersStep, PTL DEF RemindersSpec
<1> QED
  BY <1>1, RemindersHold, PTL

-----------------------------------------------------------------------------
(* The plugins.                                                            *)

\* Orders are of plugins that were there; without another request, a restart or a
\* rollback between, what they read is still so.
OrdersAsRead ==
    \A o \in Installer : order[o].kind \in Kinds =>
        /\ order[o].read.row = "live"
        /\ order[o].plugin \in untidy \/ order[o].read = registry[order[o].plugin]

Flushed(p) == {o \in OfPlugin(p) : order[o].flushed}

\* The memory is as the table until an order is flushed, and then as it wants it.
LoadedAsOrdered ==
    \A p \in PluginName \ untidy :
        /\ Flushed(p) = {} => (p \in instances <=> On(p))
        /\ \A o \in Installer : Flushed(p) = {o} => (p \in instances <=> order[o].kind = "enable")

\* What a plugin needs is on while it is, and while it is being enabled.
NeedsMet ==
    \A p \in PluginName \ undermined :
        On(p) \/ (\E o \in OfPlugin(p) : order[o].kind = "enable") => DependenciesMet(p)

\* A setting somebody looks for is not there.
SettingsLookedFor ==
    \A x \in PluginName \X Setting :
        x \in doubled \/ (settings[x] <= 1 /\ (Asking(x) # {} => settings[x] = 0))

PluginsInv == PluginsTypeOK /\ OrdersAsRead /\ LoadedAsOrdered /\ NeedsMet /\ SettingsLookedFor

OrderRow == {NoOrder}
            \cup [kind : Kinds, plugin : PluginName, read : PluginRow, flushed : BOOLEAN]
            \cup [kind : {"setting"}, of : PluginName \X Setting]

LEMMA OrderFacts ==
    ASSUME PluginsTypeOK, NEW o \in Installer
    PROVE  /\ order[o] \in OrderRow /\ DOMAIN order = Installer
           /\ order[o].kind \in Kinds =>
                 order[o] \in [kind : Kinds, plugin : PluginName, read : PluginRow, flushed : BOOLEAN]
           /\ order[o].kind = "setting" => order[o] \in [kind : {"setting"}, of : PluginName \X Setting]
           /\ order[o].kind \notin Kinds => order[o] = NoOrder \/ order[o].kind = "setting"
BY DEF PluginsTypeOK, OrderRow, NoOrder, Kinds

LEMMA PluginsTyped == PluginsTypeOK <=>
    /\ registry \in [PluginName -> PluginRow]
    /\ settings \in [PluginName \X Setting -> Nat]
    /\ instances \subseteq PluginName
    /\ order \in [Installer -> OrderRow]
    /\ untidy \subseteq PluginName /\ undermined \subseteq PluginName
    /\ doubled \subseteq PluginName \X Setting
BY DEF PluginsTypeOK, OrderRow

LEMMA PluginsStart == PluginsInit => PluginsInv
<1> SUFFICES ASSUME PluginsInit PROVE PluginsInv
  OBVIOUS
<1> USE DEF PluginsInit
<1>1. PluginsTypeOK
  BY PluginsTyped DEF OrderRow, NoPlugin, PluginRow
<1>2. \A p \in PluginName : OfPlugin(p) = {} /\ ~ On(p)
  BY DEF OfPlugin, NoOrder, Kinds, On, NoPlugin
<1>3. OrdersAsRead
  BY DEF OrdersAsRead, NoOrder, Kinds
<1>4. LoadedAsOrdered
  <2>1. \A p \in PluginName : Flushed(p) = {}
    BY <1>2 DEF Flushed
  <2>2. \A p \in PluginName, o \in Installer : Flushed(p) # {o}
    BY <2>1
  <2> QED
    BY <1>2, <2>1, <2>2 DEF LoadedAsOrdered
<1>5. NeedsMet
  BY <1>2 DEF NeedsMet
<1>6. SettingsLookedFor
  BY DEF SettingsLookedFor, Asking, NoOrder
<1> QED
  BY <1>1, <1>3, <1>4, <1>5, <1>6 DEF PluginsInv

LEMMA RegisterKeeps ==
    ASSUME PluginsInv, NEW p \in PluginName, Register(p)
    PROVE  PluginsInv'
<1> USE DEF Register, PluginsInv
<1>1. registry \in [PluginName -> PluginRow] /\ registry' = [registry EXCEPT ![p].row = "live"]
  BY DEF PluginsTypeOK
<1>2. /\ registry' \in [PluginName -> PluginRow] /\ registry'[p] = [row |-> "live", enabled |-> FALSE]
      /\ \A q \in PluginName \ {p} : registry'[q] = registry[q]
  <2>1. registry'[p] = [NoPlugin EXCEPT !.row = "live"]
    BY <1>1
  <2>2. registry'[p] = [row |-> "live", enabled |-> FALSE]
    BY <2>1 DEF NoPlugin
  <2>3. registry'[p] \in PluginRow
    <3>1. registry[p] \in PluginRow /\ registry'[p] = [registry[p] EXCEPT !.row = "live"]
      BY <1>1
    <3> QED
      BY <3>1 DEF PluginRow
  <2> QED
    BY <1>1, <2>2, <2>3
<1>3. \A q \in PluginName : On(q)' <=> On(q)
  <2>1. ~ On(p) /\ ~ On(p)'
    BY <1>2 DEF On, Installed, NoPlugin
  <2>2. \A q \in PluginName \ {p} : On(q)' <=> On(q)
    BY <1>2 DEF On, Installed
  <2> QED
    BY <2>1, <2>2
<1>4. \A q \in PluginName : OfPlugin(q)' = OfPlugin(q) /\ Flushed(q)' = Flushed(q)
  BY DEF OfPlugin, Flushed
<1>5. PluginsTypeOK'
  BY <1>2 DEF PluginsTypeOK
<1>6. OrdersAsRead'
  <2>1. ASSUME NEW o \in Installer, order[o].kind \in Kinds, order[o].plugin = p, p \notin untidy
        PROVE  FALSE
    BY <2>1 DEF OrdersAsRead, NoPlugin
  <2>2. \A o \in Installer : order[o].kind \in Kinds => order[o].plugin \in PluginName
    BY OrderFacts
  <2> QED
    BY <1>2, <2>1, <2>2 DEF OrdersAsRead
<1>7. LoadedAsOrdered'
  BY <1>3, <1>4 DEF LoadedAsOrdered
<1>8. NeedsMet'
  <2>1. \A q \in PluginName : DependenciesMet(q)' <=> DependenciesMet(q)
    BY <1>3 DEF DependenciesMet, Needed
  <2> QED
    BY <1>3, <1>4, <2>1 DEF NeedsMet
<1>9. SettingsLookedFor'
  BY DEF SettingsLookedFor, Asking
<1> QED
  BY <1>5, <1>6, <1>7, <1>8, <1>9

\* An order that begins has read the row, and found what it needs.
LEMMA BeginOrderKeeps ==
    ASSUME PluginsInv, NEW o \in Installer, NEW p \in PluginName, NEW kind \in Kinds, BeginOrder(o, p, kind)
    PROVE  PluginsInv'
<1> USE DEF BeginOrder, PluginsInv
<1> DEFINE new == [kind |-> kind, plugin |-> p, read |-> registry[p], flushed |-> FALSE]
<1>1. /\ new \in [kind : Kinds, plugin : PluginName, read : PluginRow, flushed : BOOLEAN]
      /\ new.kind = kind /\ new.plugin = p /\ new.read = registry[p] /\ new.flushed = FALSE
  BY DEF PluginsTypeOK
<1>2. order' = [order EXCEPT ![o] = new] /\ DOMAIN order = Installer /\ order[o] = NoOrder
  BY DEF PluginsTypeOK
<1> HIDE DEF new
<1>3. order'[o] = new /\ \A d \in Installer \ {o} : order'[d] = order[d]
  BY <1>2
<1>4. PluginsTypeOK'
  <2>1. new \in OrderRow
    BY <1>1 DEF OrderRow
  <2>2. order \in [Installer -> OrderRow]
    BY PluginsTyped
  <2>3. order' \in [Installer -> OrderRow]
    BY <1>2, <2>1, <2>2
  <2> QED
    BY <2>3 DEF PluginsTypeOK, OrderRow
<1>5. OrdersAsRead'
  <2>1. new.read.row = "live"
    BY <1>1 DEF Installed
  <2> QED
    BY <1>1, <1>3, <2>1 DEF OrdersAsRead
<1>6. order[o].kind \notin Kinds /\ order[o].kind # "setting"
  BY <1>2 DEF NoOrder, Kinds
<1>7. \A q \in PluginName : Flushed(q)' = Flushed(q)
  BY <1>1, <1>3, <1>6 DEF Flushed, OfPlugin
<1>8. LoadedAsOrdered'
  <2>1. \A q \in PluginName, d \in Installer : Flushed(q) = {d} => d # o
    BY <1>6 DEF Flushed, OfPlugin
  <2> QED
    BY <1>3, <1>7, <2>1 DEF LoadedAsOrdered, On, Installed
<1>9. NeedsMet'
  <2>1. \A q \in PluginName : On(q)' = On(q) /\ DependenciesMet(q)' = DependenciesMet(q)
    BY DEF On, Installed, DependenciesMet, Needed
  <2>2. ASSUME NEW q \in PluginName \ undermined, NEW d \in Installer,
               d \in OfPlugin(q)', order'[d].kind = "enable"
        PROVE  DependenciesMet(q)
    <3>1. CASE d = o
      BY <3>1, <2>2, <1>1, <1>3 DEF OfPlugin
    <3>2. CASE d # o
      BY <3>2, <2>2, <1>3 DEF OfPlugin, NeedsMet
    <3> QED
      BY <3>1, <3>2
  <2>3. \A q \in PluginName : OfPlugin(q)' \subseteq Installer
    BY DEF OfPlugin
  <2> QED
    BY <2>1, <2>2, <2>3 DEF NeedsMet
<1>10. SettingsLookedFor'
  <2>1. \A x \in PluginName \X Setting : Asking(x)' = Asking(x)
    BY <1>1, <1>3, <1>6 DEF Asking, Kinds
  <2> QED
    BY <2>1 DEF SettingsLookedFor
<1> QED
  BY <1>4, <1>5, <1>8, <1>9, <1>10

\* A flush does to the memory what the order wants.
LEMMA FlushKeeps ==
    ASSUME PluginsInv, NEW o \in Installer, Flush(o)
    PROVE  PluginsInv'
<1> USE DEF Flush, PluginsInv
<1> DEFINE v == order[o]
<1>1. v \in [kind : Kinds, plugin : PluginName, read : PluginRow, flushed : BOOLEAN] /\ DOMAIN order = Installer
  BY OrderFacts
<1>2. order' = [order EXCEPT ![o].flushed = TRUE]
  OBVIOUS
<1>3. /\ order'[o] = [v EXCEPT !.flushed = TRUE] /\ DOMAIN order' = Installer
      /\ \A d \in Installer \ {o} : order'[d] = order[d]
  BY <1>1, <1>2
<1>4. /\ order'[o] \in [kind : Kinds, plugin : PluginName, read : PluginRow, flushed : BOOLEAN]
      /\ order'[o].kind = v.kind /\ order'[o].plugin = v.plugin /\ order'[o].read = v.read /\ order'[o].flushed
  BY <1>1, <1>3
<1>5. \A d \in Installer : /\ order'[d].kind = order[d].kind
                           /\ order[d].kind \in Kinds => /\ order'[d].plugin = order[d].plugin
                                                         /\ order'[d].read = order[d].read
                           /\ order'[d].of = order[d].of \/ d = o
  BY <1>3, <1>4
<1>6. PluginsTypeOK'
  <2>1. order' \in [Installer -> OrderRow]
    <3>1. order \in [Installer -> OrderRow]
      BY PluginsTyped
    <3>2. order'[o] \in OrderRow
      BY <1>4 DEF OrderRow
    <3>3. order' = [d \in Installer |-> IF d = o THEN order'[o] ELSE order[d]]
      BY <1>1, <1>2, <1>3
    <3> QED
      BY <3>1, <3>2, <3>3
  <2>2. instances' \subseteq PluginName
    BY <1>1 DEF PluginsTypeOK
  <2> QED
    BY <2>1, <2>2 DEF PluginsTypeOK, OrderRow
<1>7. OrdersAsRead'
  BY <1>5 DEF OrdersAsRead
<1>8. \A q \in PluginName : /\ OfPlugin(q)' = OfPlugin(q)
                            /\ Flushed(q)' = IF q = v.plugin THEN Flushed(q) \cup {o} ELSE Flushed(q)
  <2>1. \A q \in PluginName : OfPlugin(q)' = OfPlugin(q)
    BY <1>5 DEF OfPlugin
  <2>2. o \in OfPlugin(v.plugin) /\ \A q \in PluginName : q # v.plugin => o \notin OfPlugin(q)
    BY DEF OfPlugin
  <2> QED
    BY <1>3, <1>4, <2>1, <2>2 DEF Flushed
<1>9. \A q \in PluginName : On(q)' = On(q)
  BY DEF On, Installed
<1>10. LoadedAsOrdered'
  <2>1. ASSUME NEW q \in PluginName \ untidy, q # v.plugin
        PROVE  /\ Flushed(q)' = {} => (q \in instances' <=> On(q)')
               /\ \A d \in Installer : Flushed(q)' = {d} => (q \in instances' <=> order'[d].kind = "enable")
    BY <2>1, <1>5, <1>8, <1>9 DEF LoadedAsOrdered
  <2>2. ASSUME NEW q \in PluginName \ untidy, q = v.plugin
        PROVE  /\ Flushed(q)' # {}
               /\ \A d \in Installer : Flushed(q)' = {d} => (q \in instances' <=> order'[d].kind = "enable")
    <3>1. Flushed(q)' = Flushed(q) \cup {o}
      BY <2>2, <1>8
    <3>2. q \in instances' <=> v.kind = "enable"
      BY <2>2
    <3>3. \A d \in Installer : Flushed(q)' = {d} => d = o
      BY <3>1
    <3> QED
      BY <3>1, <3>2, <3>3, <1>4
  <2> QED
    BY <2>1, <2>2 DEF LoadedAsOrdered
<1>11. NeedsMet'
  <2>1. \A q \in PluginName : DependenciesMet(q)' <=> DependenciesMet(q)
    BY <1>9 DEF DependenciesMet, Needed
  <2>2. \A q \in PluginName : OfPlugin(q) \subseteq Installer
    BY DEF OfPlugin
  <2> QED
    BY <1>5, <1>8, <1>9, <2>1, <2>2 DEF NeedsMet
<1>12. SettingsLookedFor'
  <2>1. \A x \in PluginName \X Setting : Asking(x)' = Asking(x)
    BY <1>1, <1>5 DEF Asking, Kinds
  <2> QED
    BY <2>1 DEF SettingsLookedFor
<1> QED
  BY <1>6, <1>7, <1>10, <1>11, <1>12

LEMMA OverwrittenFacts ==
    ASSUME NEW row \in PluginRow, NEW v \in [kind : Kinds, plugin : PluginName, read : PluginRow, flushed : BOOLEAN]
    PROVE  /\ Overwritten(row, v) \in PluginRow
           /\ v.read = row => Overwritten(row, v) = Ordered(row, v.kind)
           /\ v.kind = "enable" => /\ Overwritten(row, v).row = row.row
                                   /\ row.enabled => Overwritten(row, v).enabled
           /\ v.kind # "enable" /\ Overwritten(row, v).row = "live" /\ Overwritten(row, v).enabled
                 => row.row = "live" /\ row.enabled
<1> DEFINE new == Ordered(v.read, v.kind)
<1>1. v.read \in PluginRow /\ v.kind \in Kinds
  OBVIOUS
<1>2. /\ v.kind = "enable" => new = [v.read EXCEPT !.enabled = TRUE]
      /\ v.kind = "disable" => new = [v.read EXCEPT !.enabled = FALSE]
      /\ v.kind = "delete" => new = [v.read EXCEPT !.row = "deleted"]
  BY <1>1 DEF Ordered, Kinds
<1>3. /\ new \in PluginRow
      /\ v.kind = "enable" => new.row = v.read.row /\ new.enabled
      /\ v.kind = "disable" => new.row = v.read.row /\ ~ new.enabled
      /\ v.kind = "delete" => new.row = "deleted" /\ new.enabled = v.read.enabled
  BY <1>1, <1>2 DEF PluginRow, Kinds
<1>4. Overwritten(row, v) = [c \in {"row", "enabled"} |-> IF new[c] # v.read[c] THEN new[c] ELSE row[c]]
  BY DEF Overwritten, PluginRow
<1>5. /\ Overwritten(row, v).row = IF new.row # v.read.row THEN new.row ELSE row.row
      /\ Overwritten(row, v).enabled = IF new.enabled # v.read.enabled THEN new.enabled ELSE row.enabled
      /\ Overwritten(row, v) = [row |-> Overwritten(row, v).row, enabled |-> Overwritten(row, v).enabled]
  BY <1>4
<1>6. new = [row |-> new.row, enabled |-> new.enabled] /\ row \in PluginRow
  BY <1>3 DEF PluginRow
<1> HIDE DEF new
<1>7. Overwritten(row, v) \in PluginRow
  BY <1>3, <1>5, <1>6 DEF PluginRow
<1>8. ASSUME v.read = row PROVE Overwritten(row, v) = new
  BY <1>5, <1>6, <1>8
<1>9. v.kind = "enable" => /\ Overwritten(row, v).row = row.row
                           /\ row.enabled => Overwritten(row, v).enabled
  BY <1>3, <1>5
<1>10. ASSUME v.kind # "enable", Overwritten(row, v).row = "live", Overwritten(row, v).enabled
       PROVE  row.row = "live" /\ row.enabled
  <2>1. CASE v.kind = "disable"
    BY <2>1, <1>10, <1>3, <1>5
  <2>2. CASE v.kind = "delete"
    BY <2>2, <1>10, <1>3, <1>5
  <2> QED
    BY <1>1, <1>10, <2>1, <2>2 DEF Kinds
<1> QED
  BY <1>7, <1>8, <1>9, <1>10 DEF new

\* The table follows the memory when the order was the only one of its plugin;
\* whoever loses what it needs is noted.
LEMMA CommitOrderKeeps ==
    ASSUME PluginsInv, NEW o \in Installer, CommitOrder(o)
    PROVE  PluginsInv'
<1> USE DEF CommitOrder, PluginsInv
<1> PICK v : v = order[o]
  OBVIOUS
<1> PICK p : p = v.plugin
  OBVIOUS
<1>1. v \in [kind : Kinds, plugin : PluginName, read : PluginRow, flushed : BOOLEAN] /\ DOMAIN order = Installer
  BY OrderFacts
<1>2. registry \in [PluginName -> PluginRow] /\ p \in PluginName
  BY <1>1 DEF PluginsTypeOK
<1>3. /\ registry' = [registry EXCEPT ![p] = Overwritten(registry[p], v)]
      /\ undermined' = IF v.kind # "enable" THEN undermined \cup Relying(p) ELSE undermined
      /\ untidy' = IF OfPlugin(p) # {o} THEN untidy \cup {p} ELSE untidy
  OBVIOUS
<1>4. Overwritten(registry[p], v) \in PluginRow
  BY <1>1, <1>2, OverwrittenFacts
<1>5. /\ registry' \in [PluginName -> PluginRow] /\ registry'[p] = Overwritten(registry[p], v)
      /\ \A q \in PluginName \ {p} : registry'[q] = registry[q]
  BY <1>2, <1>3, <1>4
<1>6. order'[o] = NoOrder /\ \A d \in Installer \ {o} : order'[d] = order[d]
  BY <1>1
<1>7. NoOrder.kind \notin Kinds /\ NoOrder.kind # "setting" /\ v.kind # "setting"
  BY <1>1 DEF NoOrder, Kinds
<1>8. \A q \in PluginName : OfPlugin(q)' = OfPlugin(q) \ {o} /\ Flushed(q)' = Flushed(q) \ {o}
  BY <1>6, <1>7 DEF OfPlugin, Flushed
<1>9. PluginsTypeOK'
  <2>1. order' \in [Installer -> OrderRow]
    <3>1. order \in [Installer -> OrderRow] /\ NoOrder \in OrderRow
      BY PluginsTyped DEF OrderRow
    <3> QED
      BY <3>1
  <2>2. undermined' \subseteq PluginName /\ untidy' \subseteq PluginName
    BY <1>2, <1>3 DEF PluginsTypeOK, Relying
  <2> QED
    BY <1>5, <2>1, <2>2 DEF PluginsTypeOK, OrderRow
<1>10. OrdersAsRead'
  <2>1. ASSUME NEW d \in Installer, order'[d].kind \in Kinds
        PROVE  /\ order'[d].read.row = "live"
               /\ order'[d].plugin \in untidy' \/ order'[d].read = registry'[order'[d].plugin]
    <3>1. d # o /\ order'[d] = order[d] /\ order[d].kind \in Kinds
      BY <2>1, <1>6, <1>7
    <3>2. order[d].plugin \in PluginName
      BY <3>1, OrderFacts
    <3>3. CASE order[d].plugin = p
      <4>1. d \in OfPlugin(p)
        BY <3>1, <3>3 DEF OfPlugin
      <4>2. p \in untidy'
        BY <1>3, <3>1, <4>1
      <4> QED
        BY <3>1, <3>3, <4>2 DEF OrdersAsRead
    <3>4. CASE order[d].plugin # p
      BY <3>1, <3>2, <3>4, <1>3, <1>5 DEF OrdersAsRead
    <3> QED
      BY <3>3, <3>4
  <2> QED
    BY <2>1 DEF OrdersAsRead
<1>11. \A q \in PluginName \ {p} : On(q)' = On(q)
  BY <1>5 DEF On, Installed
<1>12. LoadedAsOrdered'
  <2>1. ASSUME NEW q \in PluginName \ untidy', q # p
        PROVE  /\ Flushed(q)' = {} => (q \in instances' <=> On(q)')
               /\ \A d \in Installer : Flushed(q)' = {d} => (q \in instances' <=> order'[d].kind = "enable")
    <3>1. q \notin untidy /\ Flushed(q)' = Flushed(q)
      BY <2>1, <1>3, <1>8 DEF Flushed, OfPlugin
    <3>2. \A d \in Installer : Flushed(q) = {d} => order'[d] = order[d]
      BY <2>1, <1>6 DEF Flushed, OfPlugin
    <3> QED
      BY <2>1, <3>1, <3>2, <1>11 DEF LoadedAsOrdered
  <2>2. ASSUME p \notin untidy'
        PROVE  Flushed(p)' = {} /\ (p \in instances' <=> On(p)')
    <3>1. OfPlugin(p) = {o} /\ p \notin untidy
      BY <2>2, <1>3
    <3>2. Flushed(p) = {o} /\ Flushed(p)' = {}
      BY <3>1, <1>2, <1>8 DEF Flushed
    <3>3. p \in instances <=> v.kind = "enable"
      BY <3>1, <3>2, <1>2 DEF LoadedAsOrdered
    <3>4. v.read = registry[p] /\ v.read.row = "live"
      BY <3>1 DEF OrdersAsRead
    <3>5. registry'[p] = Ordered(registry[p], v.kind)
      BY <3>4, <1>1, <1>2, <1>5, OverwrittenFacts
    <3>6. On(p)' <=> v.kind = "enable"
      <4>1. registry[p] \in PluginRow /\ registry[p].row = "live" /\ v.kind \in Kinds
        BY <1>1, <1>2, <3>4
      <4>2. CASE v.kind = "enable"
        BY <3>5, <4>1, <4>2 DEF Ordered, PluginRow, On, Installed
      <4>3. CASE v.kind = "disable"
        BY <3>5, <4>1, <4>3 DEF Ordered, PluginRow, On, Installed
      <4>4. CASE v.kind = "delete"
        BY <3>5, <4>1, <4>4 DEF Ordered, PluginRow, On, Installed
      <4> QED
        BY <4>1, <4>2, <4>3, <4>4 DEF Kinds
    <3> QED
      BY <3>2, <3>3, <3>6
  <2>3. ASSUME p \notin untidy', NEW d \in Installer, Flushed(p)' = {d}
        PROVE  FALSE
    BY <2>2, <2>3
  <2> QED
    BY <2>1, <2>2, <2>3 DEF LoadedAsOrdered
<1>13. NeedsMet'
  <2>1. ASSUME NEW q \in PluginName \ undermined',
               On(q)' \/ \E d \in OfPlugin(q)' : order'[d].kind = "enable"
        PROVE  DependenciesMet(q)'
    <3>1. q \notin undermined
      BY <2>1, <1>3
    <3>2. On(q) \/ \E d \in OfPlugin(q) : order[d].kind = "enable"
      <4>1. CASE \E d \in OfPlugin(q)' : order'[d].kind = "enable"
        <5>1. PICK d \in OfPlugin(q)' : order'[d].kind = "enable"
          BY <4>1
        <5>2. d \in OfPlugin(q) /\ d # o /\ d \in Installer
          BY <5>1, <1>8 DEF OfPlugin
        <5>3. order[d].kind = "enable"
          BY <5>1, <5>2, <1>6
        <5> QED
          BY <5>2, <5>3
      <4>2. CASE On(q)' /\ q # p
        BY <4>2, <1>11
      <4>3. CASE On(q)' /\ q = p /\ v.kind # "enable"
        BY <4>3, <1>1, <1>2, <1>5, OverwrittenFacts DEF On, Installed
      <4>4. CASE q = p /\ v.kind = "enable"
        BY <4>4 DEF OfPlugin
      <4> QED
        BY <2>1, <4>1, <4>2, <4>3, <4>4
    <3>3. DependenciesMet(q)
      BY <3>1, <3>2 DEF NeedsMet
    <3>4. ASSUME NEW r \in Needed(q) PROVE On(r)'
      <4>1. r \in PluginName /\ On(r)
        BY <3>3 DEF Needed, DependenciesMet
      <4>2. CASE r # p
        BY <4>1, <4>2, <1>11
      <4>3. CASE r = p
        <5>1. v.kind = "enable"
          BY <2>1, <3>2, <4>3, <1>3 DEF Relying
        <5> QED
          BY <5>1, <4>1, <4>3, <1>1, <1>2, <1>5, OverwrittenFacts DEF On, Installed
      <4> QED
        BY <4>2, <4>3
    <3> QED
      BY <3>4 DEF DependenciesMet, Needed
  <2> QED
    BY <2>1 DEF NeedsMet
<1>14. SettingsLookedFor'
  <2>1. \A x \in PluginName \X Setting : Asking(x)' = Asking(x)
    BY <1>6, <1>7 DEF Asking
  <2> QED
    BY <2>1 DEF SettingsLookedFor
<1> QED
  BY <1>9, <1>10, <1>12, <1>13, <1>14

\* A rollback of what was not flushed leaves no trace, another one is noted.
LEMMA RollBackKeeps ==
    ASSUME PluginsInv, NEW o \in Installer, RollBack(o)
    PROVE  PluginsInv'
<1> USE DEF RollBack, PluginsInv
<1> DEFINE v == order[o]
<1>1. DOMAIN order = Installer /\ order'[o] = NoOrder /\ \A d \in Installer \ {o} : order'[d] = order[d]
  BY DEF PluginsTypeOK
<1>2. NoOrder.kind \notin Kinds /\ NoOrder.kind # "setting"
  BY DEF NoOrder, Kinds
<1>3. \A q \in PluginName : /\ OfPlugin(q)' = OfPlugin(q) \ {o} /\ Flushed(q)' = Flushed(q) \ {o}
                            /\ On(q)' = On(q) /\ DependenciesMet(q)' = DependenciesMet(q)
  <2>1. \A q \in PluginName : OfPlugin(q)' = OfPlugin(q) \ {o} /\ Flushed(q)' = Flushed(q) \ {o}
    BY <1>1, <1>2 DEF OfPlugin, Flushed
  <2>2. \A q \in PluginName : On(q)' = On(q) /\ DependenciesMet(q)' = DependenciesMet(q)
    BY DEF On, Installed, DependenciesMet, Needed
  <2> QED
    BY <2>1, <2>2
<1>4. untidy' = IF v.kind \in Kinds /\ v.flushed THEN untidy \cup {v.plugin} ELSE untidy
  OBVIOUS
<1>5. PluginsTypeOK'
  <2>1. order' \in [Installer -> OrderRow]
    <3>1. order \in [Installer -> OrderRow] /\ NoOrder \in OrderRow
      BY PluginsTyped DEF OrderRow
    <3> QED
      BY <3>1
  <2>2. untidy' \subseteq PluginName
    BY <1>4, OrderFacts DEF PluginsTypeOK
  <2> QED
    BY <2>1, <2>2 DEF PluginsTypeOK, OrderRow
<1>6. OrdersAsRead'
  BY <1>1, <1>2, <1>4 DEF OrdersAsRead
<1>7. LoadedAsOrdered'
  <2>1. ASSUME NEW q \in PluginName \ untidy'
        PROVE  /\ q \notin untidy /\ o \notin Flushed(q) /\ Flushed(q)' = Flushed(q)
               /\ instances' = instances /\ On(q)' = On(q)
    BY <1>3, <1>4, <2>1 DEF Flushed, OfPlugin
  <2>2. ASSUME NEW q \in PluginName \ untidy', NEW d \in Installer, Flushed(q) = {d}
        PROVE  order'[d] = order[d]
    BY <1>1, <2>1, <2>2
  <2> QED
    BY <2>1, <2>2 DEF LoadedAsOrdered
<1>8. NeedsMet'
  <2>1. ASSUME NEW q \in PluginName, NEW d \in OfPlugin(q)' PROVE d \in OfPlugin(q) /\ order'[d] = order[d]
    BY <1>1, <1>3, <2>1 DEF OfPlugin
  <2> QED
    BY <1>3, <2>1 DEF NeedsMet
<1>9. SettingsLookedFor'
  <2>1. \A x \in PluginName \X Setting : Asking(x)' \subseteq Asking(x)
    BY <1>1, <1>2 DEF Asking
  <2> QED
    BY <2>1 DEF SettingsLookedFor
<1> QED
  BY <1>5, <1>6, <1>7, <1>8, <1>9

LEMMA RestartKeeps ==
    ASSUME PluginsInv, Restart
    PROVE  PluginsInv'
<1> USE DEF Restart, PluginsInv
<1>1. \A o \in Installer : order'[o] = NoOrder /\ NoOrder.kind \notin Kinds /\ NoOrder.kind # "setting"
  BY DEF NoOrder, Kinds
<1>2. \A q \in PluginName : OfPlugin(q)' = {} /\ Flushed(q)' = {} /\ On(q)' = On(q)
  BY <1>1 DEF OfPlugin, Flushed, On, Installed
<1>3. PluginsTypeOK'
  <2>1. order' \in [Installer -> OrderRow]
    BY DEF OrderRow
  <2> QED
    BY <2>1 DEF PluginsTypeOK, OrderRow
<1>4. OrdersAsRead'
  BY <1>1 DEF OrdersAsRead
<1>5. LoadedAsOrdered'
  BY <1>2 DEF LoadedAsOrdered
<1>6. NeedsMet'
  <2>1. \A q \in PluginName : DependenciesMet(q)' = DependenciesMet(q)
    BY DEF On, Installed, DependenciesMet, Needed
  <2> QED
    BY <1>2, <2>1 DEF NeedsMet
<1>7. SettingsLookedFor'
  <2>1. \A x \in PluginName \X Setting : Asking(x)' = {}
    BY <1>1 DEF Asking
  <2> QED
    BY <2>1 DEF SettingsLookedFor
<1> QED
  BY <1>3, <1>4, <1>5, <1>6, <1>7

\* Settings do not touch the orders of plugins.
LEMMA SettingAside ==
    ASSUME PluginsInv, NEW o \in Installer, NEW new \in OrderRow, new.kind \notin Kinds,
           order[o].kind \notin Kinds, order' = [order EXCEPT ![o] = new],
           UNCHANGED <<registry, instances, untidy, undermined>>
    PROVE  /\ order' \in [Installer -> OrderRow] /\ order'[o] = new
           /\ \A d \in Installer \ {o} : order'[d] = order[d]
           /\ OrdersAsRead' /\ LoadedAsOrdered' /\ NeedsMet'
<1> USE DEF PluginsInv
<1>1. order \in [Installer -> OrderRow]
  BY PluginsTyped
<1>2. order' \in [Installer -> OrderRow] /\ order'[o] = new /\ \A d \in Installer \ {o} : order'[d] = order[d]
  BY <1>1
<1>3. \A q \in PluginName : OfPlugin(q)' = OfPlugin(q) /\ o \notin OfPlugin(q)
  BY <1>2 DEF OfPlugin
<1>4. \A q \in PluginName : Flushed(q)' = Flushed(q) /\ o \notin Flushed(q)
  BY <1>2, <1>3 DEF Flushed, OfPlugin
<1>5. \A q \in PluginName : On(q)' = On(q) /\ DependenciesMet(q)' = DependenciesMet(q)
  BY DEF On, Installed, DependenciesMet, Needed
<1>6. OrdersAsRead'
  BY <1>2 DEF OrdersAsRead
<1>7. LoadedAsOrdered'
  <2>1. ASSUME NEW q \in PluginName, NEW d \in Installer, Flushed(q) = {d} PROVE order'[d] = order[d]
    BY <1>2, <1>4, <2>1
  <2> QED
    BY <1>4, <1>5, <2>1 DEF LoadedAsOrdered
<1>8. NeedsMet'
  <2>1. ASSUME NEW q \in PluginName, NEW d \in OfPlugin(q) PROVE order'[d] = order[d]
    BY <1>2, <1>3 DEF OfPlugin
  <2> QED
    BY <1>3, <1>5, <2>1 DEF NeedsMet
<1> QED
  BY <1>2, <1>6, <1>7, <1>8

LEMMA BeginSettingKeeps ==
    ASSUME PluginsInv, NEW o \in Installer, NEW p \in PluginName, NEW k \in Setting, BeginSetting(o, p, k)
    PROVE  PluginsInv'
<1> USE DEF BeginSetting
<1> DEFINE new == [kind |-> "setting", of |-> <<p, k>>]
<1>1. new \in OrderRow /\ new.kind = "setting" /\ new.of = <<p, k>> /\ "setting" \notin Kinds
  BY DEF OrderRow, Kinds
<1>2. order[o].kind \notin Kinds /\ order[o].kind # "setting"
  BY DEF NoOrder, Kinds
<1>3. order' = [order EXCEPT ![o] = new] /\ UNCHANGED <<registry, settings, instances, untidy, undermined, doubled>>
  OBVIOUS
<1> HIDE DEF new
<1>4. /\ order' \in [Installer -> OrderRow] /\ order'[o] = new
      /\ \A d \in Installer \ {o} : order'[d] = order[d]
      /\ OrdersAsRead' /\ LoadedAsOrdered' /\ NeedsMet'
  BY <1>1, <1>2, <1>3, SettingAside
<1>5. SettingsLookedFor'
  <2>1. ASSUME NEW x \in PluginName \X Setting PROVE Asking(x)' \subseteq Asking(x) \cup {o}
                                                    /\ (o \in Asking(x)' => x = <<p, k>>)
    BY <1>1, <1>4 DEF Asking
  <2>2. settings[<<p, k>>] = 0
    OBVIOUS
  <2>3. \A x \in PluginName \X Setting : settings'[x] = settings[x] /\ (x \in doubled' <=> x \in doubled)
    BY <1>3
  <2> QED
    BY <2>1, <2>2, <2>3 DEF SettingsLookedFor, PluginsInv
<1> QED
  BY <1>3, <1>4, <1>5 DEF PluginsInv, PluginsTypeOK, OrderRow

\* The row is the first, or two had looked for it.
LEMMA CommitSettingKeeps ==
    ASSUME PluginsInv, NEW o \in Installer, CommitSetting(o)
    PROVE  PluginsInv'
<1> USE DEF CommitSetting
<1> PICK x : x = order[o].of
  OBVIOUS
<1>1. order[o] \in [kind : {"setting"}, of : PluginName \X Setting] /\ "setting" \notin Kinds
  BY OrderFacts DEF PluginsInv, Kinds
<1>2. x \in PluginName \X Setting /\ NoOrder \in OrderRow /\ NoOrder.kind \notin Kinds /\ NoOrder.kind # "setting"
  BY <1>1 DEF OrderRow, NoOrder, Kinds
<1>3. /\ order' \in [Installer -> OrderRow] /\ order'[o] = NoOrder
      /\ \A d \in Installer \ {o} : order'[d] = order[d]
      /\ OrdersAsRead' /\ LoadedAsOrdered' /\ NeedsMet'
  BY <1>1, <1>2, SettingAside
<1>4. /\ settings' = [settings EXCEPT ![x] = @ + 1] /\ settings \in [PluginName \X Setting -> Nat]
      /\ doubled' = IF Asking(x) # {o} THEN doubled \cup {x} ELSE doubled
  BY DEF PluginsInv, PluginsTypeOK
<1>5. settings' \in [PluginName \X Setting -> Nat] /\ doubled' \subseteq PluginName \X Setting
  BY <1>2, <1>4 DEF PluginsInv, PluginsTypeOK
<1>6. SettingsLookedFor'
  <2>1. ASSUME NEW y \in PluginName \X Setting PROVE Asking(y)' = Asking(y) \ {o}
    BY <1>2, <1>3 DEF Asking
  <2>2. ASSUME NEW y \in PluginName \X Setting, y # x, y \notin doubled'
        PROVE  settings'[y] <= 1 /\ (Asking(y)' # {} => settings'[y] = 0)
    BY <2>1, <2>2, <1>4 DEF SettingsLookedFor, PluginsInv
  <2>3. ASSUME x \notin doubled' PROVE settings'[x] <= 1 /\ Asking(x)' = {}
    <3>1. Asking(x) = {o} /\ x \notin doubled
      BY <2>3, <1>4
    <3>2. settings[x] = 0
      BY <3>1, <1>2 DEF SettingsLookedFor, PluginsInv
    <3>3. settings'[x] = 1
      BY <3>2, <1>2, <1>4
    <3> QED
      BY <3>1, <3>3, <2>1, <1>2
  <2> QED
    BY <2>2, <2>3 DEF SettingsLookedFor
<1> QED
  BY <1>3, <1>5, <1>6 DEF PluginsInv, PluginsTypeOK, OrderRow

LEMMA PluginsStep == PluginsInv /\ [PluginsNext]_pluginsVars => PluginsInv'
<1> SUFFICES ASSUME PluginsInv, [PluginsNext]_pluginsVars PROVE PluginsInv'
  OBVIOUS
<1>1. CASE UNCHANGED pluginsVars
  BY <1>1 DEF pluginsVars, PluginsInv, PluginsTypeOK, OrdersAsRead, LoadedAsOrdered, NeedsMet, SettingsLookedFor,
              Flushed, OfPlugin, On, Installed, DependenciesMet, Needed, Asking
<1> QED
  BY <1>1, RegisterKeeps, BeginOrderKeeps, FlushKeeps, CommitOrderKeeps, RollBackKeeps, RestartKeeps,
     BeginSettingKeeps, CommitSettingKeeps DEF PluginsNext

\* What the plugins' pages show is what runs.
LEMMA PluginsHold == PluginsInv => PluginsSound
<1> SUFFICES ASSUME PluginsInv PROVE PluginsSound
  OBVIOUS
<1> USE DEF PluginsInv
<1>1. LoadedAsEnabled
  <2>1. \A p \in PluginName : OfPlugin(p) = {} => Flushed(p) = {}
    BY DEF Flushed
  <2> QED
    BY <2>1 DEF LoadedAsEnabled, LoadedAsOrdered
<1>2. DependenciesHold
  BY DEF DependenciesHold, NeedsMet, DependenciesMet
<1>3. SettingsReadable
  BY DEF SettingsReadable, SettingsLookedFor
<1> QED
  BY <1>1, <1>2, <1>3 DEF PluginsSound

\* For any plugins, needs, settings and requests: what a process has loaded is what
\* the table calls enabled, an enabled plugin has what it needs, and a setting can
\* be read, each unless what the history variables note came between.
THEOREM PluginsAreSound == PluginsSpec => []PluginsSound
<1>1. PluginsSpec => []PluginsInv
  BY PluginsStart, PluginsStep, PTL DEF PluginsSpec
<1> QED
  BY <1>1, PluginsHold, PTL

-----------------------------------------------------------------------------
(* The library.                                                            *)

\* A run by itself: a page under way has a number.
RunsBegun == \A r \in DOMAIN runs : runs[r].phase = "reading" => runs[r].page >= 1

\* Runs do not meet: the material is marked and nobody else changes its count.
OneRun ==
    \A r \in DOMAIN runs :
        runs[r].phase \in AtWork =>
            \/ runs[r].material \in met
            \/ /\ \A r2 \in Working(runs[r].material) : r2 = r
               /\ materials[runs[r].material].status = "ingesting"
               /\ runs[r].phase # "queued" => runs[r].count = materials[runs[r].material].count

\* A run that reads pages knows the questions there are; one that counted them
\* has not missed any.
RunsKnow ==
    \A r \in DOMAIN runs : runs[r].material \notin met =>
        /\ runs[r].phase = "reading" =>
              \A q \in questions : q.material = runs[r].material => <<q.page, q.number>> \in runs[r].seen
        /\ runs[r].phase = "counted" => Counted(runs[r].material) <= runs[r].total

\* A material under ingest has a run that will mark it.
RunWillMark ==
    \A i \in DOMAIN materials :
        materials[i].live /\ materials[i].status = "ingesting" =>
            i \in lost \/ \E r \in Working(i) : runs[r].status # "ingested"

\* Contents are apart, and nobody stores one that is there.
ContentsApart ==
    \A s \in Content : s \in sought \/
        /\ \A i, j \in LiveCopies(s) : i = j
        /\ Creating(s) # {} => LiveCopies(s) = {}

\* A request that replaces links leaves none it does not know of.
LinksSeen ==
    \A i \in DOMAIN materials : i \in merged \/
        /\ materials[i].batches = materials[i].asked
        /\ \A c \in Librarian : Replaces(visit[c], i) => visit[c].unseen = {}

LibraryInv ==
    /\ MaterialsTypeOK /\ RunsBegun /\ OneRun /\ RunsKnow /\ RunWillMark
    /\ ExtractedOnce /\ CountCovers /\ ContentsApart /\ LinksSeen

LEMMA SeqRetype ==
    ASSUME NEW S, NEW T, NEW s \in Seq(S), \A n \in DOMAIN s : s[n] \in T
    PROVE  s \in Seq(T)
OBVIOUS

LEMMA SeqExcept ==
    ASSUME NEW T, NEW s \in Seq(T), NEW n \in DOMAIN s, NEW e \in T, NEW t, t = [s EXCEPT ![n] = e]
    PROVE  /\ t \in Seq(T) /\ Len(t) = Len(s) /\ DOMAIN t = DOMAIN s
           /\ t[n] = e /\ \A k \in DOMAIN s : k # n => t[k] = s[k]
OBVIOUS

LEMMA SeqAppend ==
    ASSUME NEW T, NEW s \in Seq(T), NEW e \in T, NEW t, t = Append(s, e)
    PROVE  /\ t \in Seq(T) /\ DOMAIN t = (DOMAIN s) \cup {Len(s) + 1}
           /\ Len(s) + 1 \notin DOMAIN s
           /\ t[Len(s) + 1] = e /\ \A k \in DOMAIN s : t[k] = s[k]
OBVIOUS

CreateVisit == [kind : {"create"}, content : Content, category : Category, batches : SUBSET Cohort]
Batched == {None} \cup {<<b>> : b \in SUBSET Cohort}
LinkVisit == [kind : {"relink", "update"}, material : DOMAIN materials, category : Category \cup {Keep},
              batches : Batched, unseen : SUBSET Cohort]
StartVisit == [kind : {"start"}, material : DOMAIN materials]

LEMMA VisitFacts ==
    ASSUME NEW w \in Visit
    PROVE  /\ w.kind \in {"none", "create", "relink", "update", "start"}
           /\ w.kind = "none" => w = NoVisit
           /\ w.kind = "create" => w \in CreateVisit
           /\ w.kind \in {"relink", "update"} => w \in LinkVisit
           /\ w.kind = "start" => w \in StartVisit
<1>1. w \in {NoVisit} \/ w \in CreateVisit \/ w \in LinkVisit \/ w \in StartVisit
  BY DEF Visit, CreateVisit, LinkVisit, StartVisit, Batched
<1>2. CASE w \in {NoVisit}
  BY <1>2 DEF NoVisit
<1>3. CASE w \in CreateVisit
  BY <1>3 DEF CreateVisit
<1>4. CASE w \in LinkVisit
  BY <1>4 DEF LinkVisit
<1>5. CASE w \in StartVisit
  BY <1>5 DEF StartVisit
<1> QED
  BY <1>1, <1>2, <1>3, <1>4, <1>5

LEMMA VisitIs == Visit = {NoVisit} \cup CreateVisit \cup LinkVisit \cup StartVisit
BY DEF Visit, CreateVisit, LinkVisit, StartVisit, Batched

\* Rows and requests stay well formed when rows are added.
LEMMA Retyped ==
    ASSUME MaterialsTypeOK, (DOMAIN materials) \subseteq DOMAIN materials', (DOMAIN runs) \subseteq DOMAIN runs'
    PROVE  /\ \A r \in DOMAIN runs : runs[r] \in RunRow'
           /\ questions \subseteq QuestionRow'
           /\ \A c \in Librarian : visit[c] \in Visit'
<1>1. \A r \in DOMAIN runs : runs[r] \in RunRow
  BY DEF MaterialsTypeOK
<1>2. RunRow \subseteq RunRow'
  BY DEF RunRow
<1>3. QuestionRow \subseteq QuestionRow'
  BY DEF QuestionRow
<1>4. Visit \subseteq Visit'
  <2>1. LinkVisit \subseteq LinkVisit' /\ StartVisit \subseteq StartVisit' /\ CreateVisit = CreateVisit'
    BY DEF LinkVisit, StartVisit, CreateVisit
  <2>2. Visit' = {NoVisit} \cup CreateVisit' \cup LinkVisit' \cup StartVisit'
    BY DEF Visit, CreateVisit, LinkVisit, StartVisit, Batched
  <2> QED
    BY <2>1, <2>2, VisitIs
<1> QED
  BY <1>1, <1>2, <1>3, <1>4 DEF MaterialsTypeOK

LEMMA MaterialsStart == MaterialsInit => LibraryInv
<1> SUFFICES ASSUME MaterialsInit PROVE LibraryInv
  OBVIOUS
<1> USE DEF MaterialsInit
<1>1. DOMAIN materials = {} /\ DOMAIN runs = {}
  OBVIOUS
<1>2. MaterialsTypeOK
  <2>1. materials \in Seq(MaterialRow) /\ runs \in Seq(RunRow)
    OBVIOUS
  <2>2. IsFiniteSet(questions)
    BY FS_EmptySet
  <2>3. visit \in [Librarian -> Visit]
    BY VisitIs
  <2> QED
    BY <2>1, <2>2, <2>3 DEF MaterialsTypeOK
<1>3. RunsBegun /\ OneRun /\ RunsKnow
  BY <1>1 DEF RunsBegun, OneRun, RunsKnow
<1>4. RunWillMark /\ CountCovers /\ LinksSeen
  BY <1>1 DEF RunWillMark, CountCovers, LinksSeen
<1>5. ExtractedOnce
  BY DEF ExtractedOnce
<1>6. ContentsApart
  BY <1>1 DEF ContentsApart, LiveCopies, Creating, NoVisit
<1> QED
  BY <1>2, <1>3, <1>4, <1>5, <1>6 DEF LibraryInv

\* What a run is.
LEMMA RunFacts ==
    ASSUME MaterialsTypeOK, NEW r \in DOMAIN runs
    PROVE  /\ runs[r] \in RunRow /\ runs[r].material \in DOMAIN materials
           /\ runs[r].count \in Nat /\ runs[r].total \in Nat /\ runs[r].page \in 0 .. LastPage + 1
           /\ runs[r].phase \in AtWork \cup {"ended"}
           /\ runs[r].seen \subseteq (1 .. LastPage) \X Printed
<1>1. runs[r] \in RunRow
  BY DEF MaterialsTypeOK
<1> QED
  BY <1>1 DEF RunRow

\* What a row of the library is.
LEMMA RowFacts ==
    ASSUME MaterialsTypeOK, NEW n \in DOMAIN materials
    PROVE  /\ materials[n] \in MaterialRow /\ materials[n].content \in Content
           /\ materials[n].category \in Category /\ materials[n].count \in Nat
           /\ materials[n].live \in BOOLEAN
<1>1. materials[n] \in MaterialRow
  BY DEF MaterialsTypeOK
<1> QED
  BY <1>1 DEF MaterialRow

\* What the ingest relies on survives requests that leave the marks alone.
LEMMA RowsAside ==
    ASSUME LibraryInv, UNCHANGED <<questions, runs, met, lost>>,
           (DOMAIN materials) \subseteq DOMAIN materials',
           \A n \in DOMAIN materials : /\ materials'[n].status = materials[n].status
                                       /\ materials'[n].count = materials[n].count
                                       /\ materials'[n].live => materials[n].live,
           \A n \in (DOMAIN materials') \ DOMAIN materials : materials'[n].status = "uploaded"
    PROVE  RunsBegun' /\ OneRun' /\ RunsKnow' /\ RunWillMark' /\ ExtractedOnce' /\ CountCovers'
<1> USE DEF LibraryInv
<1>1. \A r \in DOMAIN runs : runs[r].material \in DOMAIN materials
  BY RunFacts
<1>2. \A n : Working(n)' = Working(n) /\ Counted(n)' = Counted(n)
  BY DEF Working, Counted, Extracted
<1>3. RunsBegun' /\ ExtractedOnce'
  BY DEF RunsBegun, ExtractedOnce
<1>4. OneRun'
  BY <1>1, <1>2 DEF OneRun
<1>5. RunsKnow'
  BY <1>2 DEF RunsKnow
<1>6. RunWillMark'
  BY <1>2 DEF RunWillMark
<1>7. CountCovers'
  BY <1>2 DEF CountCovers
<1> QED
  BY <1>3, <1>4, <1>5, <1>6, <1>7

\* A request that begins, or is given up.
LEMMA VisitAside ==
    ASSUME LibraryInv, NEW c \in Librarian, NEW w \in Visit, visit' = [visit EXCEPT ![c] = w],
           UNCHANGED <<materials, questions, runs, met, sought, merged, lost>>,
           w.kind = "create" => LiveCopies(w.content) = {},
           w.kind \in {"relink", "update"} => w.unseen = {}
    PROVE  LibraryInv'
<1> USE DEF LibraryInv
<1>1. /\ visit' \in [Librarian -> Visit] /\ visit'[c] = w
      /\ \A d \in Librarian : d # c => visit'[d] = visit[d]
  BY DEF MaterialsTypeOK
<1>2. MaterialsTypeOK'
  <2>1. Visit' = Visit /\ RunRow' = RunRow /\ QuestionRow' = QuestionRow /\ MaterialRow' = MaterialRow
    BY DEF Visit, RunRow, QuestionRow, MaterialRow
  <2> QED
    BY <1>1, <2>1 DEF MaterialsTypeOK
<1>3. RunsBegun' /\ OneRun' /\ RunsKnow' /\ RunWillMark' /\ ExtractedOnce' /\ CountCovers'
  BY RowsAside
<1>4. ContentsApart'
  <2>1. \A s : LiveCopies(s)' = LiveCopies(s)
    BY DEF LiveCopies
  <2>2. ASSUME NEW s, Creating(s)' # {}, Creating(s) = {} PROVE LiveCopies(s) = {}
    BY <1>1, <2>2 DEF Creating
  <2> QED
    BY <2>1, <2>2 DEF ContentsApart
<1>5. LinksSeen'
  BY <1>1 DEF LinksSeen, Replaces
<1> QED
  BY <1>2, <1>3, <1>4, <1>5

LEMMA BeginUploadKeeps ==
    ASSUME LibraryInv, NEW c \in Librarian, NEW s \in Content, NEW k \in Category, NEW bs \in SUBSET Cohort,
           BeginUpload(c, s, k, bs)
    PROVE  LibraryInv'
<1>1. UNCHANGED <<materials, questions, runs, met, sought, merged, lost>>
  BY DEF BeginUpload
<1>2. CASE /\ LiveCopies(s) = {}
           /\ visit' = [visit EXCEPT ![c] = [kind |-> "create", content |-> s, category |-> k, batches |-> bs]]
  <2> PICK w : w = [kind |-> "create", content |-> s, category |-> k, batches |-> bs]
    OBVIOUS
  <2>1. w \in Visit /\ w.kind = "create" /\ w.content = s
    BY VisitIs DEF CreateVisit
  <2>2. visit' = [visit EXCEPT ![c] = w]
    BY <1>2
  <2> QED
    BY <1>1, <1>2, <2>1, <2>2, VisitAside
<1>3. ASSUME NEW n \in LiveCopies(s),
             visit' = [visit EXCEPT ![c] = [kind |-> "relink", material |-> n, category |-> Keep,
                                            batches |-> <<bs>>, unseen |-> {}]]
      PROVE  LibraryInv'
  <2> PICK w : w = [kind |-> "relink", material |-> n, category |-> Keep, batches |-> <<bs>>, unseen |-> {}]
    OBVIOUS
  <2>1. n \in DOMAIN materials
    BY DEF LiveCopies
  <2>2. w \in LinkVisit /\ w.kind = "relink" /\ w.unseen = {}
    BY <2>1 DEF LinkVisit, Batched
  <2>3. w \in Visit
    BY <2>2, VisitIs
  <2>4. visit' = [visit EXCEPT ![c] = w]
    BY <1>3
  <2> QED
    BY <1>1, <2>2, <2>3, <2>4, VisitAside
<1> QED
  BY <1>2, <1>3 DEF BeginUpload

LEMMA BeginUpdateKeeps ==
    ASSUME LibraryInv, NEW c \in Librarian, NEW n \in DOMAIN materials, NEW k \in Category \cup {Keep},
           NEW bs \in Batched, BeginUpdate(c, n, k, bs)
    PROVE  LibraryInv'
<1> PICK w : w = [kind |-> "update", material |-> n, category |-> k, batches |-> bs, unseen |-> {}]
  OBVIOUS
<1>1. w \in LinkVisit /\ w.kind = "update" /\ w.unseen = {}
  BY DEF LinkVisit
<1>2. w \in Visit
  BY <1>1, VisitIs
<1>3. visit' = [visit EXCEPT ![c] = w] /\ UNCHANGED <<materials, questions, runs, met, sought, merged, lost>>
  BY DEF BeginUpdate
<1> QED
  BY <1>1, <1>2, <1>3, VisitAside

LEMMA BeginStartKeeps ==
    ASSUME LibraryInv, NEW c \in Librarian, NEW n \in DOMAIN materials, BeginStart(c, n)
    PROVE  LibraryInv'
<1> PICK w : w = [kind |-> "start", material |-> n]
  OBVIOUS
<1>1. w \in StartVisit /\ w.kind = "start"
  BY DEF StartVisit
<1>2. w \in Visit
  BY <1>1, VisitIs
<1>3. visit' = [visit EXCEPT ![c] = w] /\ UNCHANGED <<materials, questions, runs, met, sought, merged, lost>>
  BY DEF BeginStart
<1> QED
  BY <1>1, <1>2, <1>3, VisitAside

LEMMA AbandonKeeps ==
    ASSUME LibraryInv, NEW c \in Librarian, AbandonVisit(c)
    PROVE  LibraryInv'
<1>1. NoVisit \in Visit /\ NoVisit.kind = "none"
  BY VisitIs DEF NoVisit
<1> QED
  BY <1>1, VisitAside DEF AbandonVisit

\* A row is changed, at the same place of the table.
LEMMA RowChanged ==
    ASSUME MaterialsTypeOK, NEW n \in DOMAIN materials, NEW new \in MaterialRow,
           materials' = [materials EXCEPT ![n] = new]
    PROVE  /\ materials' \in Seq(MaterialRow') /\ DOMAIN materials' = DOMAIN materials
           /\ materials'[n] = new /\ \A k \in DOMAIN materials : k # n => materials'[k] = materials[k]
<1>1. MaterialRow' = MaterialRow
  BY DEF MaterialRow
<1>2. materials \in Seq(MaterialRow)
  BY DEF MaterialsTypeOK
<1> PICK t : t = materials'
  OBVIOUS
<1>3. t = [materials EXCEPT ![n] = new]
  OBVIOUS
<1>4. t \in Seq(MaterialRow)
  BY <1>2, <1>3, SeqExcept
<1>5. DOMAIN t = DOMAIN materials /\ t[n] = new /\ \A k \in DOMAIN materials : k # n => t[k] = materials[k]
  BY <1>2, <1>3
<1> QED
  BY <1>1, <1>4, <1>5

\* Requests and rows stay well formed when only rows and requests change.
LEMMA TypedAside ==
    ASSUME MaterialsTypeOK, UNCHANGED <<questions, runs, met, lost>>,
           materials' \in Seq(MaterialRow'), (DOMAIN materials) \subseteq DOMAIN materials',
           DOMAIN visit' = Librarian, visit' = [d \in Librarian |-> visit'[d]],
           \A d \in Librarian : visit'[d] \in Visit',
           sought' \subseteq Content, merged' \subseteq DOMAIN materials'
    PROVE  MaterialsTypeOK'
<1>1. /\ \A r \in DOMAIN runs : runs[r] \in RunRow'
      /\ questions \subseteq QuestionRow'
  BY Retyped
<1>2. runs \in Seq(RunRow')
  <2>1. runs \in Seq(RunRow)
    BY DEF MaterialsTypeOK
  <2> QED
    BY <1>1, <2>1, SeqRetype
<1>3. visit' \in [Librarian -> Visit']
  OBVIOUS
<1> QED
  BY <1>1, <1>2, <1>3 DEF MaterialsTypeOK

\* A new row: the content is not there, or two uploads had looked for it.
LEMMA CommitCreateKeeps ==
    ASSUME LibraryInv, NEW c \in Librarian, CommitCreate(c)
    PROVE  LibraryInv'
<1> USE DEF LibraryInv
<1> PICK v : v = visit[c]
  OBVIOUS
<1> PICK e : e = [content |-> v.content, category |-> v.category, status |-> "uploaded",
                  count |-> 0, batches |-> v.batches, asked |-> v.batches, live |-> TRUE]
  OBVIOUS
<1>1. /\ materials' = Append(materials, e)
      /\ sought' = (IF Creating(v.content) # {c} THEN sought \cup {v.content} ELSE sought)
      /\ visit' = [visit EXCEPT ![c] = NoVisit]
      /\ UNCHANGED <<questions, runs, met, merged, lost>> /\ v.kind = "create"
  BY DEF CommitCreate
<1>2. v \in CreateVisit
  BY <1>1, VisitFacts DEF MaterialsTypeOK
<1>3. e \in MaterialRow /\ e.live /\ e.content = v.content /\ v.content \in Content /\ e.status = "uploaded"
      /\ e.batches = e.asked
  BY <1>2 DEF CreateVisit, MaterialRow
<1> PICK l : l = Len(materials) + 1
  OBVIOUS
<1>4. /\ materials' \in Seq(MaterialRow) /\ DOMAIN materials' = (DOMAIN materials) \cup {l}
      /\ l \notin DOMAIN materials
      /\ materials'[l] = e /\ \A k \in DOMAIN materials : materials'[k] = materials[k]
  <2>1. materials \in Seq(MaterialRow)
    BY DEF MaterialsTypeOK
  <2> PICK t : t = materials'
    OBVIOUS
  <2>2. /\ t \in Seq(MaterialRow) /\ DOMAIN t = (DOMAIN materials) \cup {Len(materials) + 1}
        /\ Len(materials) + 1 \notin DOMAIN materials
        /\ t[Len(materials) + 1] = e /\ \A k \in DOMAIN materials : t[k] = materials[k]
    BY <1>1, <1>3, <2>1, SeqAppend
  <2> QED
    BY <2>2
<1>5. /\ visit'[c] = NoVisit /\ DOMAIN visit' = Librarian /\ visit' = [d \in Librarian |-> visit'[d]]
      /\ \A d \in Librarian : d # c => visit'[d] = visit[d]
  BY <1>1 DEF MaterialsTypeOK
<1>6. MaterialsTypeOK'
  <2>1. MaterialRow' = MaterialRow
    BY DEF MaterialRow
  <2>2. \A d \in Librarian : visit[d] \in Visit'
    BY <1>1, <1>4, Retyped
  <2>3. NoVisit \in Visit'
    BY DEF Visit
  <2>4. \A d \in Librarian : visit'[d] \in Visit'
    BY <1>5, <2>2, <2>3
  <2>5. sought' \subseteq Content /\ merged' \subseteq DOMAIN materials'
    BY <1>1, <1>3, <1>4 DEF MaterialsTypeOK
  <2>6. materials' \in Seq(MaterialRow')
    BY <1>4, <2>1
  <2> QED
    BY <1>1, <1>4, <1>5, <2>4, <2>5, <2>6, TypedAside
<1>7. RunsBegun' /\ OneRun' /\ RunsKnow' /\ RunWillMark' /\ ExtractedOnce' /\ CountCovers'
  BY <1>1, <1>3, <1>4, RowsAside
<1>8. ContentsApart'
  <2>1. ASSUME NEW s \in Content, s # v.content
        PROVE  LiveCopies(s)' = LiveCopies(s) /\ Creating(s)' = Creating(s)
               /\ (s \in sought' <=> s \in sought)
    <3>1. LiveCopies(s)' = LiveCopies(s)
      BY <1>3, <1>4, <2>1 DEF LiveCopies
    <3>2. Creating(s)' = Creating(s)
      BY <1>5, <2>1 DEF Creating, NoVisit
    <3> QED
      BY <3>1, <3>2, <1>1, <2>1
  <2>2. ASSUME v.content \notin sought'
        PROVE  LiveCopies(v.content)' = {l} /\ Creating(v.content)' = {}
    <3>1. Creating(v.content) = {c} /\ v.content \notin sought
      BY <1>1, <2>2
    <3>2. LiveCopies(v.content) = {}
      BY <3>1, <1>3 DEF ContentsApart
    <3>3. LiveCopies(v.content)' = {l}
      BY <3>2, <1>3, <1>4 DEF LiveCopies
    <3>4. Creating(v.content)' = {}
      BY <3>1, <1>5 DEF Creating, NoVisit
    <3> QED
      BY <3>3, <3>4
  <2> QED
    BY <2>1, <2>2 DEF ContentsApart
<1>9. LinksSeen'
  <2>1. ASSUME NEW n, NEW d \in Librarian, Replaces(visit'[d], n)
        PROVE  visit'[d] = visit[d] /\ n \in DOMAIN materials
    <3>1. d # c
      BY <2>1, <1>5 DEF Replaces, NoVisit
    <3>2. visit[d] \in LinkVisit /\ visit[d].material = n
      <4>1. visit[d] \in Visit /\ visit[d].kind \in {"relink", "update"} /\ visit[d].material = n
        BY <2>1, <3>1, <1>5 DEF Replaces, MaterialsTypeOK
      <4> QED
        BY <4>1, VisitFacts
    <3> QED
      BY <3>1, <3>2, <1>5 DEF LinkVisit
  <2>2. ASSUME NEW n \in DOMAIN materials, n \notin merged
        PROVE  /\ materials'[n].batches = materials'[n].asked
               /\ \A d \in Librarian : Replaces(visit'[d], n) => visit'[d].unseen = {}
    BY <2>1, <2>2, <1>4 DEF LinksSeen
  <2>3. \A d \in Librarian : ~ Replaces(visit'[d], l)
    BY <2>1, <1>4
  <2> QED
    BY <2>2, <2>3, <1>1, <1>3, <1>4 DEF LinksSeen
<1> QED
  BY <1>6, <1>7, <1>8, <1>9

\* Rows keep their contents, and none comes back to life.
LEMMA ContentsAside ==
    ASSUME LibraryInv, UNCHANGED sought, DOMAIN materials' = DOMAIN materials,
           \A n \in DOMAIN materials : /\ materials'[n].content = materials[n].content
                                       /\ materials'[n].live => materials[n].live,
           \A d \in Librarian : visit'[d].kind = "create" => visit'[d] = visit[d]
    PROVE  ContentsApart'
<1>1. ASSUME NEW s PROVE LiveCopies(s)' \subseteq LiveCopies(s) /\ Creating(s)' \subseteq Creating(s)
  BY DEF LiveCopies, Creating
<1> QED
  BY <1>1 DEF ContentsApart, LibraryInv

\* A change of the row alone leaves the links as they are.
LEMMA LinksAside ==
    ASSUME LibraryInv, UNCHANGED merged, DOMAIN materials' = DOMAIN materials,
           \A n \in DOMAIN materials : /\ materials'[n].batches = materials[n].batches
                                       /\ materials'[n].asked = materials[n].asked,
           \A d \in Librarian : visit'[d] = visit[d] \/ visit'[d] = NoVisit
    PROVE  LinksSeen'
<1>1. ASSUME NEW n, NEW d \in Librarian, Replaces(visit'[d], n) PROVE visit'[d] = visit[d]
  BY <1>1 DEF Replaces, NoVisit
<1> QED
  BY <1>1 DEF LinksSeen, LibraryInv

\* What an update leaves of a row.
LEMMA AmendedFacts ==
    ASSUME NEW row \in MaterialRow, NEW v, v.category \in Category \cup {Keep}
    PROVE  /\ Amended(row, v) \in MaterialRow
           /\ Amended(row, v).content = row.content /\ Amended(row, v).status = row.status
           /\ Amended(row, v).count = row.count /\ Amended(row, v).live = row.live
           /\ Amended(row, v).batches = row.batches /\ Amended(row, v).asked = row.asked
<1>1. PICK k : k = IF v.category = Keep THEN row.category ELSE v.category
  OBVIOUS
<1>2. k \in Category
  BY <1>1 DEF MaterialRow
<1>3. Amended(row, v) = [row EXCEPT !.category = k]
  BY <1>1 DEF Amended, MaterialRow
<1> QED
  BY <1>2, <1>3 DEF MaterialRow

\* The requests stay well formed when one ends.
LEMMA VisitEnds ==
    ASSUME MaterialsTypeOK, NEW c \in Librarian, visit' = [visit EXCEPT ![c] = NoVisit],
           (DOMAIN materials) \subseteq DOMAIN materials', (DOMAIN runs) \subseteq DOMAIN runs'
    PROVE  /\ visit'[c] = NoVisit /\ DOMAIN visit' = Librarian /\ visit' = [d \in Librarian |-> visit'[d]]
           /\ \A d \in Librarian : d # c => visit'[d] = visit[d]
           /\ \A d \in Librarian : visit'[d] \in Visit'
           /\ visit' \in [Librarian -> Visit']
<1>1. /\ visit'[c] = NoVisit /\ DOMAIN visit' = Librarian /\ visit' = [d \in Librarian |-> visit'[d]]
      /\ \A d \in Librarian : d # c => visit'[d] = visit[d]
  BY DEF MaterialsTypeOK
<1>2. \A d \in Librarian : visit[d] \in Visit'
  BY Retyped
<1>3. NoVisit \in Visit'
  BY DEF Visit
<1>4. \A d \in Librarian : visit'[d] \in Visit'
  BY <1>1, <1>2, <1>3
<1> QED
  BY <1>1, <1>4

LEMMA CommitUpdateKeeps ==
    ASSUME LibraryInv, NEW c \in Librarian, CommitUpdate(c)
    PROVE  LibraryInv'
<1> USE DEF LibraryInv
<1> PICK v : v = visit[c]
  OBVIOUS
<1> PICK n : n = v.material
  OBVIOUS
<1>1. /\ materials' = [materials EXCEPT ![n] = Amended(@, v)] /\ visit' = [visit EXCEPT ![c] = NoVisit]
      /\ UNCHANGED <<questions, runs, met, sought, merged, lost>> /\ v.kind = "update"
  BY DEF CommitUpdate
<1>2. v \in LinkVisit
  BY <1>1, VisitFacts DEF MaterialsTypeOK
<1>3. n \in DOMAIN materials /\ v.category \in Category \cup {Keep}
  BY <1>2 DEF LinkVisit
<1> PICK e : e = Amended(materials[n], v)
  OBVIOUS
<1>4. /\ e \in MaterialRow
      /\ e.content = materials[n].content /\ e.status = materials[n].status
      /\ e.count = materials[n].count /\ e.live = materials[n].live
      /\ e.batches = materials[n].batches /\ e.asked = materials[n].asked
  BY <1>3, RowFacts, AmendedFacts
<1>5. materials' = [materials EXCEPT ![n] = e]
  BY <1>1
<1>6. /\ materials' \in Seq(MaterialRow') /\ DOMAIN materials' = DOMAIN materials
      /\ materials'[n] = e /\ \A k \in DOMAIN materials : k # n => materials'[k] = materials[k]
  BY <1>3, <1>4, <1>5, RowChanged
<1>7. /\ visit'[c] = NoVisit /\ DOMAIN visit' = Librarian /\ visit' = [d \in Librarian |-> visit'[d]]
      /\ \A d \in Librarian : d # c => visit'[d] = visit[d]
      /\ \A d \in Librarian : visit'[d] \in Visit'
  BY <1>1, <1>6, VisitEnds
<1>8. MaterialsTypeOK'
  <2>1. sought' \subseteq Content /\ merged' \subseteq DOMAIN materials'
    BY <1>1, <1>6 DEF MaterialsTypeOK
  <2> QED
    BY <1>1, <1>6, <1>7, <2>1, TypedAside
<1>9. \A k \in DOMAIN materials :
        /\ materials'[k].content = materials[k].content /\ materials'[k].status = materials[k].status
        /\ materials'[k].count = materials[k].count /\ materials'[k].live = materials[k].live
        /\ materials'[k].batches = materials[k].batches /\ materials'[k].asked = materials[k].asked
  BY <1>4, <1>6
<1>10. RunsBegun' /\ OneRun' /\ RunsKnow' /\ RunWillMark' /\ ExtractedOnce' /\ CountCovers'
  BY <1>1, <1>6, <1>9, RowsAside
<1>11. ContentsApart'
  BY <1>1, <1>6, <1>7, <1>9, ContentsAside DEF NoVisit
<1>12. LinksSeen'
  BY <1>1, <1>6, <1>7, <1>9, LinksAside
<1> QED
  BY <1>8, <1>10, <1>11, <1>12

LEMMA DeleteMaterialKeeps ==
    ASSUME LibraryInv, NEW n \in DOMAIN materials, DeleteMaterial(n)
    PROVE  LibraryInv'
<1> USE DEF LibraryInv
<1> PICK e : e = [materials[n] EXCEPT !.live = FALSE]
  OBVIOUS
<1>1. materials' = [materials EXCEPT ![n] = e] /\ UNCHANGED <<questions, runs, visit, met, sought, merged, lost>>
  BY DEF DeleteMaterial
<1>2. /\ e \in MaterialRow
      /\ e.content = materials[n].content /\ e.status = materials[n].status /\ e.count = materials[n].count
      /\ e.live = FALSE /\ e.batches = materials[n].batches /\ e.asked = materials[n].asked
  <2>1. materials[n] \in MaterialRow
    BY RowFacts
  <2> QED
    BY <2>1 DEF MaterialRow
<1>3. /\ materials' \in Seq(MaterialRow') /\ DOMAIN materials' = DOMAIN materials
      /\ materials'[n] = e /\ \A k \in DOMAIN materials : k # n => materials'[k] = materials[k]
  BY <1>1, <1>2, RowChanged
<1>4. MaterialsTypeOK'
  <2>1. /\ DOMAIN visit' = Librarian /\ visit' = [d \in Librarian |-> visit'[d]]
        /\ sought' \subseteq Content /\ merged' \subseteq DOMAIN materials'
    BY <1>1, <1>3 DEF MaterialsTypeOK
  <2>2. \A d \in Librarian : visit'[d] \in Visit'
    BY <1>1, <1>3, Retyped
  <2> QED
    BY <1>1, <1>3, <2>1, <2>2, TypedAside
<1>5. \A k \in DOMAIN materials :
        /\ materials'[k].content = materials[k].content /\ materials'[k].status = materials[k].status
        /\ materials'[k].count = materials[k].count /\ (materials'[k].live => materials[k].live)
        /\ materials'[k].batches = materials[k].batches /\ materials'[k].asked = materials[k].asked
  BY <1>2, <1>3
<1>6. RunsBegun' /\ OneRun' /\ RunsKnow' /\ RunWillMark' /\ ExtractedOnce' /\ CountCovers'
  BY <1>1, <1>3, <1>5, RowsAside
<1>7. ContentsApart'
  BY <1>1, <1>3, <1>5, ContentsAside
<1>8. LinksSeen'
  BY <1>1, <1>3, <1>5, LinksAside
<1> QED
  BY <1>4, <1>6, <1>7, <1>8

\* Two requests that replace links at a time are noted; a single one saw them all.
LEMMA CommitLinksKeeps ==
    ASSUME LibraryInv, NEW c \in Librarian, CommitLinks(c)
    PROVE  LibraryInv'
<1> USE DEF LibraryInv
<1> PICK v : v = visit[c]
  OBVIOUS
<1>1. PICK n \in DOMAIN materials :
        /\ Replaces(v, n)
        /\ materials' = [materials EXCEPT ![n] =
               [Amended(@, v) EXCEPT !.batches = Links(v), !.asked = v.batches[1]]]
        /\ merged' = IF \E d \in Librarian \ {c} : Replaces(visit[d], n) THEN merged \cup {n} ELSE merged
        /\ visit' = Superseded(c, n)
  BY DEF CommitLinks
<1>2. UNCHANGED <<questions, runs, met, sought, lost>>
  BY DEF CommitLinks
<1>3. v \in LinkVisit
  <2>1. v \in Visit /\ v.kind \in {"relink", "update"}
    BY <1>1 DEF Replaces, MaterialsTypeOK
  <2> QED
    BY <2>1, VisitFacts
<1> PICK b : b = v.batches[1]
  OBVIOUS
<1>4. b \in SUBSET Cohort /\ v.unseen \in SUBSET Cohort /\ v.category \in Category \cup {Keep}
  <2>1. v.batches \in Batched /\ v.batches # None
    BY <1>1, <1>3 DEF LinkVisit, Replaces
  <2> QED
    BY <2>1, <1>3 DEF LinkVisit, Batched
<1> PICK a : a = Amended(materials[n], v)
  OBVIOUS
<1>5. /\ a \in MaterialRow /\ a.content = materials[n].content /\ a.status = materials[n].status
      /\ a.count = materials[n].count /\ a.live = materials[n].live
  BY <1>4, RowFacts, AmendedFacts
<1> PICK e : e = [a EXCEPT !.batches = v.unseen \cup b, !.asked = b]
  OBVIOUS
<1>6. /\ e \in MaterialRow /\ e.content = a.content /\ e.status = a.status /\ e.count = a.count /\ e.live = a.live
      /\ e.batches = v.unseen \cup b /\ e.asked = b
  BY <1>4, <1>5 DEF MaterialRow
<1>7. materials' = [materials EXCEPT ![n] = e]
  BY <1>1 DEF Links
<1>8. /\ materials' \in Seq(MaterialRow') /\ DOMAIN materials' = DOMAIN materials
      /\ materials'[n] = e /\ \A k \in DOMAIN materials : k # n => materials'[k] = materials[k]
  BY <1>6, <1>7, RowChanged
<1>9. /\ DOMAIN visit' = Librarian /\ visit' = [d \in Librarian |-> visit'[d]] /\ visit'[c] = NoVisit
      /\ \A d \in Librarian : d # c =>
            visit'[d] = IF Replaces(visit[d], n)
                        THEN [visit[d] EXCEPT !.unseen = (@ \cap v.unseen) \cup b]
                        ELSE visit[d]
  BY <1>1 DEF Superseded
<1>10. ASSUME NEW d \in Librarian, d # c, Replaces(visit[d], n)
       PROVE  /\ visit'[d] \in LinkVisit /\ visit'[d].kind = visit[d].kind
              /\ visit'[d].material = n
  <2>1. visit[d] \in Visit /\ visit[d].kind \in {"relink", "update"}
    BY <1>10 DEF Replaces, MaterialsTypeOK
  <2>2. visit[d] \in LinkVisit
    BY <2>1, VisitFacts
  <2>3. visit'[d] = [visit[d] EXCEPT !.unseen = (@ \cap v.unseen) \cup b] /\ visit[d].material = n
    BY <1>9, <1>10 DEF Replaces
  <2> QED
    BY <2>2, <2>3, <1>4 DEF LinkVisit
<1>11. MaterialsTypeOK'
  <2>1. \A d \in Librarian : visit[d] \in Visit'
    BY <1>2, <1>8, Retyped
  <2>2. NoVisit \in Visit'
    BY DEF Visit
  <2>3. LinkVisit \subseteq Visit'
    <3>1. LinkVisit' = LinkVisit
      BY <1>8 DEF LinkVisit, Batched
    <3>2. Visit' = {NoVisit} \cup CreateVisit' \cup LinkVisit' \cup StartVisit'
      BY DEF Visit, CreateVisit, LinkVisit, StartVisit, Batched
    <3> QED
      BY <3>1, <3>2
  <2>4. \A d \in Librarian : visit'[d] \in Visit'
    BY <1>9, <1>10, <2>1, <2>2, <2>3
  <2>5. sought' \subseteq Content /\ merged' \subseteq DOMAIN materials'
    BY <1>1, <1>2, <1>8 DEF MaterialsTypeOK
  <2> QED
    BY <1>2, <1>8, <1>9, <2>4, <2>5, TypedAside
<1>12. \A k \in DOMAIN materials :
        /\ materials'[k].content = materials[k].content /\ materials'[k].status = materials[k].status
        /\ materials'[k].count = materials[k].count /\ (materials'[k].live => materials[k].live)
  BY <1>5, <1>6, <1>8
<1>13. RunsBegun' /\ OneRun' /\ RunsKnow' /\ RunWillMark' /\ ExtractedOnce' /\ CountCovers'
  BY <1>2, <1>8, <1>12, RowsAside
<1>14. ContentsApart'
  <2>1. ASSUME NEW d \in Librarian, visit'[d].kind = "create" PROVE visit'[d] = visit[d]
    <3>1. d # c
      BY <2>1, <1>9 DEF NoVisit
    <3>2. ~ Replaces(visit[d], n)
      BY <2>1, <3>1, <1>10 DEF Replaces
    <3> QED
      BY <3>1, <3>2, <1>9
  <2> QED
    BY <1>2, <1>8, <1>12, <2>1, ContentsAside
<1>15. LinksSeen'
  <2>1. ASSUME NEW k \in DOMAIN materials, k # n, NEW d \in Librarian, Replaces(visit'[d], k)
        PROVE  visit'[d] = visit[d]
    <3>1. d # c
      BY <2>1, <1>9 DEF NoVisit, Replaces
    <3>2. ~ Replaces(visit[d], n)
      BY <2>1, <3>1, <1>10 DEF Replaces
    <3> QED
      BY <3>1, <3>2, <1>9
  <2>2. ASSUME NEW k \in DOMAIN materials, k # n, k \notin merged'
        PROVE  /\ materials'[k].batches = materials'[k].asked
               /\ \A d \in Librarian : Replaces(visit'[d], k) => visit'[d].unseen = {}
    BY <2>1, <2>2, <1>1, <1>8 DEF LinksSeen
  <2>3. ASSUME n \notin merged'
        PROVE  /\ materials'[n].batches = materials'[n].asked
               /\ \A d \in Librarian : Replaces(visit'[d], n) => visit'[d].unseen = {}
    <3>1. n \notin merged /\ \A d \in Librarian : d # c => ~ Replaces(visit[d], n)
      BY <2>3, <1>1
    <3>2. v.unseen = {}
      BY <3>1, <1>1 DEF LinksSeen
    <3>3. \A d \in Librarian : ~ Replaces(visit'[d], n)
      BY <3>1, <1>9 DEF NoVisit, Replaces
    <3> QED
      BY <3>2, <3>3, <1>6, <1>8
  <2> QED
    BY <2>2, <2>3, <1>8 DEF LinksSeen
<1> QED
  BY <1>11, <1>13, <1>14, <1>15

\* A count of questions is a number.
LEMMA CountedIsNat ==
    ASSUME MaterialsTypeOK, NEW n
    PROVE  Counted(n) \in Nat
<1>1. {q \in Extracted(n) : q.live} \subseteq questions /\ IsFiniteSet(questions)
  BY DEF Extracted, MaterialsTypeOK
<1>2. IsFiniteSet({q \in Extracted(n) : q.live})
  BY <1>1, FS_Subset
<1> QED
  BY <1>2, FS_CardinalityType DEF Counted

\* A run moves on, or ends, by itself.
LEMMA RunMoves ==
    ASSUME LibraryInv, NEW r \in DOMAIN runs, NEW new \in RunRow, NEW n, n = runs[r].material,
           runs' = [runs EXCEPT ![r] = new], new.material = n,
           UNCHANGED <<materials, questions, visit, met, sought, merged>>,
           lost \subseteq lost', lost' \subseteq DOMAIN materials,
           runs[r].phase \in AtWork,
           new.phase = "reading" => new.page >= 1,
           n \notin met /\ new.phase \in AtWork => new.phase # "queued" /\ new.count = materials[n].count,
           n \notin met /\ new.phase = "reading" =>
               \A q \in questions : q.material = n => <<q.page, q.number>> \in new.seen,
           n \notin met /\ new.phase = "counted" => Counted(n) <= new.total,
           materials[n].live /\ materials[n].status = "ingesting" /\ n \notin lost' /\ runs[r].status # "ingested"
               => new.phase \in AtWork /\ new.status # "ingested"
    PROVE  LibraryInv'
<1> USE DEF LibraryInv
<1>1. /\ runs' \in Seq(RunRow) /\ DOMAIN runs' = DOMAIN runs
      /\ runs'[r] = new /\ \A k \in DOMAIN runs : k # r => runs'[k] = runs[k]
  <2>1. runs \in Seq(RunRow)
    BY DEF MaterialsTypeOK
  <2> PICK t : t = runs'
    OBVIOUS
  <2>2. /\ t \in Seq(RunRow) /\ DOMAIN t = DOMAIN runs
        /\ t[r] = new /\ \A k \in DOMAIN runs : k # r => t[k] = runs[k]
    BY <2>1, SeqExcept
  <2> QED
    BY <2>2
<1>2. \A k \in DOMAIN runs : runs'[k].material = runs[k].material
  BY <1>1
<1>3. \A k : Working(k)' \subseteq Working(k) /\ Counted(k)' = Counted(k)
  BY <1>1, <1>2 DEF Working, Counted, Extracted
<1>4. MaterialsTypeOK'
  <2>1. Visit' = Visit /\ RunRow' = RunRow /\ QuestionRow' = QuestionRow /\ MaterialRow' = MaterialRow
    BY <1>1 DEF Visit, RunRow, QuestionRow, MaterialRow
  <2> QED
    BY <1>1, <2>1 DEF MaterialsTypeOK
<1>5. RunsBegun' /\ ExtractedOnce' /\ CountCovers'
  <2>1. RunsBegun'
    BY <1>1 DEF RunsBegun
  <2>2. ExtractedOnce'
    BY DEF ExtractedOnce
  <2>3. CountCovers'
    BY <1>3 DEF CountCovers
  <2> QED
    BY <2>1, <2>2, <2>3
<1>6. OneRun'
  <2>1. ASSUME NEW k \in DOMAIN runs, NEW m, m = runs[k].material, runs'[k].phase \in AtWork, m \notin met
        PROVE  /\ \A k2 \in Working(m)' : k2 = k
               /\ materials[m].status = "ingesting"
               /\ runs'[k].phase # "queued" => runs'[k].count = materials[m].count
    <3>1. runs[k].phase \in AtWork
      BY <2>1, <1>1
    <3>2. /\ \A k2 \in Working(m) : k2 = k
          /\ materials[m].status = "ingesting"
          /\ runs[k].phase # "queued" => runs[k].count = materials[m].count
      BY <2>1, <3>1 DEF OneRun
    <3>3. \A k2 \in Working(m)' : k2 = k
      BY <3>2, <1>3
    <3>4. runs'[k].phase # "queued" => runs'[k].count = materials[m].count
      BY <2>1, <3>2, <1>1
    <3> QED
      BY <3>2, <3>3, <3>4
  <2> QED
    BY <2>1, <1>1, <1>2 DEF OneRun
<1>7. RunsKnow'
  BY <1>1, <1>3 DEF RunsKnow
<1>8. RunWillMark'
  <2>1. ASSUME NEW k \in DOMAIN materials, materials[k].live, materials[k].status = "ingesting", k \notin lost'
        PROVE  \E k2 \in Working(k)' : runs'[k2].status # "ingested"
    <3>1. PICK k2 \in Working(k) : runs[k2].status # "ingested"
      BY <2>1 DEF RunWillMark
    <3>2. k2 \in DOMAIN runs /\ runs[k2].material = k /\ runs[k2].phase \in AtWork
      BY DEF Working
    <3>3. runs'[k2].phase \in AtWork /\ runs'[k2].status # "ingested" /\ runs'[k2].material = k
      BY <2>1, <3>1, <3>2, <1>1
    <3> QED
      BY <3>2, <3>3, <1>1 DEF Working
  <2> QED
    BY <2>1 DEF RunWillMark
<1>9. ContentsApart'
  BY ContentsAside
<1>10. LinksSeen'
  BY LinksAside
<1> QED
  BY <1>4, <1>5, <1>6, <1>7, <1>8, <1>9, <1>10

LEMMA LoadKeeps ==
    ASSUME LibraryInv, NEW r \in DOMAIN runs, Load(r)
    PROVE  LibraryInv'
<1> PICK n : n = runs[r].material
  OBVIOUS
<1> PICK m : m = materials[n]
  OBVIOUS
<1> PICK run : run = runs[r]
  OBVIOUS
<1>1. /\ run \in RunRow /\ n \in DOMAIN materials /\ run.material = n
      /\ m.count \in Nat /\ m \in MaterialRow /\ m.category \in Category
  BY RunFacts, RowFacts DEF LibraryInv
<1>2. /\ run.phase = "queued" /\ UNCHANGED <<materials, questions, visit, met, sought, merged, lost>>
      /\ lost \subseteq DOMAIN materials
  BY DEF Load, LibraryInv, MaterialsTypeOK
<1>3. Counted(n) \in Nat
  BY CountedIsNat DEF LibraryInv
<1>4. CASE ~ m.live
  <2> PICK new : new = [run EXCEPT !.phase = "ended"]
    OBVIOUS
  <2>1. new \in RunRow /\ new.material = n /\ new.phase = "ended"
    BY <1>1 DEF RunRow
  <2>2. runs' = [runs EXCEPT ![r] = new]
    BY <1>4 DEF Load
  <2> QED
    BY <1>1, <1>2, <1>4, <2>1, <2>2, RunMoves DEF AtWork
<1>5. CASE m.live /\ m.category \in Extractable
  <2> PICK new : new = [run EXCEPT !.phase = "loaded", !.status = m.status, !.count = m.count, !.extracts = TRUE]
    OBVIOUS
  <2>1. new \in RunRow /\ new.material = n /\ new.phase = "loaded" /\ new.status = m.status /\ new.count = m.count
    BY <1>1 DEF RunRow, MaterialRow, AtWork
  <2>2. runs' = [runs EXCEPT ![r] = new]
    BY <1>5 DEF Load
  <2>3. "loaded" \in AtWork /\ "queued" \in AtWork
    BY DEF AtWork
  <2>4. materials[n].status = "ingesting" => new.status # "ingested"
    BY <2>1
  <2> QED
    BY <1>1, <1>2, <2>1, <2>2, <2>3, <2>4, RunMoves
<1>6. CASE m.live /\ m.category \notin Extractable
  <2> PICK new : new = [run EXCEPT !.phase = "counted", !.status = m.status, !.count = m.count, !.total = Counted(n)]
    OBVIOUS
  <2>1. /\ new \in RunRow /\ new.material = n /\ new.phase = "counted" /\ new.status = m.status
        /\ new.count = m.count /\ new.total = Counted(n)
    BY <1>1, <1>3 DEF RunRow, MaterialRow, AtWork
  <2>2. runs' = [runs EXCEPT ![r] = new]
    BY <1>6 DEF Load
  <2>3. Counted(n) <= new.total
    BY <1>3, <2>1
  <2> QED
    BY <1>1, <1>2, <2>1, <2>2, <2>3, RunMoves DEF AtWork
<1> QED
  BY <1>4, <1>5, <1>6

LEMMA GatherKeeps ==
    ASSUME LibraryInv, NEW r \in DOMAIN runs, Gather(r)
    PROVE  LibraryInv'
<1> PICK n : n = runs[r].material
  OBVIOUS
<1> PICK run : run = runs[r]
  OBVIOUS
<1> PICK new : new = [run EXCEPT !.phase = "reading", !.page = 1, !.seen = Refs(n)]
  OBVIOUS
<1>1. run \in RunRow /\ run.material = n /\ run.phase = "loaded" /\ LastPage \in Nat
  BY RunFacts, MaterialsAssumption DEF LibraryInv, Gather
<1>2. Refs(n) \subseteq (1 .. LastPage) \X Printed
  <2>1. \A q \in questions : q.page \in 1 .. LastPage /\ q.number \in Printed
    BY DEF LibraryInv, MaterialsTypeOK, QuestionRow
  <2> QED
    BY <2>1 DEF Refs, Extracted
<1>3. /\ new \in RunRow /\ new.material = n /\ new.phase = "reading" /\ new.page = 1 /\ new.seen = Refs(n)
      /\ new.count = run.count /\ new.status = run.status
  <2>1. 1 \in 0 .. LastPage + 1
    BY <1>1
  <2> QED
    BY <1>1, <1>2, <2>1 DEF RunRow, AtWork
<1>4. \A q \in questions : q.material = n => <<q.page, q.number>> \in new.seen
  BY <1>3 DEF Refs, Extracted
<1>5. n \notin met => new.count = materials[n].count
  BY <1>1, <1>3 DEF LibraryInv, OneRun, AtWork
<1>6. /\ runs' = [runs EXCEPT ![r] = new] /\ UNCHANGED <<materials, questions, visit, met, sought, merged, lost>>
      /\ lost \subseteq DOMAIN materials
  BY DEF Gather, LibraryInv, MaterialsTypeOK
<1>7. new.phase = "reading" => new.page >= 1
  BY <1>3
<1> QED
  BY <1>1, <1>3, <1>4, <1>5, <1>6, <1>7, RunMoves DEF AtWork

LEMMA CountUpKeeps ==
    ASSUME LibraryInv, NEW r \in DOMAIN runs, CountUp(r)
    PROVE  LibraryInv'
<1> PICK n : n = runs[r].material
  OBVIOUS
<1> PICK run : run = runs[r]
  OBVIOUS
<1> PICK new : new = [run EXCEPT !.phase = "counted", !.total = Counted(n)]
  OBVIOUS
<1>1. run \in RunRow /\ run.material = n /\ run.phase = "reading" /\ Counted(n) \in Nat
  BY RunFacts, CountedIsNat DEF LibraryInv, CountUp
<1>2. /\ new \in RunRow /\ new.material = n /\ new.phase = "counted" /\ new.total = Counted(n)
      /\ new.count = run.count /\ new.status = run.status
  BY <1>1 DEF RunRow, AtWork
<1>3. n \notin met => new.count = materials[n].count
  BY <1>1, <1>2 DEF LibraryInv, OneRun, AtWork
<1>4. /\ runs' = [runs EXCEPT ![r] = new] /\ UNCHANGED <<materials, questions, visit, met, sought, merged, lost>>
      /\ lost \subseteq DOMAIN materials
  BY DEF CountUp, LibraryInv, MaterialsTypeOK
<1>5. Counted(n) <= new.total
  BY <1>1, <1>2
<1> QED
  BY <1>1, <1>2, <1>3, <1>4, <1>5, RunMoves DEF AtWork

LEMMA LoseRunKeeps ==
    ASSUME LibraryInv, NEW r \in DOMAIN runs, LoseRun(r)
    PROVE  LibraryInv'
<1> PICK n : n = runs[r].material
  OBVIOUS
<1> PICK run : run = runs[r]
  OBVIOUS
<1> PICK new : new = [run EXCEPT !.phase = "ended"]
  OBVIOUS
<1>1. run \in RunRow /\ run.material = n /\ run.phase \in AtWork /\ n \in DOMAIN materials
  BY RunFacts DEF LibraryInv, LoseRun
<1>2. new \in RunRow /\ new.material = n /\ new.phase = "ended"
  BY <1>1 DEF RunRow
<1>3. /\ runs' = [runs EXCEPT ![r] = new] /\ UNCHANGED <<materials, questions, visit, met, sought, merged>>
      /\ lost' = lost \cup {n} /\ lost' \subseteq DOMAIN materials
  BY <1>1 DEF LoseRun, LibraryInv, MaterialsTypeOK
<1> QED
  BY <1>1, <1>2, <1>3, RunMoves DEF AtWork

\* A run ends, and leaves its mark on the row.
LEMMA RunEnds ==
    ASSUME LibraryInv, NEW r \in DOMAIN runs, NEW n, n = runs[r].material, runs[r].phase \in AtWork,
           runs' = [runs EXCEPT ![r].phase = "ended"],
           NEW e \in MaterialRow, materials' = [materials EXCEPT ![n] = e],
           UNCHANGED <<questions, visit, met, sought, merged, lost>>,
           e.content = materials[n].content, e.live = materials[n].live,
           e.batches = materials[n].batches, e.asked = materials[n].asked,
           e.status = "ingesting" => materials[n].status = "ingesting" /\ runs[r].status = "ingested",
           e.status = "ingested" /\ n \notin met => Counted(n) <= e.count
    PROVE  LibraryInv'
<1> USE DEF LibraryInv
<1> PICK new : new = [runs[r] EXCEPT !.phase = "ended"]
  OBVIOUS
<1>1. new \in RunRow /\ new.phase = "ended" /\ n \in DOMAIN materials /\ new.material = n
  <2>1. runs[r] \in RunRow /\ n \in DOMAIN materials
    BY RunFacts
  <2> QED
    BY <2>1 DEF RunRow
<1>2. /\ runs' \in Seq(RunRow) /\ DOMAIN runs' = DOMAIN runs
      /\ runs'[r] = new /\ \A k \in DOMAIN runs : k # r => runs'[k] = runs[k]
  <2>1. runs \in Seq(RunRow)
    BY DEF MaterialsTypeOK
  <2> PICK t : t = runs'
    OBVIOUS
  <2>2. t = [runs EXCEPT ![r] = new]
    OBVIOUS
  <2>3. /\ t \in Seq(RunRow) /\ DOMAIN t = DOMAIN runs
        /\ t[r] = new /\ \A k \in DOMAIN runs : k # r => t[k] = runs[k]
    BY <1>1, <2>1, <2>2, SeqExcept
  <2> QED
    BY <2>3
<1>3. /\ materials' \in Seq(MaterialRow') /\ DOMAIN materials' = DOMAIN materials
      /\ materials'[n] = e /\ \A k \in DOMAIN materials : k # n => materials'[k] = materials[k]
  BY <1>1, RowChanged
<1>4. new.phase \notin AtWork /\ \A k \in DOMAIN runs : runs'[k].material = runs[k].material
  BY <1>1, <1>2 DEF AtWork
<1>5. \A k : Working(k)' \subseteq Working(k) /\ Counted(k)' = Counted(k)
  BY <1>2, <1>4 DEF Working, Counted, Extracted
<1>6. MaterialsTypeOK'
  <2>1. Visit' = Visit /\ RunRow' = RunRow /\ QuestionRow' = QuestionRow
    BY <1>2, <1>3 DEF Visit, RunRow, QuestionRow
  <2> QED
    BY <1>2, <1>3, <2>1 DEF MaterialsTypeOK
<1>7. RunsBegun' /\ ExtractedOnce' /\ RunsKnow'
  <2>1. RunsBegun'
    BY <1>1, <1>2 DEF RunsBegun
  <2>2. ExtractedOnce'
    BY DEF ExtractedOnce
  <2>3. RunsKnow'
    BY <1>1, <1>2, <1>5 DEF RunsKnow
  <2> QED
    BY <2>1, <2>2, <2>3
<1>8. CountCovers'
  BY <1>1, <1>3, <1>5 DEF CountCovers
<1>9. OneRun'
  <2>1. ASSUME NEW k \in DOMAIN runs, NEW m, m = runs[k].material, runs'[k].phase \in AtWork, m \notin met
        PROVE  /\ \A k2 \in Working(m)' : k2 = k
               /\ materials'[m].status = "ingesting"
               /\ runs'[k].phase # "queued" => runs'[k].count = materials'[m].count
    <3>1. k # r /\ runs'[k] = runs[k] /\ m \in DOMAIN materials
      BY <2>1, <1>1, <1>2, <1>4, RunFacts
    <3>2. /\ \A k2 \in Working(m) : k2 = k
          /\ materials[m].status = "ingesting"
          /\ runs[k].phase # "queued" => runs[k].count = materials[m].count
      BY <2>1, <3>1 DEF OneRun
    <3>3. m # n
      BY <2>1, <3>1, <3>2 DEF Working
    <3>4. materials'[m] = materials[m]
      BY <3>1, <3>3, <1>3
    <3> QED
      BY <3>1, <3>2, <3>4, <1>5
  <2> QED
    BY <2>1, <1>2, <1>4, SMTT(60) DEF OneRun, Working
<1>10. RunWillMark'
  <2>1. ASSUME NEW k \in DOMAIN materials, materials'[k].live, materials'[k].status = "ingesting", k \notin lost
        PROVE  \E k2 \in Working(k)' : runs'[k2].status # "ingested"
    <3>1. materials[k].live /\ materials[k].status = "ingesting"
      BY <2>1, <1>3
    <3>2. PICK k2 \in Working(k) : runs[k2].status # "ingested"
      BY <2>1, <3>1 DEF RunWillMark
    <3>3. k2 \in DOMAIN runs /\ runs[k2].material = k /\ runs[k2].phase \in AtWork
      BY DEF Working
    <3>4. k2 # r
      BY <2>1, <3>2, <3>3, <1>3
    <3> QED
      BY <3>2, <3>3, <3>4, <1>2 DEF Working
  <2> QED
    BY <2>1, <1>3 DEF RunWillMark
<1>11. ContentsApart'
  BY <1>3, ContentsAside
<1>12. LinksSeen'
  BY <1>3, LinksAside
<1> QED
  BY <1>6, <1>7, <1>8, <1>9, <1>10, <1>11, <1>12

LEMMA MarkIngestedKeeps ==
    ASSUME LibraryInv, NEW r \in DOMAIN runs, MarkIngested(r)
    PROVE  LibraryInv'
<1> PICK n : n = runs[r].material
  OBVIOUS
<1> PICK run : run = runs[r]
  OBVIOUS
<1> PICK row : row = materials[n]
  OBVIOUS
<1> PICK e : e = Marked(row, run)
  OBVIOUS
<1>1. /\ row \in MaterialRow /\ run.total \in Nat /\ run.phase = "counted" /\ n \in DOMAIN materials
      /\ row.count \in Nat
  BY RunFacts, RowFacts DEF LibraryInv, MarkIngested
<1>2. PICK st, ct : /\ st = IF run.status = "ingested" THEN row.status ELSE "ingested"
                    /\ ct = IF run.total = run.count THEN row.count ELSE run.total
  OBVIOUS
<1>3. e = [row EXCEPT !.status = st, !.count = ct]
  BY <1>1, <1>2 DEF Marked, MaterialRow
<1>4. /\ e \in MaterialRow /\ e.status = st /\ e.count = ct
      /\ e.content = row.content /\ e.live = row.live /\ e.batches = row.batches /\ e.asked = row.asked
  BY <1>1, <1>2, <1>3 DEF MaterialRow
<1>5. e.status = "ingesting" => row.status = "ingesting" /\ run.status = "ingested"
  BY <1>2, <1>4
<1>6. n \notin met => Counted(n) <= e.count
  <2>1. ASSUME n \notin met PROVE run.count = row.count /\ Counted(n) <= run.total
    BY <2>1, <1>1 DEF LibraryInv, OneRun, RunsKnow, AtWork
  <2> QED
    BY <2>1, <1>2, <1>4
<1>7. /\ materials' = [materials EXCEPT ![n] = e] /\ runs' = [runs EXCEPT ![r].phase = "ended"]
      /\ UNCHANGED <<questions, visit, met, sought, merged, lost>>
  BY DEF MarkIngested
<1>8. run.phase \in AtWork
  BY <1>1 DEF AtWork
<1> QED
  BY <1>4, <1>5, <1>6, <1>7, <1>8, RunEnds

LEMMA FailRunKeeps ==
    ASSUME LibraryInv, NEW r \in DOMAIN runs, FailRun(r)
    PROVE  LibraryInv'
<1> PICK n : n = runs[r].material
  OBVIOUS
<1> PICK row : row = materials[n]
  OBVIOUS
<1> PICK e : e = [row EXCEPT !.status = "ingest_failed"]
  OBVIOUS
<1>1. row \in MaterialRow
  BY RunFacts, RowFacts DEF LibraryInv
<1>2. /\ e \in MaterialRow /\ e.status = "ingest_failed"
      /\ e.content = row.content /\ e.live = row.live /\ e.batches = row.batches /\ e.asked = row.asked
  BY <1>1 DEF MaterialRow
<1>3. /\ materials' = [materials EXCEPT ![n] = e] /\ runs' = [runs EXCEPT ![r].phase = "ended"]
      /\ UNCHANGED <<questions, visit, met, sought, merged, lost>> /\ runs[r].phase \in AtWork
  BY DEF FailRun, AtWork
<1> QED
  BY <1>2, <1>3, RunEnds

\* An ingest begins: the material is marked, and another run of it is noted.
LEMMA CommitStartKeeps ==
    ASSUME LibraryInv, NEW c \in Librarian, CommitStart(c)
    PROVE  LibraryInv'
<1> USE DEF LibraryInv
<1> PICK n : n = visit[c].material
  OBVIOUS
<1> PICK e : e = [materials[n] EXCEPT !.status = "ingesting"]
  OBVIOUS
<1> PICK new : new = [material |-> n, phase |-> "queued", status |-> "none",
                      count |-> 0, page |-> 0, seen |-> {}, total |-> 0, extracts |-> FALSE]
  OBVIOUS
<1>1. /\ materials' = [materials EXCEPT ![n] = e] /\ runs' = Append(runs, new)
      /\ met' = IF Working(n) # {} THEN met \cup {n} ELSE met
      /\ visit' = [visit EXCEPT ![c] = NoVisit]
      /\ UNCHANGED <<questions, sought, merged, lost>>
  BY DEF CommitStart
<1>2. n \in DOMAIN materials
  <2>1. visit[c] \in StartVisit
    BY VisitFacts DEF CommitStart, MaterialsTypeOK
  <2> QED
    BY <2>1 DEF StartVisit
<1>3. /\ e \in MaterialRow /\ e.status = "ingesting" /\ e.content = materials[n].content
      /\ e.live = materials[n].live /\ e.batches = materials[n].batches /\ e.asked = materials[n].asked
  <2>1. materials[n] \in MaterialRow
    BY <1>2, RowFacts
  <2> QED
    BY <2>1 DEF MaterialRow
<1>4. /\ new \in RunRow /\ new.material = n /\ new.phase = "queued" /\ new.status = "none"
      /\ "queued" \in AtWork
  <2>1. 0 \in 0 .. LastPage + 1
    BY MaterialsAssumption
  <2> QED
    BY <1>2, <2>1 DEF RunRow, AtWork
<1>5. /\ materials' \in Seq(MaterialRow') /\ DOMAIN materials' = DOMAIN materials
      /\ materials'[n] = e /\ \A k \in DOMAIN materials : k # n => materials'[k] = materials[k]
  BY <1>1, <1>2, <1>3, RowChanged
<1> PICK l : l = Len(runs) + 1
  OBVIOUS
<1>6. /\ runs' \in Seq(RunRow) /\ DOMAIN runs' = (DOMAIN runs) \cup {l} /\ l \notin DOMAIN runs
      /\ runs'[l] = new /\ \A k \in DOMAIN runs : runs'[k] = runs[k]
  <2>1. runs \in Seq(RunRow)
    BY DEF MaterialsTypeOK
  <2> PICK t : t = runs'
    OBVIOUS
  <2>2. /\ t \in Seq(RunRow) /\ DOMAIN t = (DOMAIN runs) \cup {Len(runs) + 1}
        /\ Len(runs) + 1 \notin DOMAIN runs
        /\ t[Len(runs) + 1] = new /\ \A k \in DOMAIN runs : t[k] = runs[k]
    BY <1>1, <1>4, <2>1, SeqAppend
  <2> QED
    BY <2>2
<1>7. /\ visit'[c] = NoVisit /\ \A d \in Librarian : d # c => visit'[d] = visit[d]
      /\ visit' \in [Librarian -> Visit']
  BY <1>1, <1>5, <1>6, VisitEnds
<1>8. /\ Working(n)' = Working(n) \cup {l} /\ \A k : k # n => Working(k)' = Working(k)
      /\ \A k : Counted(k)' = Counted(k)
  <2>1. \A k : Counted(k)' = Counted(k)
    BY <1>1 DEF Counted, Extracted
  <2>2. Working(n)' = Working(n) \cup {l}
    BY <1>4, <1>6 DEF Working
  <2>3. \A k : k # n => Working(k)' = Working(k)
    BY <1>4, <1>6 DEF Working
  <2> QED
    BY <2>1, <2>2, <2>3
<1>9. met \subseteq met' /\ met' \subseteq DOMAIN materials
  BY <1>1, <1>2 DEF MaterialsTypeOK
<1>10. MaterialsTypeOK'
  <2>1. RunRow' = RunRow /\ questions \subseteq QuestionRow'
    BY <1>5, <1>6, Retyped DEF RunRow
  <2> QED
    BY <1>1, <1>5, <1>6, <1>7, <1>9, <2>1 DEF MaterialsTypeOK
<1>11. RunsBegun' /\ RunsKnow' /\ ExtractedOnce' /\ CountCovers'
  <2>1. RunsBegun'
    BY <1>4, <1>6 DEF RunsBegun
  <2>2. RunsKnow'
    BY <1>1, <1>4, <1>6, <1>8, <1>9 DEF RunsKnow
  <2>3. ExtractedOnce'
    BY <1>1, <1>9 DEF ExtractedOnce
  <2>4. CountCovers'
    BY <1>3, <1>5, <1>8, <1>9 DEF CountCovers
  <2> QED
    BY <2>1, <2>2, <2>3, <2>4
<1>12. OneRun'
  <2>1. ASSUME NEW k \in DOMAIN runs, NEW m, m = runs[k].material, runs'[k].phase \in AtWork, m \notin met'
        PROVE  /\ \A k2 \in Working(m)' : k2 = k
               /\ materials'[m].status = "ingesting"
               /\ runs'[k].phase # "queued" => runs'[k].count = materials'[m].count
    <3>1. runs'[k] = runs[k] /\ m \in DOMAIN materials /\ k \in Working(m)
      BY <2>1, <1>6, RunFacts DEF Working
    <3>2. m # n
      BY <2>1, <3>1, <1>1
    <3>3. materials'[m] = materials[m] /\ Working(m)' = Working(m)
      BY <3>1, <3>2, <1>5, <1>8
    <3>4. /\ \A k2 \in Working(m) : k2 = k
          /\ materials[m].status = "ingesting"
          /\ runs[k].phase # "queued" => runs[k].count = materials[m].count
      BY <2>1, <3>1, <1>9 DEF OneRun
    <3> QED
      BY <3>1, <3>3, <3>4
  <2>2. n \notin met' => Working(n)' = {l} /\ materials'[n].status = "ingesting"
    BY <1>1, <1>3, <1>5, <1>8
  <2> QED
    BY <2>1, <2>2, <1>4, <1>6, SMTT(60) DEF OneRun, Working
<1>13. RunWillMark'
  <2>1. ASSUME NEW k \in DOMAIN materials, materials'[k].live, materials'[k].status = "ingesting", k \notin lost
        PROVE  \E k2 \in Working(k)' : runs'[k2].status # "ingested"
    <3>1. CASE k = n
      BY <3>1, <1>4, <1>6, <1>8
    <3>2. CASE k # n
      <4>1. PICK k2 \in Working(k) : runs[k2].status # "ingested"
        BY <2>1, <3>2, <1>5 DEF RunWillMark
      <4> QED
        BY <3>2, <4>1, <1>6, <1>8 DEF Working
    <3> QED
      BY <3>1, <3>2
  <2> QED
    BY <2>1, <1>1, <1>5 DEF RunWillMark
<1>14. ContentsApart'
  BY <1>1, <1>3, <1>5, <1>7, ContentsAside DEF NoVisit
<1>15. LinksSeen'
  BY <1>1, <1>3, <1>5, <1>7, LinksAside
<1> QED
  BY <1>10, <1>11, <1>12, <1>13, <1>14, <1>15

\* A page: what is stored was not there, for no other run stores questions of the
\* material at the same time.
LEMMA ReadPageKeeps ==
    ASSUME LibraryInv, NEW r \in DOMAIN runs, NEW found \in SUBSET Printed, ReadPage(r, found)
    PROVE  LibraryInv'
<1> USE DEF LibraryInv
<1> PICK run : run = runs[r]
  OBVIOUS
<1> PICK n : n = run.material
  OBVIOUS
<1> PICK p : p = run.page
  OBVIOUS
<1> PICK fresh : fresh = {k \in found : <<p, k>> \notin run.seen}
  OBVIOUS
<1> PICK Q : Q = [material : {n}, page : {p}, number : fresh, run : {r}, live : {TRUE}]
  OBVIOUS
<1> PICK new : new = [run EXCEPT !.page = p + 1, !.seen = @ \cup ({p} \X fresh)]
  OBVIOUS
<1>1. /\ questions' = questions \cup Q /\ run.phase = "reading" /\ p <= LastPage
      /\ UNCHANGED <<materials, visit, met, sought, merged, lost>>
  BY DEF ReadPage
<1>2. /\ run \in RunRow /\ n \in DOMAIN materials /\ p \in 1 .. LastPage /\ LastPage \in Nat
      /\ run.seen \subseteq (1 .. LastPage) \X Printed
  <2>1. run \in RunRow /\ n \in DOMAIN materials /\ p \in 0 .. LastPage + 1
        /\ run.seen \subseteq (1 .. LastPage) \X Printed
    BY RunFacts
  <2>2. p >= 1
    BY <1>1 DEF RunsBegun
  <2> QED
    BY <1>1, <2>1, <2>2, MaterialsAssumption
<1>3. /\ new \in RunRow /\ new.material = n /\ new.phase = "reading" /\ new.page = p + 1
      /\ new.seen = run.seen \cup ({p} \X fresh) /\ new.count = run.count /\ new.status = run.status
      /\ new.total = run.total
  <2>1. run.seen \cup ({p} \X fresh) \in SUBSET ((1 .. LastPage) \X Printed)
    BY <1>2
  <2>2. p + 1 \in 0 .. LastPage + 1
    BY <1>2
  <2> QED
    BY <1>1, <1>2, <2>1, <2>2 DEF RunRow
<1>4. runs' = [runs EXCEPT ![r] = new]
  <2>1. runs' = [runs EXCEPT ![r].page = p + 1, ![r].seen = @ \cup ({p} \X fresh)]
    BY DEF ReadPage
  <2> QED
    BY <2>1 DEF MaterialsTypeOK
<1>5. /\ runs' \in Seq(RunRow) /\ DOMAIN runs' = DOMAIN runs
      /\ runs'[r] = new /\ \A k \in DOMAIN runs : k # r => runs'[k] = runs[k]
  <2>1. runs \in Seq(RunRow)
    BY DEF MaterialsTypeOK
  <2> PICK t : t = runs'
    OBVIOUS
  <2>2. /\ t \in Seq(RunRow) /\ DOMAIN t = DOMAIN runs
        /\ t[r] = new /\ \A k \in DOMAIN runs : k # r => t[k] = runs[k]
    BY <2>1, <1>3, <1>4, SeqExcept
  <2> QED
    BY <2>2
<1>6. \A k \in DOMAIN runs : /\ runs'[k].material = runs[k].material /\ runs'[k].phase = runs[k].phase
                             /\ runs'[k].count = runs[k].count /\ runs'[k].status = runs[k].status
                             /\ runs'[k].total = runs[k].total
  BY <1>1, <1>3, <1>5
<1>7. \A k : Working(k)' = Working(k)
  BY <1>5, <1>6 DEF Working
<1>8. \A q \in Q : /\ q.material = n /\ q.page = p /\ q.number \in fresh /\ q.number \in Printed
                   /\ <<q.page, q.number>> \notin run.seen
                   /\ <<q.page, q.number>> \in new.seen
  <2>1. \A q \in Q : q.material = n /\ q.page = p /\ q.number \in fresh
    OBVIOUS
  <2> QED
    BY <2>1, <1>3
<1>9. \A k : k # n => Counted(k)' = Counted(k)
  <2>1. ASSUME NEW k, k # n PROVE Extracted(k)' = Extracted(k)
    BY <2>1, <1>1, <1>8 DEF Extracted
  <2> QED
    BY <2>1 DEF Counted
<1>10. ASSUME n \notin met
       PROVE  /\ \A k \in Working(n) : k = r
              /\ materials[n].status = "ingesting"
              /\ \A q \in questions : q.material = n => <<q.page, q.number>> \in run.seen
  BY <1>1, <1>10 DEF OneRun, RunsKnow, AtWork
<1>11. MaterialsTypeOK'
  <2>1. Visit' = Visit /\ RunRow' = RunRow /\ QuestionRow' = QuestionRow /\ MaterialRow' = MaterialRow
    BY <1>1, <1>5 DEF Visit, RunRow, QuestionRow, MaterialRow
  <2>2. Q \subseteq QuestionRow
    BY <1>2 DEF QuestionRow
  <2>3. IsFiniteSet(Q)
    <3>1. fresh \subseteq Printed /\ IsFiniteSet(Printed)
      BY MaterialsAssumption
    <3>2. IsFiniteSet(fresh)
      BY <3>1, FS_Subset
    <3>3. [k \in fresh |-> [material |-> n, page |-> p, number |-> k, run |-> r, live |-> TRUE]]
              \in Surjection(fresh, Q)
      <4> DEFINE f == [k \in fresh |-> [material |-> n, page |-> p, number |-> k, run |-> r, live |-> TRUE]]
      <4>1. f \in [fresh -> Q]
        OBVIOUS
      <4>2. ASSUME NEW q \in Q PROVE \E k \in fresh : f[k] = q
        <5>1. q.number \in fresh /\ f[q.number] = q
          OBVIOUS
        <5> QED
          BY <5>1
      <4> QED
        BY <4>1, <4>2 DEF Surjection
    <3> QED
      BY <3>2, <3>3, FS_Surjection
  <2>4. IsFiniteSet(questions')
    BY <1>1, <2>3, FS_Union DEF MaterialsTypeOK
  <2> QED
    BY <1>1, <1>5, <2>1, <2>2, <2>4 DEF MaterialsTypeOK
<1>12. RunsBegun'
  <2>1. new.page >= 1
    BY <1>2, <1>3
  <2> QED
    BY <2>1, <1>5 DEF RunsBegun
<1>13. OneRun'
  BY <1>1, <1>5, <1>6, <1>7, SMTT(60) DEF OneRun, Working
<1>14. RunsKnow'
  <2>1. ASSUME NEW k \in DOMAIN runs, NEW m, m = runs[k].material, m \notin met
        PROVE  /\ runs'[k].phase = "reading" =>
                     \A q \in questions' : q.material = m => <<q.page, q.number>> \in runs'[k].seen
               /\ runs'[k].phase = "counted" => Counted(m)' <= runs'[k].total
    <3>1. CASE k = r
      <4>1. m = n /\ runs'[k] = new
        BY <2>1, <3>1, <1>5
      <4>2. \A q \in questions : q.material = n => <<q.page, q.number>> \in new.seen
        BY <2>1, <4>1, <1>3, <1>10
      <4> QED
        BY <4>1, <4>2, <1>1, <1>3, <1>8
    <3>2. CASE k # r /\ m = n
      <4>1. k \notin Working(n)
        BY <2>1, <3>2, <1>10
      <4>2. runs'[k].phase \notin {"reading", "counted"}
        BY <2>1, <3>2, <4>1, <1>6 DEF Working, AtWork
      <4> QED
        BY <4>2
    <3>3. CASE m # n
      <4>1. runs'[k] = runs[k] /\ Counted(m)' = Counted(m)
        BY <2>1, <3>3, <1>5, <1>9
      <4>2. \A q \in questions' : q.material = m => q \in questions
        BY <3>3, <1>1, <1>8
      <4> QED
        BY <2>1, <4>1, <4>2 DEF RunsKnow
    <3> QED
      BY <3>1, <3>2, <3>3
  <2> QED
    BY <2>1, <1>1, <1>5, <1>6 DEF RunsKnow
<1>15. RunWillMark'
  BY <1>1, <1>5, <1>6, <1>7 DEF RunWillMark, Working
<1>16. ExtractedOnce'
  <2>1. ASSUME NEW q1 \in questions', NEW q2 \in questions',
               q1.material = q2.material, q1.page = q2.page, q1.number = q2.number, q1.material \notin met
        PROVE  q1 = q2
    <3>1. CASE q1 \in questions /\ q2 \in questions
      BY <2>1, <3>1 DEF ExtractedOnce
    <3>2. CASE q1 \in Q /\ q2 \in Q
      <4>1. ASSUME NEW q \in Q
            PROVE  q = [material |-> n, page |-> p, number |-> q.number, run |-> r, live |-> TRUE]
        OBVIOUS
      <4>2. /\ q1 = [material |-> n, page |-> p, number |-> q1.number, run |-> r, live |-> TRUE]
            /\ q2 = [material |-> n, page |-> p, number |-> q2.number, run |-> r, live |-> TRUE]
        BY <3>2, <4>1
      <4> QED
        BY <2>1, <4>2
    <3>3. ASSUME NEW x \in questions, NEW y \in Q,
                 x.material = y.material, x.page = y.page, x.number = y.number, x.material \notin met
          PROVE  FALSE
      BY <3>3, <1>8, <1>10
    <3> QED
      BY <2>1, <3>1, <3>2, <3>3, <1>1
  <2>2. met' = met
    BY <1>1
  <2> QED
    BY <2>1, <2>2, Zenon DEF ExtractedOnce
<1>17. CountCovers'
  BY <1>1, <1>9, <1>10 DEF CountCovers
<1>18. ContentsApart'
  BY <1>1, ContentsAside
<1>19. LinksSeen'
  BY <1>1, LinksAside
<1> QED
  BY <1>11, <1>12, <1>13, <1>14, <1>15, <1>16, <1>17, <1>18, <1>19

\* A deleted question still bears its ref.
LEMMA DropQuestionKeeps ==
    ASSUME LibraryInv, NEW q \in questions, DropQuestion(q)
    PROVE  LibraryInv'
<1> USE DEF LibraryInv
<1> PICK d : d = [q EXCEPT !.live = FALSE]
  OBVIOUS
<1>1. questions' = (questions \ {q}) \cup {d} /\ UNCHANGED <<materials, runs, visit, met, sought, merged, lost>>
  BY DEF DropQuestion
<1>2. /\ d \in QuestionRow /\ d.material = q.material /\ d.page = q.page /\ d.number = q.number
      /\ d.live = FALSE
  <2>1. q \in QuestionRow
    BY DEF MaterialsTypeOK
  <2> QED
    BY <2>1 DEF QuestionRow
<1>3. MaterialsTypeOK'
  <2>1. Visit' = Visit /\ RunRow' = RunRow /\ QuestionRow' = QuestionRow /\ MaterialRow' = MaterialRow
    BY <1>1 DEF Visit, RunRow, QuestionRow, MaterialRow
  <2>2. IsFiniteSet(questions \ {q})
    BY FS_RemoveElement DEF MaterialsTypeOK
  <2>3. IsFiniteSet(questions')
    BY <1>1, <2>2, FS_AddElement
  <2> QED
    BY <1>1, <1>2, <2>1, <2>3 DEF MaterialsTypeOK
<1>4. \A k : Working(k)' = Working(k)
  BY <1>1 DEF Working
<1>5. ASSUME NEW k PROVE Counted(k) \in Nat /\ Counted(k)' \in Nat /\ Counted(k)' <= Counted(k)
  <2> DEFINE now == {x \in Extracted(k) : x.live}
  <2>1. IsFiniteSet(now)
    <3>1. now \subseteq questions /\ IsFiniteSet(questions)
      BY DEF Extracted, MaterialsTypeOK
    <3> QED
      BY <3>1, FS_Subset
  <2>2. now' \subseteq now
    BY <1>1, <1>2 DEF Extracted
  <2>3. IsFiniteSet(now') /\ Cardinality(now') <= Cardinality(now)
    BY <2>1, <2>2, FS_Subset
  <2>4. Cardinality(now) \in Nat
    BY <2>1, FS_CardinalityType
  <2>5. Cardinality(now') \in Nat
    BY <2>3, FS_CardinalityType
  <2> QED
    BY <2>3, <2>4, <2>5 DEF Counted
<1>6. ASSUME NEW x \in questions'
      PROVE  \E o \in questions : /\ o.material = x.material /\ o.page = x.page /\ o.number = x.number
                                  /\ x = IF o = q THEN d ELSE o
  BY <1>1, <1>2, <1>6
<1>7. RunsBegun' /\ OneRun' /\ RunWillMark'
  <2>1. RunsBegun'
    BY <1>1 DEF RunsBegun
  <2>2. OneRun'
    BY <1>1, <1>4 DEF OneRun
  <2>3. RunWillMark'
    BY <1>1, <1>4 DEF RunWillMark
  <2> QED
    BY <2>1, <2>2, <2>3
<1>8. RunsKnow'
  <2>1. ASSUME NEW r \in DOMAIN runs, runs[r].material \notin met, runs[r].phase = "reading",
               NEW x \in questions', x.material = runs[r].material
        PROVE  <<x.page, x.number>> \in runs[r].seen
    BY <2>1, <1>6 DEF RunsKnow
  <2>2. ASSUME NEW r \in DOMAIN runs, NEW m, m = runs[r].material, m \notin met, runs[r].phase = "counted"
        PROVE  Counted(m)' <= runs[r].total
    <3>1. Counted(m) <= runs[r].total
      BY <2>2 DEF RunsKnow
    <3>2. Counted(m) \in Nat /\ Counted(m)' \in Nat /\ Counted(m)' <= Counted(m)
      BY <1>5
    <3>3. runs[r].total \in Nat
      BY RunFacts
    <3> QED
      BY <3>1, <3>2, <3>3
  <2> QED
    BY <2>1, <2>2, <1>1 DEF RunsKnow
<1>9. ExtractedOnce'
  <2>1. ASSUME NEW x1 \in questions', NEW x2 \in questions',
               x1.material = x2.material, x1.page = x2.page, x1.number = x2.number, x1.material \notin met
        PROVE  x1 = x2
    <3>1. PICK o1 \in questions : /\ o1.material = x1.material /\ o1.page = x1.page /\ o1.number = x1.number
                                  /\ x1 = IF o1 = q THEN d ELSE o1
      BY <1>6
    <3>2. PICK o2 \in questions : /\ o2.material = x2.material /\ o2.page = x2.page /\ o2.number = x2.number
                                  /\ x2 = IF o2 = q THEN d ELSE o2
      BY <1>6
    <3>3. o1 = o2
      BY <2>1, <3>1, <3>2 DEF ExtractedOnce
    <3> QED
      BY <3>1, <3>2, <3>3
  <2> QED
    BY <2>1, <1>1, Zenon DEF ExtractedOnce
<1>10. CountCovers'
  <2>1. ASSUME NEW k \in DOMAIN materials, materials[k].status = "ingested", k \notin met
        PROVE  Counted(k)' <= materials[k].count
    <3>1. Counted(k) <= materials[k].count /\ materials[k].count \in Nat
      BY <2>1, RowFacts DEF CountCovers
    <3>2. Counted(k) \in Nat /\ Counted(k)' \in Nat /\ Counted(k)' <= Counted(k)
      BY <1>5
    <3> QED
      BY <3>1, <3>2
  <2> QED
    BY <2>1, <1>1 DEF CountCovers
<1>11. ContentsApart'
  BY <1>1, ContentsAside
<1>12. LinksSeen'
  BY <1>1, LinksAside
<1> QED
  BY <1>3, <1>7, <1>8, <1>9, <1>10, <1>11, <1>12

LEMMA MaterialsStep == LibraryInv /\ [MaterialsNext]_materialsVars => LibraryInv'
<1> SUFFICES ASSUME LibraryInv, [MaterialsNext]_materialsVars PROVE LibraryInv'
  OBVIOUS
<1>1. CASE UNCHANGED materialsVars
  <2>1. UNCHANGED <<materials, questions, runs, visit, met, sought, merged, lost>>
    BY <1>1 DEF materialsVars
  <2>2. MaterialsTypeOK'
    <3>1. Visit' = Visit /\ RunRow' = RunRow /\ QuestionRow' = QuestionRow /\ MaterialRow' = MaterialRow
      BY <2>1 DEF Visit, RunRow, QuestionRow, MaterialRow
    <3> QED
      BY <2>1, <3>1 DEF LibraryInv, MaterialsTypeOK
  <2>3. RunsBegun' /\ OneRun' /\ RunsKnow' /\ RunWillMark' /\ ExtractedOnce' /\ CountCovers'
    BY <2>1, RowsAside
  <2>4. ContentsApart'
    BY <2>1, ContentsAside
  <2>5. LinksSeen'
    BY <2>1, LinksAside
  <2> QED
    BY <2>2, <2>3, <2>4, <2>5 DEF LibraryInv
<1>2. CASE Shelving
  <2>1. \A c \in Librarian, n \in DOMAIN materials, k \in Category \cup {Keep}, bs \in Batched :
            BeginUpdate(c, n, k, bs) => LibraryInv'
    BY BeginUpdateKeeps
  <2> QED
    BY <1>2, <2>1, BeginUploadKeeps, CommitCreateKeeps, CommitUpdateKeeps, CommitLinksKeeps, AbandonKeeps,
       DeleteMaterialKeeps DEF Shelving, Batched
<1>3. CASE Ingesting
  BY <1>3, CommitStartKeeps, BeginStartKeeps, LoadKeeps, GatherKeeps, ReadPageKeeps, CountUpKeeps,
     MarkIngestedKeeps, FailRunKeeps, LoseRunKeeps DEF Ingesting
<1> QED
  BY <1>1, <1>2, <1>3, DropQuestionKeeps DEF MaterialsNext

\* What the library shows is what was stored, asked for and is being done.
LEMMA LibraryHolds == LibraryInv => LibrarySound
<1> SUFFICES ASSUME LibraryInv PROVE LibrarySound
  OBVIOUS
<1> USE DEF LibraryInv
<1>1. IngestingIsWorked
  BY DEF IngestingIsWorked, RunWillMark
<1>2. ShelvedOnce
  <2>1. ASSUME NEW s \in Content, s \notin sought PROVE Cardinality(LiveCopies(s)) <= 1
    <3>1. \A n, m \in LiveCopies(s) : n = m
      BY <2>1 DEF ContentsApart
    <3>2. CASE LiveCopies(s) = {}
      <4>1. Cardinality({}) = 0
        BY FS_EmptySet
      <4> QED
        BY <3>2, <4>1
    <3>3. ASSUME NEW n \in LiveCopies(s) PROVE Cardinality(LiveCopies(s)) <= 1
      <4>1. LiveCopies(s) = {n}
        BY <3>1, <3>3
      <4>2. Cardinality({n}) = 1
        BY FS_Singleton
      <4> QED
        BY <4>1, <4>2
    <3> QED
      BY <3>2, <3>3
  <2> QED
    BY <2>1 DEF ShelvedOnce
<1>3. LinkedAsAsked
  BY DEF LinkedAsAsked, LinksSeen
<1> QED
  BY <1>1, <1>2, <1>3 DEF LibrarySound

\* For any administrators, contents, batches and question numbers: a question of a
\* page is stored once however often a file is ingested, the count covers the
\* questions, a material that refuses an ingest has a run that will mark it, a
\* content is on the shelf once and links are those last asked for, each unless the
\* history variables note the overlap or the lost run that breaks it.
THEOREM LibraryIsSound == MaterialsSpec => []LibrarySound
<1>1. MaterialsSpec => []LibraryInv
  BY MaterialsStart, MaterialsStep, PTL DEF MaterialsSpec
<1> QED
  BY <1>1, LibraryHolds, PTL

-----------------------------------------------------------------------------
(* The three beside one another.                                           *)

ServicesInv == LibraryInv /\ PluginsInv /\ RemindersInv

LEMMA ServicesStep == ServicesInv /\ [ServicesNext]_serviceVars => ServicesInv'
<1> SUFFICES ASSUME ServicesInv, [ServicesNext]_serviceVars PROVE ServicesInv'
  OBVIOUS
<1>1. [MaterialsNext]_materialsVars /\ [PluginsNext]_pluginsVars /\ [RemindersNext]_remindersVars
  <2>1. CASE UNCHANGED serviceVars
    <3>1. UNCHANGED materialsVars /\ UNCHANGED pluginsVars /\ UNCHANGED remindersVars
      BY <2>1 DEF serviceVars
    <3> QED
      BY <3>1
  <2> QED
    BY <2>1 DEF ServicesNext
<1> QED
  BY <1>1, MaterialsStep, PluginsStep, RemindersStep DEF ServicesInv

\* For any interleaving of the three, which share no table: their rows and requests
\* stay well formed.
THEOREM ServicesTypeCorrect == ServicesSpec => []ServicesTypeOK
<1>1. ServicesInit => ServicesInv
  BY MaterialsStart, PluginsStart, RemindersStart DEF ServicesInit, ServicesInv
<1>2. ServicesInv => ServicesTypeOK
  BY DEF ServicesInv, ServicesTypeOK, LibraryInv, PluginsInv, RemindersInv
<1> QED
  BY <1>1, <1>2, ServicesStep, PTL DEF ServicesSpec

\* For any interleaving of the three: the library, the plugins and the reminders
\* keep their word.
THEOREM ServicesHold == ServicesSpec => []ServicesSound
<1>1. ServicesInit => ServicesInv
  BY MaterialsStart, PluginsStart, RemindersStart DEF ServicesInit, ServicesInv
<1>2. ServicesInv => ServicesSound
  BY LibraryHolds, PluginsHold, RemindersHold DEF ServicesInv, ServicesSound
<1> QED
  BY <1>1, <1>2, ServicesStep, PTL DEF ServicesSpec

-----------------------------------------------------------------------------
(* The accounts.                                                           *)

Columns == {"status", "password", "failed", "lockedUntil"}
Until == {Unlocked} \cup 0 .. LastTick + LockTime
Row == [status: {"absent", "active", "inactive", "deleted"}, password: Password,
        failed: 0 .. MaxFail - 1, lockedUntil: Until]
Token == [user: User, live: BOOLEAN, from: Nat, password: Password]
Grant == [user: User, role: Role, live: BOOLEAN]

NoRow(s) == s = <<>>
OneRow(s, e) == s = <<e>>

\* The account of a request, with what the request writes.
After(w) == [c \in DOMAIN accounts[w.user] |->
                IF c \in DOMAIN w.columns THEN w.columns[c] ELSE accounts[w.user][c]]

\* A request has its fields and no others, and writes well formed rows.
WorkOK(w) ==
    /\ w = [kind |-> "open", late |-> w.late, user |-> w.user, columns |-> w.columns,
            revoked |-> w.revoked, issued |-> w.issued, dropped |-> w.dropped,
            granted |-> w.granted]
    /\ w.late \in BOOLEAN /\ w.user \in User
    /\ DOMAIN w.columns \subseteq Columns
    /\ \A r \in Row : [c \in Columns |-> IF c \in DOMAIN w.columns THEN w.columns[c] ELSE r[c]] \in Row
    /\ NoRow(w.issued) \/ \E t \in Token : OneRow(w.issued, t) /\ t.from \in 0 .. Len(tokens)
    /\ NoRow(w.granted) \/ \E g \in Grant : OneRow(w.granted, g)

Typed ==
    /\ accounts \in [User -> Row]
    /\ grants \in Seq(Grant)
    /\ tokens \in Seq(Token) /\ \A n \in DOMAIN tokens : tokens[n].from \in 0 .. n - 1
    /\ DOMAIN work = Desk
    /\ \A d \in Desk : work[d] = NoWork \/ WorkOK(work[d])
    /\ clock \in 0 .. LastTick /\ crossed \in BOOLEAN

\* What is live was opened with the present password of an active account; a
\* token that was traded is not live; every account has one role.
Sound ==
    /\ \A n \in DOMAIN tokens :
          tokens[n].live => /\ accounts[tokens[n].user].status = "active"
                            /\ accounts[tokens[n].user].password = tokens[n].password
    /\ \A m, n \in DOMAIN tokens : tokens[m].from = n => ~ tokens[n].live
    /\ \A m, n \in DOMAIN tokens :
          (m # n /\ tokens[m].from = tokens[n].from) => tokens[m].from = 0
    /\ \A u \in User : IF accounts[u].status = "absent" THEN LiveGrants(u) = {}
                       ELSE Exists(u) => \E n \in DOMAIN grants : LiveGrants(u) = {n}

\* What a request may write of the account u, tested on the tables as they are:
\* "row" is the account afterwards.
Allowed(u, row, revoked, issued, dropped, granted) ==
    /\ Exists(u) /\ row.status # "absent"
    /\ row.status # "active" \/ row.password # accounts[u].password
          => LiveTokens(u) \subseteq revoked
    /\ \A t \in Token : OneRow(issued, t) =>
          /\ t.user = u /\ row.status = "active" /\ t.password = row.password
          /\ t.from # 0 => /\ t.from \in revoked
                           /\ \A m \in DOMAIN tokens : tokens[m].from # t.from
    /\ \/ dropped = {} /\ NoRow(granted)
       \/ /\ dropped = LiveGrants(u)
          /\ \E r \in Role : OneRow(granted, [user |-> u, role |-> r, live |-> TRUE])
    /\ ActiveSuperAdmins = {u} =>
          /\ row.status = "active" \/ (u \in TeacherUser /\ row.status = "inactive")
          /\ \A g \in Grant : OneRow(granted, g) => g.role = "super_admin"

\* Nobody overtook the request: what it tested is still so.
Allowable(w) == Allowed(w.user, After(w), w.revoked, w.issued, w.dropped, w.granted)

Calm == ~ crossed =>
    /\ Sound
    /\ \A d \in Desk : (work[d] # NoWork /\ ~ work[d].late) => Allowable(work[d])

-----------------------------------------------------------------------------
(* Rows and requests.                                                       *)

\* A function on 1 .. n with values in a set is a sequence over it.
LEMMA SequenceOf ==
    ASSUME NEW S, NEW n \in Nat, NEW f, f = [j \in 1 .. n |-> f[j]],
           \A j \in 1 .. n : f[j] \in S
    PROVE  f \in Seq(S)
<1>1. f \in [1 .. n -> S]
  BY Zenon
<1> QED BY <1>1, SeqDef

\* A sequence, and at most one element after it.
LEMMA Longer ==
    ASSUME NEW S, NEW s \in Seq(S), NEW more, NoRow(more) \/ \E e \in S : OneRow(more, e),
           NEW out, out = s \o more
    PROVE  /\ out \in Seq(S) /\ Len(s) \in Nat /\ DOMAIN s = 1 .. Len(s)
           /\ \A n \in 1 .. Len(s) : out[n] = s[n]
           /\ NoRow(more) => DOMAIN out = 1 .. Len(s)
           /\ \A e \in S : OneRow(more, e) => /\ DOMAIN out = 1 .. Len(s) + 1
                                           /\ out[Len(s) + 1] = e
<1>1. Len(s) \in Nat /\ DOMAIN s = 1 .. Len(s)
  BY LenProperties
<1>2. CASE NoRow(more)
  BY <1>1, <1>2, ConcatEmptySeq DEF NoRow, OneRow
<1>3. ASSUME NEW e \in S, OneRow(more, e)
      PROVE  /\ s \o more \in Seq(S)
             /\ \A n \in 1 .. Len(s) : (s \o more)[n] = s[n]
             /\ DOMAIN (s \o more) = 1 .. Len(s) + 1
             /\ (s \o more)[Len(s) + 1] = e
  <2>1. more \in Seq(S) /\ Len(more) = 1 /\ more[1] = e
    BY <1>3 DEF OneRow
  <2>2. /\ s \o more \in Seq(S) /\ Len(s \o more) = Len(s) + Len(more)
        /\ \A n \in 1 .. Len(s) + Len(more) :
              (s \o more)[n] = IF n <= Len(s) THEN s[n] ELSE more[n - Len(s)]
    BY <2>1, ConcatProperties
  <2>3. DOMAIN (s \o more) = 1 .. Len(s) + 1
    BY <1>1, <2>1, <2>2, LenProperties
  <2>4. ASSUME NEW n \in 1 .. Len(s)
        PROVE  (s \o more)[n] = s[n]
    BY <1>1, <2>1, <2>2
  <2>5. (s \o more)[Len(s) + 1] = more[Len(s) + 1 - Len(s)] /\ Len(s) + 1 - Len(s) = 1
    BY <1>1, <2>1, <2>2
  <2> QED BY <2>1, <2>2, <2>3, <2>4, <2>5
<1>4. \A e \in S : NoRow(more) => ~ OneRow(more, e)
  BY DEF NoRow, OneRow
<1> QED BY <1>1, <1>2, <1>3, <1>4

\* The element after the others.
LEMMA LongerByOne ==
    ASSUME NEW S, NEW s \in Seq(S), NEW e \in S, NEW more, OneRow(more, e),
           NEW out, out = s \o more
    PROVE  DOMAIN out = 1 .. Len(s) + 1 /\ out[Len(s) + 1] = e
BY Longer

\* A well formed request leaves a well formed row.
LEMMA AfterOK ==
    ASSUME Typed, NEW w, WorkOK(w)
    PROVE  After(w) \in Row
<1>1. accounts[w.user] \in Row /\ DOMAIN accounts[w.user] = Columns
  BY DEF Typed, WorkOK, Row, Columns
<1> DEFINE old == accounts[w.user]
           new == [c \in Columns |-> IF c \in DOMAIN w.columns THEN w.columns[c] ELSE old[c]]
<1>2. new \in Row
  BY <1>1 DEF WorkOK
<1>3. After(w) = new
  BY <1>1 DEF After
<1> QED BY <1>2, <1>3

\* The requests the actions build.
Request(u, row, revoked, issued, dropped, granted) ==
    [kind |-> "open", late |-> FALSE, user |-> u,
     columns |-> Restrict(row, {c \in DOMAIN row : row[c] # accounts[u][c]}),
     revoked |-> revoked, issued |-> issued, dropped |-> dropped, granted |-> granted]

\* A request built from a whole row writes that row.
LEMMA RequestOK ==
    ASSUME Typed, NEW u \in User, NEW row \in Row, NEW revoked, NEW dropped,
           NEW issued, NoRow(issued) \/ \E t \in Token : OneRow(issued, t) /\ t.from \in 0 .. Len(tokens),
           NEW granted, NoRow(granted) \/ \E g \in Grant : OneRow(granted, g)
    PROVE  /\ WorkOK(Request(u, row, revoked, issued, dropped, granted))
           /\ After(Request(u, row, revoked, issued, dropped, granted)) = row
           /\ ~ Request(u, row, revoked, issued, dropped, granted).late
<1> DEFINE changed == {c \in DOMAIN row : row[c] # accounts[u][c]}
           columns == Restrict(row, changed)
           w == Request(u, row, revoked, issued, dropped, granted)
<1>1. /\ accounts[u] \in Row /\ DOMAIN accounts[u] = Columns /\ DOMAIN row = Columns
  BY DEF Typed, Row, Columns
<1>2. /\ DOMAIN columns = changed /\ changed \subseteq Columns
      /\ \A c \in changed : columns[c] = row[c]
  BY <1>1 DEF Restrict
<1>3. \A c \in Columns \ changed : row[c] = accounts[u][c]
  BY <1>1
<1> HIDE DEF changed, columns
<1>4. [c \in Columns |-> IF c \in DOMAIN columns THEN columns[c] ELSE accounts[u][c]] = row
  <2>1. row = [c \in Columns |-> row[c]]
    BY <1>1 DEF Row, Columns
  <2>2. \A c \in Columns :
            (IF c \in DOMAIN columns THEN columns[c] ELSE accounts[u][c]) = row[c]
    BY <1>2, <1>3
  <2> QED BY <2>1, <2>2
<1>5. ASSUME NEW r \in Row
      PROVE  [c \in Columns |-> IF c \in DOMAIN columns THEN columns[c] ELSE r[c]] \in Row
  <2> DEFINE new == [c \in Columns |-> IF c \in DOMAIN columns THEN columns[c] ELSE r[c]]
  <2>1. \A c \in Columns : new[c] = row[c] \/ new[c] = r[c]
    BY <1>2
  <2>2. new = [status |-> new["status"], password |-> new["password"],
               failed |-> new["failed"], lockedUntil |-> new["lockedUntil"]]
    BY DEF Columns
  <2>3. DOMAIN new = Columns
    OBVIOUS
  <2> HIDE DEF new
  <2>4. /\ new["status"] \in {"absent", "active", "inactive", "deleted"}
        /\ new["password"] \in Password /\ new["failed"] \in 0 .. MaxFail - 1
        /\ new["lockedUntil"] \in Until
    BY <2>1 DEF Row, Columns
  <2>5. [status |-> new["status"], password |-> new["password"],
         failed |-> new["failed"], lockedUntil |-> new["lockedUntil"]] \in Row
    BY <2>4 DEF Row
  <2>6. new \in Row
    BY <2>2, <2>5
  <2> QED BY <2>6 DEF new
<1>6. /\ w = [kind |-> "open", late |-> FALSE, user |-> u, columns |-> columns,
              revoked |-> revoked, issued |-> issued, dropped |-> dropped,
              granted |-> granted]
  BY DEF Request, columns, changed
<1> HIDE DEF w
<1>7. /\ w.user = u /\ w.columns = columns /\ w.issued = issued /\ w.granted = granted
      /\ w.late = FALSE /\ w.revoked = revoked /\ w.dropped = dropped
  BY <1>6
<1>8. WorkOK(w)
  BY <1>2, <1>5, <1>6, <1>7 DEF WorkOK
<1>9. After(w) = row
  BY <1>1, <1>4, <1>7 DEF After
<1> QED BY <1>7, <1>8, <1>9 DEF w

-----------------------------------------------------------------------------
(* Beginning and ending a request.                                          *)

\* Nobody else is affected when a request begins.
LEMMA BeginKeeps ==
    ASSUME Typed, Calm, NEW d \in Desk, NEW w, BeginAccess(d, w), WorkOK(w),
           ~ crossed => Allowable(w)
    PROVE  Typed' /\ Calm'
<1>1. /\ accounts' = accounts /\ grants' = grants /\ tokens' = tokens
      /\ clock' = clock /\ crossed' = crossed /\ work' = [work EXCEPT ![d] = w]
  BY DEF BeginAccess, accessTables
<1>2. DOMAIN work' = Desk /\ work'[d] = w /\ \A e \in Desk \ {d} : work'[e] = work[e]
  BY <1>1 DEF Typed
<1>3. \A x : (WorkOK(x) => WorkOK(x)') /\ (Allowable(x) => Allowable(x)')
  BY <1>1 DEF WorkOK, Allowable, Allowed, After, Exists, LiveTokens, LiveGrants, ActiveSuperAdmins,
              RolesOf
<1>4. \A e \in Desk : work'[e] = NoWork \/ WorkOK(work'[e])
  BY <1>2 DEF Typed
<1>5. \A e \in Desk : (work[e] = NoWork \/ WorkOK(work[e]))'
  BY <1>1, <1>4 DEF WorkOK
<1>6. Typed'
  BY <1>1, <1>2, <1>5 DEF Typed
<1>7. Sound => Sound'
  BY <1>1 DEF Sound, Exists, LiveGrants
<1>8. ASSUME ~ crossed, NEW e \in Desk, work'[e] # NoWork, ~ work'[e].late
      PROVE  Allowable(work'[e])
  BY <1>2, <1>8, Zenon DEF Calm
<1>9. ASSUME ~ crossed, NEW e \in Desk, work'[e] # NoWork, ~ work'[e].late
      PROVE  Allowable(work[e])'
  BY <1>1, <1>8, <1>9, SMTT(60) DEF Allowable, Allowed, After, Exists, LiveTokens, LiveGrants,
                          ActiveSuperAdmins, RolesOf
<1>10. Calm'
  BY <1>1, <1>7, <1>9 DEF Calm
<1> QED BY <1>6, <1>10

\* A request may be dropped.
LEMMA AbortKeeps ==
    ASSUME Typed, Calm, NEW d \in Desk, AbortAccess(d)
    PROVE  Typed' /\ Calm'
<1>1. /\ accounts' = accounts /\ grants' = grants /\ tokens' = tokens
      /\ clock' = clock /\ crossed' = crossed /\ work' = [work EXCEPT ![d] = NoWork]
  BY DEF AbortAccess, accessTables
<1>2. DOMAIN work' = Desk /\ work'[d] = NoWork /\ \A e \in Desk \ {d} : work'[e] = work[e]
  BY <1>1 DEF Typed
<1>3. \A e \in Desk : (work[e] = NoWork \/ WorkOK(work[e]))'
  BY <1>1, <1>2 DEF Typed, WorkOK
<1>4. Typed'
  BY <1>1, <1>2, <1>3 DEF Typed
<1>5. Sound => Sound'
  BY <1>1 DEF Sound, Exists, LiveGrants
<1>6. ASSUME ~ crossed, NEW e \in Desk, work'[e] # NoWork, ~ work'[e].late
      PROVE  Allowable(work[e])'
  <2>1. Allowable(work'[e])
    BY <1>2, <1>6 DEF Calm
  <2> QED BY <1>1, <2>1 DEF Allowable, Allowed, After, Exists, LiveTokens, LiveGrants,
                            ActiveSuperAdmins, RolesOf
<1>7. Calm'
  BY <1>1, <1>5, <1>6 DEF Calm
<1> QED BY <1>4, <1>7

\* Every request under way is overtaken.
LEMMA CrossingKeeps ==
    ASSUME Typed, NEW done, work' = [e \in Desk |-> IF e \in done \/ work[e] = NoWork THEN NoWork
                                                    ELSE [work[e] EXCEPT !.late = TRUE]],
           Len(tokens') \in Nat, Len(tokens) <= Len(tokens')
    PROVE  /\ DOMAIN work' = Desk
           /\ \A e \in Desk : (work[e] = NoWork \/ WorkOK(work[e]))'
           /\ \A e \in Desk : work'[e] # NoWork => work'[e].late
<1>1. Len(tokens) \in Nat
  BY LenProperties DEF Typed
<1>2. ASSUME NEW e \in Desk, work'[e] # NoWork
      PROVE  WorkOK(work[e])' /\ work'[e].late
  <2>1. WorkOK(work[e]) /\ work'[e] = [work[e] EXCEPT !.late = TRUE]
    BY <1>2 DEF Typed
  <2> DEFINE w == work[e]
             v == work'[e]
  <2>3. WorkOK(w) /\ v = [w EXCEPT !.late = TRUE]
    BY <2>1
  <2> HIDE DEF w, v
  <2>2. v = [kind |-> "open", late |-> TRUE, user |-> w.user, columns |-> w.columns,
             revoked |-> w.revoked, issued |-> w.issued, dropped |-> w.dropped,
             granted |-> w.granted]
    <3>1. w = [kind |-> "open", late |-> w.late, user |-> w.user, columns |-> w.columns,
               revoked |-> w.revoked, issued |-> w.issued, dropped |-> w.dropped,
               granted |-> w.granted]
      BY <2>3 DEF WorkOK
    <3>2. DOMAIN w = {"kind", "late", "user", "columns", "revoked", "issued", "dropped", "granted"}
      BY <3>1
    <3>3. v = [f \in DOMAIN w |-> IF f = "late" THEN TRUE ELSE w[f]]
      BY <2>3, <3>2
    <3>4. w.kind = "open"
      BY <3>1
    <3> QED BY <3>2, <3>3, <3>4
  <2>4. /\ v.late = TRUE /\ v.user = w.user /\ v.columns = w.columns /\ v.revoked = w.revoked
        /\ v.issued = w.issued /\ v.dropped = w.dropped /\ v.granted = w.granted
    BY <2>2
  <2>5. WorkOK(v)
    BY <2>2, <2>3, <2>4 DEF WorkOK
  <2>6. WorkOK(work'[e])
    BY <2>5 DEF v
  <2>7. 0 .. Len(tokens) \subseteq 0 .. Len(tokens')
    BY <1>1
  <2>8. WorkOK(work[e])'
    BY <2>6, <2>7 DEF WorkOK
  <2> QED BY <2>4, <2>8 DEF v
<1> QED BY <1>2

\* A commit, table by table.
LEMMA CommitEffect ==
    ASSUME Typed, NEW d \in Desk, CommitAccess(d)
    PROVE  /\ WorkOK(work[d]) /\ After(work[d]) \in Row
           /\ accounts' \in [User -> Row]
           /\ accounts'[work[d].user] = After(work[d])
           /\ \A u \in User \ {work[d].user} : accounts'[u] = accounts[u]
           /\ tokens' \in Seq(Token) /\ Len(tokens) <= Len(tokens')
           /\ \A n \in DOMAIN tokens :
                 /\ n \in DOMAIN tokens'
                 /\ tokens'[n].user = tokens[n].user /\ tokens'[n].from = tokens[n].from
                 /\ tokens'[n].password = tokens[n].password
                 /\ tokens'[n].live <=> (tokens[n].live /\ n \notin work[d].revoked)
           /\ \/ DOMAIN tokens' = DOMAIN tokens
              \/ \E t \in Token : /\ OneRow(work[d].issued, t) /\ t.from \in 0 .. Len(tokens)
                                  /\ DOMAIN tokens' = (DOMAIN tokens) \cup {Len(tokens) + 1}
                                  /\ tokens'[Len(tokens) + 1] = t
           /\ grants' \in Seq(Grant)
           /\ \A n \in DOMAIN grants :
                 /\ n \in DOMAIN grants'
                 /\ grants'[n].user = grants[n].user /\ grants'[n].role = grants[n].role
                 /\ grants'[n].live <=> (grants[n].live /\ n \notin work[d].dropped)
           /\ \/ NoRow(work[d].granted) /\ DOMAIN grants' = DOMAIN grants
              \/ \E g \in Grant : /\ OneRow(work[d].granted, g)
                                  /\ Len(grants) + 1 \notin DOMAIN grants
                                  /\ DOMAIN grants' = (DOMAIN grants) \cup {Len(grants) + 1}
                                  /\ grants'[Len(grants) + 1] = g
           /\ work' = [e \in Desk |-> IF e \in {d} \/ work[e] = NoWork THEN NoWork
                                      ELSE [work[e] EXCEPT !.late = TRUE]]
           /\ crossed' = (crossed \/ work[d].late) /\ clock' = clock
<1> DEFINE w == work[d]
           kept == [n \in DOMAIN tokens |-> [tokens[n] EXCEPT !.live = @ /\ n \notin w.revoked]]
           held == [n \in DOMAIN grants |-> [grants[n] EXCEPT !.live = @ /\ n \notin w.dropped]]
<1>1. /\ w # NoWork
      /\ accounts' = [accounts EXCEPT ![w.user] =
            [c \in DOMAIN @ |-> IF c \in DOMAIN w.columns THEN w.columns[c] ELSE @[c]]]
      /\ tokens' = kept \o w.issued
      /\ grants' = held \o w.granted
      /\ work' = [Crossing EXCEPT ![d] = NoWork]
      /\ crossed' = (crossed \/ w.late) /\ clock' = clock
  BY DEF CommitAccess
<1>2. WorkOK(w) /\ After(w) \in Row
  BY <1>1, AfterOK DEF Typed
<1>3. /\ accounts' \in [User -> Row] /\ accounts'[w.user] = After(w)
      /\ \A u \in User \ {w.user} : accounts'[u] = accounts[u]
  <2>1. w.user \in User /\ accounts \in [User -> Row]
    BY <1>2 DEF WorkOK, Typed
  <2>2. accounts' = [accounts EXCEPT ![w.user] = After(w)]
    BY <1>1, <2>1 DEF After
  <2> HIDE DEF w
  <2> QED BY <1>2, <2>1, <2>2
<1>4. /\ tokens \in Seq(Token) /\ Len(tokens) \in Nat /\ DOMAIN tokens = 1 .. Len(tokens)
      /\ \A n \in DOMAIN tokens : tokens[n] \in Token
  BY LenProperties, ElementOfSeq DEF Typed
<1>5. /\ kept \in Seq(Token) /\ Len(kept) = Len(tokens) /\ DOMAIN kept = DOMAIN tokens
      /\ \A n \in DOMAIN tokens :
            /\ kept[n].user = tokens[n].user /\ kept[n].from = tokens[n].from
            /\ kept[n].password = tokens[n].password
            /\ kept[n].live <=> (tokens[n].live /\ n \notin w.revoked)
  <2>1. ASSUME NEW t \in Token, NEW b \in BOOLEAN
        PROVE  /\ [t EXCEPT !.live = b] \in Token
               /\ [t EXCEPT !.live = b].user = t.user /\ [t EXCEPT !.live = b].from = t.from
               /\ [t EXCEPT !.live = b].password = t.password
               /\ [t EXCEPT !.live = b].live = b
    BY DEF Token
  <2> DEFINE live(n) == tokens[n].live /\ n \notin w.revoked
  <2>2. \A n \in DOMAIN tokens :
            live(n) \in BOOLEAN /\ kept[n] = [tokens[n] EXCEPT !.live = live(n)]
    OBVIOUS
  <2> HIDE DEF live
  <2>3. \A n \in DOMAIN tokens :
            /\ kept[n] \in Token
            /\ kept[n].user = tokens[n].user /\ kept[n].from = tokens[n].from
            /\ kept[n].password = tokens[n].password /\ kept[n].live = live(n)
    <3> SUFFICES ASSUME NEW n \in DOMAIN tokens
                 PROVE  /\ kept[n] \in Token
                        /\ kept[n].user = tokens[n].user
                        /\ kept[n].from = tokens[n].from /\ kept[n].password = tokens[n].password
                        /\ kept[n].live = live(n)
      OBVIOUS
    <3>1. tokens[n] \in Token /\ live(n) \in BOOLEAN /\ kept[n] = [tokens[n] EXCEPT !.live = live(n)]
      BY <1>4, <2>2
    <3> HIDE DEF kept
    <3> QED BY <2>1, <3>1
  <2>4. kept \in Seq(Token)
    <3>1. kept = [n \in 1 .. Len(tokens) |-> kept[n]]
      BY <1>4
    <3> HIDE DEF kept
    <3> QED BY <1>4, <2>3, <3>1, SequenceOf
  <2>5. DOMAIN kept = DOMAIN tokens
    OBVIOUS
  <2> HIDE DEF kept
  <2>6. Len(kept) = Len(tokens)
    BY <1>4, <2>4, <2>5, LenProperties
  <2> QED BY <2>3, <2>4, <2>5, <2>6 DEF live
<1>6. /\ grants \in Seq(Grant) /\ Len(grants) \in Nat /\ DOMAIN grants = 1 .. Len(grants)
      /\ \A n \in DOMAIN grants : grants[n] \in Grant
  BY LenProperties, ElementOfSeq DEF Typed
<1>7. /\ held \in Seq(Grant) /\ Len(held) = Len(grants) /\ DOMAIN held = DOMAIN grants
      /\ \A n \in DOMAIN grants :
            /\ held[n].user = grants[n].user /\ held[n].role = grants[n].role
            /\ held[n].live <=> (grants[n].live /\ n \notin w.dropped)
  <2>1. ASSUME NEW g \in Grant, NEW b \in BOOLEAN
        PROVE  /\ [g EXCEPT !.live = b] \in Grant
               /\ [g EXCEPT !.live = b].user = g.user /\ [g EXCEPT !.live = b].role = g.role
               /\ [g EXCEPT !.live = b].live = b
    BY DEF Grant
  <2> DEFINE live(n) == grants[n].live /\ n \notin w.dropped
  <2>2. \A n \in DOMAIN grants :
            live(n) \in BOOLEAN /\ held[n] = [grants[n] EXCEPT !.live = live(n)]
    OBVIOUS
  <2> HIDE DEF live
  <2>3. \A n \in DOMAIN grants :
            /\ held[n] \in Grant
            /\ held[n].user = grants[n].user /\ held[n].role = grants[n].role
            /\ held[n].live = live(n)
    <3> SUFFICES ASSUME NEW n \in DOMAIN grants
                 PROVE  /\ held[n] \in Grant
                        /\ held[n].user = grants[n].user
                        /\ held[n].role = grants[n].role
                        /\ held[n].live = live(n)
      OBVIOUS
    <3>1. grants[n] \in Grant /\ live(n) \in BOOLEAN /\ held[n] = [grants[n] EXCEPT !.live = live(n)]
      BY <1>6, <2>2
    <3> HIDE DEF held
    <3> QED BY <2>1, <3>1
  <2>4. held \in Seq(Grant)
    <3>1. held = [n \in 1 .. Len(grants) |-> held[n]]
      BY <1>6
    <3> HIDE DEF held
    <3> QED BY <1>6, <2>3, <3>1, SequenceOf
  <2>5. DOMAIN held = DOMAIN grants
    OBVIOUS
  <2> HIDE DEF held
  <2>6. Len(held) = Len(grants)
    BY <1>6, <2>4, <2>5, LenProperties
  <2> QED BY <2>3, <2>4, <2>5, <2>6 DEF live
<1> HIDE DEF kept, held
<1>8. work' = [e \in Desk |-> IF e \in {d} \/ work[e] = NoWork THEN NoWork
                              ELSE [work[e] EXCEPT !.late = TRUE]]
  BY <1>1 DEF Crossing
<1> HIDE DEF w
<1>9. /\ tokens' \in Seq(Token)
      /\ \A n \in DOMAIN tokens : tokens'[n] = kept[n]
      /\ NoRow(w.issued) => DOMAIN tokens' = 1 .. Len(tokens)
      /\ \A t \in Token : OneRow(w.issued, t) => /\ DOMAIN tokens' = 1 .. Len(tokens) + 1
                                              /\ tokens'[Len(tokens) + 1] = t
  <2>1. NoRow(w.issued) \/ \E t \in Token : OneRow(w.issued, t)
    BY <1>2 DEF WorkOK
  <2>0. kept \in Seq(Token)
    BY <1>5
  <2>3. tokens' = kept \o w.issued
    BY <1>1 DEF w
  <2>2. tokens' \in Seq(Token)
    BY <2>0, <2>1, <2>3, Longer
  <2>5. \A n \in 1 .. Len(kept) : tokens'[n] = kept[n]
    BY <2>0, <2>1, <2>3, Longer
  <2>6. NoRow(w.issued) => DOMAIN tokens' = 1 .. Len(kept)
    BY <2>0, <2>1, <2>3, Longer
  <2>4. \A e \in Token : OneRow(w.issued, e) => /\ DOMAIN tokens' = 1 .. Len(kept) + 1
                                        /\ tokens'[Len(kept) + 1] = e
    BY <2>0, <2>3, LongerByOne
  <2> QED BY <1>4, <1>5, <2>2, <2>4, <2>5, <2>6
<1>10. \/ DOMAIN tokens' = DOMAIN tokens
       \/ \E t \in Token : /\ OneRow(w.issued, t) /\ t.from \in 0 .. Len(tokens)
                           /\ DOMAIN tokens' = (DOMAIN tokens) \cup {Len(tokens) + 1}
                           /\ tokens'[Len(tokens) + 1] = t
  <2>1. NoRow(w.issued) \/ \E t \in Token : OneRow(w.issued, t) /\ t.from \in 0 .. Len(tokens)
    BY <1>2 DEF WorkOK
  <2>2. 1 .. Len(tokens) + 1 = (DOMAIN tokens) \cup {Len(tokens) + 1}
    BY <1>4
  <2> QED BY <1>4, <1>9, <2>1, <2>2
<1>11. DOMAIN tokens \subseteq DOMAIN tokens' /\ Len(tokens) <= Len(tokens')
  <2>1. DOMAIN tokens \subseteq DOMAIN tokens'
    BY <1>10
  <2>2. DOMAIN tokens' = 1 .. Len(tokens') /\ Len(tokens') \in Nat
    BY <1>9, LenProperties
  <2> QED BY <1>4, <2>1, <2>2
<1>12. /\ grants' \in Seq(Grant)
       /\ \A n \in DOMAIN grants : grants'[n] = held[n]
       /\ NoRow(w.granted) => DOMAIN grants' = 1 .. Len(grants)
       /\ \A g \in Grant : OneRow(w.granted, g) => /\ DOMAIN grants' = 1 .. Len(grants) + 1
                                                /\ grants'[Len(grants) + 1] = g
  <2>1. NoRow(w.granted) \/ \E g \in Grant : OneRow(w.granted, g)
    BY <1>2 DEF WorkOK
  <2>0. held \in Seq(Grant)
    BY <1>7
  <2>3. grants' = held \o w.granted
    BY <1>1 DEF w
  <2>2. grants' \in Seq(Grant)
    BY <2>0, <2>1, <2>3, Longer
  <2>5. \A n \in 1 .. Len(held) : grants'[n] = held[n]
    BY <2>0, <2>1, <2>3, Longer
  <2>6. NoRow(w.granted) => DOMAIN grants' = 1 .. Len(held)
    BY <2>0, <2>1, <2>3, Longer
  <2>4. \A e \in Grant : OneRow(w.granted, e) => /\ DOMAIN grants' = 1 .. Len(held) + 1
                                        /\ grants'[Len(held) + 1] = e
    BY <2>0, <2>3, LongerByOne
  <2> QED BY <1>6, <1>7, <2>2, <2>4, <2>5, <2>6
<1>13. \/ NoRow(w.granted) /\ DOMAIN grants' = DOMAIN grants
       \/ \E g \in Grant : /\ OneRow(w.granted, g)
                           /\ Len(grants) + 1 \notin DOMAIN grants
                           /\ DOMAIN grants' = (DOMAIN grants) \cup {Len(grants) + 1}
                           /\ grants'[Len(grants) + 1] = g
  <2>1. NoRow(w.granted) \/ \E g \in Grant : OneRow(w.granted, g)
    BY <1>2 DEF WorkOK
  <2>2. /\ 1 .. Len(grants) + 1 = (DOMAIN grants) \cup {Len(grants) + 1}
        /\ Len(grants) + 1 \notin DOMAIN grants
    BY <1>6
  <2> QED BY <1>6, <1>12, <2>1, <2>2
<1>14. \A n \in DOMAIN tokens :
          /\ n \in DOMAIN tokens'
          /\ tokens'[n].user = tokens[n].user /\ tokens'[n].from = tokens[n].from
          /\ tokens'[n].password = tokens[n].password
          /\ tokens'[n].live <=> (tokens[n].live /\ n \notin w.revoked)
  BY <1>5, <1>9, <1>11
<1>15. \A n \in DOMAIN grants :
          /\ n \in DOMAIN grants'
          /\ grants'[n].user = grants[n].user /\ grants'[n].role = grants[n].role
          /\ grants'[n].live <=> (grants[n].live /\ n \notin w.dropped)
  BY <1>7, <1>12, <1>13
<1>16. crossed' = (crossed \/ w.late) /\ clock' = clock
  BY <1>1 DEF w
<1> QED BY <1>2, <1>3, <1>8, <1>9, <1>10, <1>11, <1>12, <1>13, <1>14, <1>15, <1>16 DEF w

\* The last super admin stays, or a teacher account is switched off.
Remains ==
    ActiveSuperAdmins # {} =>
        \/ ActiveSuperAdmins' # {}
        \/ \E u \in TeacherUser : accounts[u].status = "active" /\ accounts'[u].status = "inactive"

\* A commit that nobody overtook wrote what was allowed on the tables it found.
LEMMA CommitSound ==
    ASSUME Typed, Calm, NEW d \in Desk, CommitAccess(d)
    PROVE  Typed' /\ Calm' /\ (~ crossed' => Remains)
<1>1. PICK u, row, revoked, issued, dropped, granted :
          /\ u = work[d].user /\ row = After(work[d]) /\ revoked = work[d].revoked
          /\ issued = work[d].issued /\ dropped = work[d].dropped /\ granted = work[d].granted
  OBVIOUS
<1>2. /\ u \in User /\ row \in Row
      /\ accounts' \in [User -> Row] /\ accounts'[u] = row
      /\ \A v \in User \ {u} : accounts'[v] = accounts[v]
  BY <1>1, CommitEffect DEF WorkOK
<1>3. /\ tokens' \in Seq(Token) /\ Len(tokens) <= Len(tokens')
      /\ \A n \in DOMAIN tokens :
            /\ n \in DOMAIN tokens'
            /\ tokens'[n].user = tokens[n].user /\ tokens'[n].from = tokens[n].from
            /\ tokens'[n].password = tokens[n].password
            /\ tokens'[n].live <=> (tokens[n].live /\ n \notin revoked)
      /\ \/ DOMAIN tokens' = DOMAIN tokens
         \/ \E t \in Token : /\ OneRow(issued, t) /\ t.from \in 0 .. Len(tokens)
                             /\ DOMAIN tokens' = (DOMAIN tokens) \cup {Len(tokens) + 1}
                             /\ tokens'[Len(tokens) + 1] = t
  BY <1>1, CommitEffect
<1>0. PICK new : new = Len(grants) + 1
  OBVIOUS
<1>4. /\ grants' \in Seq(Grant) /\ new \notin DOMAIN grants
      /\ \A n \in DOMAIN grants :
            /\ n \in DOMAIN grants'
            /\ grants'[n].user = grants[n].user /\ grants'[n].role = grants[n].role
            /\ grants'[n].live <=> (grants[n].live /\ n \notin dropped)
      /\ \/ NoRow(granted) /\ DOMAIN grants' = DOMAIN grants
         \/ \E g \in Grant : /\ OneRow(granted, g)
                             /\ DOMAIN grants' = (DOMAIN grants) \cup {new}
                             /\ grants'[new] = g
  <2>1. DOMAIN grants = 1 .. Len(grants) /\ Len(grants) \in Nat
    BY LenProperties DEF Typed
  <2>2. new \notin DOMAIN grants
    BY <1>0, <2>1
  <2>3. /\ grants' \in Seq(Grant)
        /\ \A n \in DOMAIN grants :
              /\ n \in DOMAIN grants'
              /\ grants'[n].user = grants[n].user /\ grants'[n].role = grants[n].role
              /\ grants'[n].live <=> (grants[n].live /\ n \notin dropped)
    BY <1>1, CommitEffect
  <2>4. \/ NoRow(work[d].granted) /\ DOMAIN grants' = DOMAIN grants
        \/ \E g \in Grant : /\ OneRow(work[d].granted, g)
                            /\ Len(grants) + 1 \notin DOMAIN grants
                            /\ DOMAIN grants' = (DOMAIN grants) \cup {Len(grants) + 1}
                            /\ grants'[Len(grants) + 1] = g
    BY CommitEffect
  <2>5. ASSUME NEW g \in Grant, OneRow(work[d].granted, g),
               DOMAIN grants' = (DOMAIN grants) \cup {Len(grants) + 1},
               grants'[Len(grants) + 1] = g
        PROVE  OneRow(granted, g) /\ DOMAIN grants' = (DOMAIN grants) \cup {new} /\ grants'[new] = g
    BY <1>0, <1>1, <2>5
  <2>6. NoRow(work[d].granted) => NoRow(granted)
    BY <1>1
  <2> QED BY <2>2, <2>3, <2>4, <2>5, <2>6
<1>5. /\ work' = [e \in Desk |-> IF e \in {d} \/ work[e] = NoWork THEN NoWork
                                 ELSE [work[e] EXCEPT !.late = TRUE]]
      /\ crossed' = (crossed \/ work[d].late) /\ clock' = clock
  BY CommitEffect
<1>6. /\ Len(tokens) \in Nat /\ DOMAIN tokens = 1 .. Len(tokens)
      /\ Len(tokens') \in Nat
      /\ \A n \in DOMAIN tokens : tokens[n] \in Token /\ tokens[n].from \in 0 .. n - 1
  BY <1>3, LenProperties, ElementOfSeq DEF Typed
<1>7. /\ DOMAIN work' = Desk
      /\ \A e \in Desk : (work[e] = NoWork \/ WorkOK(work[e]))'
      /\ \A e \in Desk : work'[e] # NoWork => work'[e].late
  BY <1>3, <1>5, <1>6, CrossingKeeps
<1>8. \A n \in DOMAIN tokens' : tokens'[n].from \in 0 .. n - 1
  <2>1. ASSUME NEW n \in DOMAIN tokens'
        PROVE  tokens'[n].from \in 0 .. n - 1
    <3>1. CASE n \in DOMAIN tokens
      BY <1>3, <1>6, <3>1
    <3>2. CASE n \notin DOMAIN tokens
      <4>1. n = Len(tokens) + 1 /\ tokens'[n].from \in 0 .. Len(tokens)
        BY <1>3, <3>2
      <4> QED BY <1>6, <4>1
    <3> QED BY <3>1, <3>2
  <2> QED BY <2>1
<1>9. Typed'
  <2>1. crossed' \in BOOLEAN
    BY <1>5, <1>1 DEF Typed
  <2> QED BY <1>2, <1>3, <1>4, <1>5, <1>7, <1>8, <2>1 DEF Typed
<1>10. SUFFICES ASSUME ~ crossed'
                PROVE  Sound' /\ Remains
  BY <1>7, <1>9 DEF Calm
<1>11. ~ crossed /\ Sound /\ Allowed(u, row, revoked, issued, dropped, granted)
  <2>1. ~ crossed /\ ~ work[d].late /\ work[d] # NoWork
    BY <1>5, <1>10 DEF CommitAccess
  <2>2. Sound /\ Allowable(work[d])
    BY <2>1 DEF Calm
  <2> QED BY <1>1, <2>1, <2>2 DEF Allowable
<1>12. ASSUME NEW n \in DOMAIN tokens', tokens'[n].live
       PROVE  /\ accounts'[tokens'[n].user].status = "active"
              /\ accounts'[tokens'[n].user].password = tokens'[n].password
  <2>1. CASE n \in DOMAIN tokens
    <3>1. /\ tokens[n].live /\ n \notin revoked /\ tokens[n].user \in User
          /\ accounts[tokens[n].user].status = "active"
          /\ accounts[tokens[n].user].password = tokens[n].password
          /\ tokens'[n].user = tokens[n].user /\ tokens'[n].password = tokens[n].password
      BY <1>3, <1>6, <1>11, <1>12, <2>1 DEF Sound, Token
    <3>2. CASE tokens[n].user = u
      <4>1. n \in LiveTokens(u)
        BY <2>1, <3>1, <3>2 DEF LiveTokens
      <4>2. row.status = "active" /\ row.password = accounts[u].password
        BY <1>11, <3>1, <4>1 DEF Allowed
      <4> QED BY <1>2, <3>1, <3>2, <4>2
    <3>3. CASE tokens[n].user # u
      BY <1>2, <3>1, <3>3
    <3> QED BY <3>2, <3>3
  <2>2. CASE n \notin DOMAIN tokens
    <3>1. PICK t \in Token : OneRow(issued, t) /\ tokens'[n] = t
      BY <1>3, <2>2
    <3>2. t.user = u /\ row.status = "active" /\ t.password = row.password
      BY <1>11, <3>1 DEF Allowed
    <3> QED BY <1>2, <3>1, <3>2
  <2> QED BY <2>1, <2>2
<1>13. ASSUME NEW n \in DOMAIN tokens', n \notin DOMAIN tokens
       PROVE  /\ n = Len(tokens) + 1 /\ tokens'[n].from \in 0 .. Len(tokens)
              /\ tokens'[n].from # 0 =>
                    /\ tokens'[n].from \in revoked
                    /\ \A m \in DOMAIN tokens : tokens[m].from # tokens'[n].from
  <2>1. PICK t \in Token : /\ OneRow(issued, t) /\ t.from \in 0 .. Len(tokens)
                           /\ DOMAIN tokens' = (DOMAIN tokens) \cup {Len(tokens) + 1}
                           /\ tokens'[Len(tokens) + 1] = t
    BY <1>3, <1>13
  <2>2. t.from # 0 => t.from \in revoked /\ \A m \in DOMAIN tokens : tokens[m].from # t.from
    BY <1>11, <2>1 DEF Allowed
  <2> QED BY <1>13, <2>1, <2>2
<1>14. \A n \in DOMAIN tokens, m \in DOMAIN tokens' :
          m \notin DOMAIN tokens => m # n /\ tokens'[n].from # m
  <2> SUFFICES ASSUME NEW n \in DOMAIN tokens, NEW m \in DOMAIN tokens', m \notin DOMAIN tokens
               PROVE  m # n /\ tokens'[n].from # m
    OBVIOUS
  <2>1. m = Len(tokens) + 1 /\ tokens'[n].from \in 0 .. n - 1
    BY <1>3, <1>6, <1>13
  <2> QED BY <1>6, <2>1
<1>15. ASSUME NEW m \in DOMAIN tokens', NEW n \in DOMAIN tokens', tokens'[m].from = n,
              tokens'[n].live
       PROVE  FALSE
  <2>1. CASE m \in DOMAIN tokens /\ n \in DOMAIN tokens
    BY <1>3, <1>11, <1>15, <2>1 DEF Sound
  <2>2. CASE m \in DOMAIN tokens /\ n \notin DOMAIN tokens
    BY <1>14, <1>15, <2>2
  <2>3. CASE m \notin DOMAIN tokens /\ n \in DOMAIN tokens
    <3>1. n # 0
      BY <1>6, <2>3
    <3>2. n \in revoked
      BY <1>13, <1>15, <2>3, <3>1
    <3> QED BY <1>3, <1>15, <2>3, <3>2
  <2>4. CASE m \notin DOMAIN tokens /\ n \notin DOMAIN tokens
    <3>1. n = Len(tokens) + 1 /\ n \in 0 .. Len(tokens)
      BY <1>13, <1>15, <2>4
    <3> QED BY <1>6, <3>1
  <2> QED BY <2>1, <2>2, <2>3, <2>4
<1>16. ASSUME NEW m \in DOMAIN tokens', NEW n \in DOMAIN tokens', m # n,
              tokens'[m].from = tokens'[n].from
       PROVE  tokens'[m].from = 0
  <2>1. CASE m \in DOMAIN tokens /\ n \in DOMAIN tokens
    BY <1>3, <1>11, <1>16, <2>1 DEF Sound
  <2>2. CASE m \in DOMAIN tokens /\ n \notin DOMAIN tokens
    BY <1>3, <1>13, <1>16, <2>2
  <2>3. CASE m \notin DOMAIN tokens /\ n \in DOMAIN tokens
    BY <1>3, <1>13, <1>16, <2>3
  <2>4. CASE m \notin DOMAIN tokens /\ n \notin DOMAIN tokens
    BY <1>13, <1>16, <2>4
  <2> QED BY <2>1, <2>2, <2>3, <2>4
<1>17. \A v \in User \ {u} : LiveGrants(v)' = LiveGrants(v) /\ RolesOf(v)' = RolesOf(v)
  <2> SUFFICES ASSUME NEW v \in User \ {u}
               PROVE  LiveGrants(v)' = LiveGrants(v) /\ RolesOf(v)' = RolesOf(v)
    OBVIOUS
  <2>1. \A n \in DOMAIN grants : n \in dropped => grants[n].user = u
    BY <1>11 DEF Allowed, LiveGrants
  <2>2. \A n \in (DOMAIN grants') \ DOMAIN grants : grants'[n].user = u
    BY <1>4, <1>11 DEF Allowed, NoRow, OneRow
  <2>3. LiveGrants(v)' = LiveGrants(v)
    BY <1>4, <2>1, <2>2 DEF LiveGrants
  <2>4. \A n \in LiveGrants(v) : grants'[n].role = grants[n].role
    BY <1>4 DEF LiveGrants
  <2> QED BY <2>3, <2>4 DEF RolesOf
<1>18. /\ NoRow(granted) => LiveGrants(u)' = LiveGrants(u) /\ RolesOf(u)' = RolesOf(u)
       /\ ~ NoRow(granted) =>
             /\ LiveGrants(u)' = {new} /\ new \in DOMAIN grants'
             /\ \A g \in Grant : OneRow(granted, g) => RolesOf(u)' = {g.role}
  <2>1. CASE dropped = {} /\ NoRow(granted)
    <3>1. DOMAIN grants' = DOMAIN grants
      BY <1>4, <2>1 DEF NoRow, OneRow
    <3>2. LiveGrants(u)' = LiveGrants(u)
      BY <1>4, <2>1, <3>1 DEF LiveGrants
    <3>3. \A n \in LiveGrants(u) : grants'[n].role = grants[n].role
      BY <1>4 DEF LiveGrants
    <3> QED BY <2>1, <3>2, <3>3 DEF RolesOf
  <2>2. CASE /\ dropped = LiveGrants(u)
             /\ \E r \in Role : OneRow(granted, [user |-> u, role |-> r, live |-> TRUE])
    <3>1. PICK r \in Role : OneRow(granted, [user |-> u, role |-> r, live |-> TRUE])
      BY <2>2
    <3>2. /\ ~ NoRow(granted) /\ DOMAIN grants' = (DOMAIN grants) \cup {new}
          /\ grants'[new] = [user |-> u, role |-> r, live |-> TRUE]
      BY <1>4, <3>1 DEF NoRow, OneRow
    <3>3. LiveGrants(u)' = {new}
      BY <1>4, <2>2, <3>2 DEF LiveGrants
    <3>4. RolesOf(u)' = {r}
      BY <3>2, <3>3 DEF RolesOf
    <3> QED BY <3>1, <3>2, <3>3, <3>4 DEF OneRow
  <2> QED BY <1>11, <2>1, <2>2 DEF Allowed
<1>19. ASSUME NEW v \in User
       PROVE  IF accounts'[v].status = "absent" THEN LiveGrants(v)' = {}
              ELSE Exists(v)' => \E n \in DOMAIN grants' : LiveGrants(v)' = {n}
  <2>1. CASE v # u
    BY <1>2, <1>4, <1>11, <1>17, <2>1 DEF Sound, Exists
  <2>2. CASE v = u
    <3>1. accounts'[u].status # "absent" /\ Exists(u) /\ accounts[u].status # "absent"
      BY <1>2, <1>11 DEF Allowed, Exists
    <3>2. \E n \in DOMAIN grants : LiveGrants(u) = {n}
      BY <1>2, <1>11, <3>1 DEF Sound
    <3> QED BY <1>4, <1>18, <2>2, <3>1, <3>2
  <2> QED BY <2>1, <2>2
<1>20. Sound'
  BY <1>12, <1>15, <1>16, <1>19 DEF Sound
<1>21. Remains
  <2> SUFFICES ASSUME NEW a \in ActiveSuperAdmins
               PROVE  \/ ActiveSuperAdmins' # {}
                      \/ \E v \in TeacherUser : /\ accounts[v].status = "active"
                                                /\ accounts'[v].status = "inactive"
    BY DEF Remains
  <2>1. CASE \E v \in ActiveSuperAdmins : v # u
    <3>1. PICK v \in ActiveSuperAdmins : v # u
      BY <2>1
    <3>2. v \in ActiveSuperAdmins'
      BY <1>2, <1>17, <3>1 DEF ActiveSuperAdmins
    <3> QED BY <3>2
  <2>2. CASE ActiveSuperAdmins = {u}
    <3>1. /\ row.status = "active" \/ (u \in TeacherUser /\ row.status = "inactive")
          /\ \A g \in Grant : OneRow(granted, g) => g.role = "super_admin"
      BY <1>11, <2>2 DEF Allowed
    <3>2. accounts[u].status = "active" /\ "super_admin" \in RolesOf(u)
      BY <2>2 DEF ActiveSuperAdmins
    <3>3. "super_admin" \in RolesOf(u)'
      BY <1>4, <1>18, <3>1, <3>2
    <3>4. CASE row.status = "active"
      <4>1. u \in ActiveSuperAdmins'
        BY <1>2, <3>3, <3>4 DEF ActiveSuperAdmins
      <4> QED BY <4>1
    <3>5. CASE u \in TeacherUser /\ row.status = "inactive"
      BY <1>2, <3>2, <3>5
    <3> QED BY <3>1, <3>4, <3>5
  <2> QED BY <2>1, <2>2
<1> QED BY <1>20, <1>21

-----------------------------------------------------------------------------
(* What each request may write.                                             *)

\* The requests of the module, field by field.
LEMMA Built ==
    ASSUME NEW u, NEW row, NEW R, NEW I
    PROVE  /\ Writing(u, row) = Request(u, row, {}, <<>>, {}, <<>>)
           /\ [Writing(u, row) EXCEPT !.issued = I] = Request(u, row, {}, I, {}, <<>>)
           /\ [Writing(u, row) EXCEPT !.revoked = R] = Request(u, row, R, <<>>, {}, <<>>)
<1> DEFINE c == Restrict(row, {x \in DOMAIN row : row[x] # accounts[u][x]})
           w == Writing(u, row)
           Fields == {"kind", "late", "user", "columns", "revoked", "issued", "dropped", "granted"}
<1>1. /\ DOMAIN w = Fields /\ w = [f \in Fields |-> w[f]]
      /\ w["kind"] = "open" /\ w["late"] = FALSE /\ w["user"] = u /\ w["columns"] = c
      /\ w["revoked"] = {} /\ w["issued"] = <<>> /\ w["dropped"] = {} /\ w["granted"] = <<>>
  BY DEF Writing
<1>2. ASSUME NEW v, v = [f \in Fields |-> v[f]], v["kind"] = "open", v["late"] = FALSE,
             v["user"] = u, v["columns"] = c
      PROVE  v = Request(u, row, v["revoked"], v["issued"], v["dropped"], v["granted"])
  <2>1. v = [kind |-> v["kind"], late |-> v["late"], user |-> v["user"],
             columns |-> v["columns"], revoked |-> v["revoked"], issued |-> v["issued"],
             dropped |-> v["dropped"], granted |-> v["granted"]]
    BY <1>2
  <2> QED BY <1>2, <2>1 DEF Request
<1> HIDE DEF c, w
<1>3. w = Request(u, row, {}, <<>>, {}, <<>>)
  BY <1>1, <1>2
<1>4. [w EXCEPT !.issued = I] = Request(u, row, {}, I, {}, <<>>)
  <2> DEFINE v == [w EXCEPT !.issued = I]
  <2>1. v = [f \in Fields |-> IF f = "issued" THEN I ELSE w[f]]
    BY <1>1
  <2> HIDE DEF v
  <2>2. /\ v = [f \in Fields |-> v[f]] /\ v["kind"] = "open" /\ v["late"] = FALSE
        /\ v["user"] = u /\ v["columns"] = c
        /\ v["revoked"] = {} /\ v["issued"] = I /\ v["dropped"] = {} /\ v["granted"] = <<>>
    BY <1>1, <2>1
  <2>3. v = Request(u, row, {}, I, {}, <<>>)
    BY <1>2, <2>2
  <2> QED BY <2>3 DEF v
<1>5. [w EXCEPT !.revoked = R] = Request(u, row, R, <<>>, {}, <<>>)
  <2> DEFINE v == [w EXCEPT !.revoked = R]
  <2>1. v = [f \in Fields |-> IF f = "revoked" THEN R ELSE w[f]]
    BY <1>1
  <2> HIDE DEF v
  <2>2. /\ v = [f \in Fields |-> v[f]] /\ v["kind"] = "open" /\ v["late"] = FALSE
        /\ v["user"] = u /\ v["columns"] = c
        /\ v["revoked"] = R /\ v["issued"] = <<>> /\ v["dropped"] = {} /\ v["granted"] = <<>>
    BY <1>1, <2>1
  <2>3. v = Request(u, row, R, <<>>, {}, <<>>)
    BY <1>2, <2>2
  <2> QED BY <2>3 DEF v
<1> QED BY <1>3, <1>4, <1>5 DEF w

\* set_user_role, added to a request.
LEMMA BuiltRole ==
    ASSUME NEW u, NEW row, NEW R, NEW r, NEW w, w = Request(u, row, R, <<>>, {}, <<>>)
    PROVE  WithRole(w, u, r) = Request(u, row, R, <<>>, LiveGrants(u),
                                       <<[user |-> u, role |-> r, live |-> TRUE]>>)
<1>1. PICK c, D, G : /\ c = Restrict(row, {x \in DOMAIN row : row[x] # accounts[u][x]})
                     /\ D = LiveGrants(u) /\ G = <<[user |-> u, role |-> r, live |-> TRUE]>>
  OBVIOUS
<1>2. w = [kind |-> "open", late |-> FALSE, user |-> u, columns |-> c, revoked |-> R,
           issued |-> <<>>, dropped |-> {}, granted |-> <<>>]
  BY <1>1 DEF Request
<1>3. PICK v : v = [w EXCEPT !.dropped = D, !.granted = G]
  OBVIOUS
<1> DEFINE Fields == {"kind", "late", "user", "columns", "revoked", "issued", "dropped", "granted"}
<1>4. DOMAIN w = Fields
  BY <1>2
<1>5. v = [f \in Fields |-> IF f = "granted" THEN G ELSE IF f = "dropped" THEN D ELSE w[f]]
  BY <1>3, <1>4
<1>6. v = [kind |-> "open", late |-> FALSE, user |-> u, columns |-> c, revoked |-> R,
           issued |-> <<>>, dropped |-> D, granted |-> G]
  <2>1. /\ w["kind"] = "open" /\ w["late"] = FALSE /\ w["user"] = u /\ w["columns"] = c
        /\ w["revoked"] = R /\ w["issued"] = <<>>
    BY <1>2
  <2>2. /\ v["kind"] = "open" /\ v["late"] = FALSE /\ v["user"] = u /\ v["columns"] = c
        /\ v["revoked"] = R /\ v["issued"] = <<>> /\ v["dropped"] = D /\ v["granted"] = G
    BY <1>5, <2>1
  <2>3. v = [f \in Fields |-> v[f]]
    BY <1>5
  <2>4. v = [kind |-> v["kind"], late |-> v["late"], user |-> v["user"],
             columns |-> v["columns"], revoked |-> v["revoked"], issued |-> v["issued"],
             dropped |-> v["dropped"], granted |-> v["granted"]]
    BY <2>3
  <2> QED BY <2>2, <2>4
<1>7. v = Request(u, row, R, <<>>, D, G)
  BY <1>1, <1>6 DEF Request
<1> QED BY <1>1, <1>3, <1>7 DEF WithRole

\* refresh ends one token and issues another.
LEMMA BuiltRefresh ==
    ASSUME NEW u, NEW row, NEW R, NEW I
    PROVE  [Writing(u, row) EXCEPT !.revoked = R, !.issued = I] = Request(u, row, R, I, {}, <<>>)
<1> DEFINE c == Restrict(row, {x \in DOMAIN row : row[x] # accounts[u][x]})
           w == Writing(u, row)
           Fields == {"kind", "late", "user", "columns", "revoked", "issued", "dropped", "granted"}
<1>1. /\ DOMAIN w = Fields /\ w = [f \in Fields |-> w[f]]
      /\ w["kind"] = "open" /\ w["late"] = FALSE /\ w["user"] = u /\ w["columns"] = c
      /\ w["revoked"] = {} /\ w["issued"] = <<>> /\ w["dropped"] = {} /\ w["granted"] = <<>>
  BY DEF Writing
<1>2. ASSUME NEW v, v = [f \in Fields |-> v[f]], v["kind"] = "open", v["late"] = FALSE,
             v["user"] = u, v["columns"] = c
      PROVE  v = Request(u, row, v["revoked"], v["issued"], v["dropped"], v["granted"])
  <2>1. v = [kind |-> v["kind"], late |-> v["late"], user |-> v["user"],
             columns |-> v["columns"], revoked |-> v["revoked"], issued |-> v["issued"],
             dropped |-> v["dropped"], granted |-> v["granted"]]
    BY <1>2
  <2> QED BY <1>2, <2>1 DEF Request
<1> HIDE DEF c, w
<1>6. [w EXCEPT !.revoked = R, !.issued = I] = Request(u, row, R, I, {}, <<>>)
  <2> DEFINE v == [w EXCEPT !.revoked = R, !.issued = I]
  <2>1. v = [f \in Fields |-> IF f = "issued" THEN I ELSE IF f = "revoked" THEN R ELSE w[f]]
    BY <1>1
  <2> HIDE DEF v
  <2>2. /\ v = [f \in Fields |-> v[f]] /\ v["kind"] = "open" /\ v["late"] = FALSE
        /\ v["user"] = u /\ v["columns"] = c
        /\ v["revoked"] = R /\ v["issued"] = I /\ v["dropped"] = {} /\ v["granted"] = <<>>
    BY <1>1, <2>1
  <2>3. v = Request(u, row, R, I, {}, <<>>)
    BY <1>2, <2>2
  <2> QED BY <2>3 DEF v
<1> QED BY <1>6 DEF w

\* A request begins, and what it writes is allowed.
LEMMA BeginWith ==
    ASSUME Typed, Calm, NEW d \in Desk, NEW u \in User, NEW row \in Row, NEW R, NEW D,
           NEW I, NoRow(I) \/ \E t \in Token : OneRow(I, t) /\ t.from \in 0 .. Len(tokens),
           NEW G, NoRow(G) \/ \E g \in Grant : OneRow(G, g),
           BeginAccess(d, Request(u, row, R, I, D, G)),
           ~ crossed => Allowed(u, row, R, I, D, G)
    PROVE  Typed' /\ Calm' /\ Remains
<1> DEFINE w == Request(u, row, R, I, D, G)
<1>0. /\ WorkOK(Request(u, row, R, I, D, G))
      /\ After(Request(u, row, R, I, D, G)) = row
      /\ ~ Request(u, row, R, I, D, G).late
  BY RequestOK, Zenon
<1>1. WorkOK(w) /\ After(w) = row
  BY <1>0
<1>2. /\ w.user = u /\ w.revoked = R /\ w.issued = I /\ w.dropped = D /\ w.granted = G
  BY DEF Request
<1>3. BeginAccess(d, w)
  OBVIOUS
<1> HIDE DEF w
<1>4. ~ crossed => Allowable(w)
  BY <1>1, <1>2 DEF Allowable
<1>5. Typed' /\ Calm'
  BY <1>1, <1>3, <1>4, BeginKeeps
<1>6. accounts' = accounts /\ grants' = grants
  BY <1>3 DEF BeginAccess, accessTables
<1>7. Remains
  BY <1>6 DEF Remains, ActiveSuperAdmins, RolesOf, LiveGrants
<1> QED BY <1>5, <1>7

\* The guard of the last super admin sees it.
LEMMA OnlyOne ==
    ASSUME NEW u \in User, ActiveSuperAdmins = {u}
    PROVE  LastSuperAdmin(u, {})
<1>1. "super_admin" \in RolesOf(u)
  BY DEF ActiveSuperAdmins
<1>2. ActiveSuperAdmins \ {} = {u}
  OBVIOUS
<1>3. Cardinality({u}) = 1
  BY FS_Singleton
<1> QED BY <1>1, <1>2, <1>3 DEF LastSuperAdmin

\* Only an active account has sessions.
LEMMA NoSession ==
    ASSUME Sound, NEW u \in User, accounts[u].status # "active"
    PROVE  LiveTokens(u) = {}
BY DEF Sound, LiveTokens

\* A column of a row is written.
LEMMA RowWith ==
    ASSUME Typed, NEW u \in User
    PROVE  /\ accounts[u] \in Row /\ Failure(accounts[u]) \in Row
           /\ [accounts[u] EXCEPT !.failed = 0, !.lockedUntil = Unlocked] \in Row
           /\ \A s \in {"active", "inactive", "deleted"} : [accounts[u] EXCEPT !.status = s] \in Row
           /\ \A p \in Password : /\ [accounts[u] EXCEPT !.password = p] \in Row
                                  /\ Account(accounts[u].status, p) \in Row
<1>1. accounts[u] \in Row /\ clock \in 0 .. LastTick
  BY DEF Typed
<1>2. MaxFail \in Nat \ {0} /\ LockTime \in Nat /\ LastTick \in Nat
  BY AccessAssumption
<1>7. /\ 0 \in 0 .. MaxFail - 1 /\ Unlocked \in Until
      /\ \A r \in Row, l \in Until : [r EXCEPT !.failed = 0, !.lockedUntil = l] \in Row
  <2>1. 0 \in 0 .. MaxFail - 1 /\ Unlocked \in Until
    BY <1>2 DEF Until
  <2>2. ASSUME NEW r \in Row, NEW l \in Until
        PROVE  [r EXCEPT !.failed = 0, !.lockedUntil = l] \in Row
    <3>1. [r EXCEPT !.failed = 0] \in Row
      BY <2>1 DEF Row
    <3>2. [[r EXCEPT !.failed = 0] EXCEPT !.lockedUntil = l] \in Row
      BY <3>1 DEF Row
    <3> QED BY <3>2
  <2> QED BY <2>1, <2>2
<1>3. Failure(accounts[u]) \in Row
  <2>1. accounts[u].failed \in 0 .. MaxFail - 1
    BY <1>1 DEF Row
  <2>2. clock + LockTime \in 0 .. LastTick + LockTime
    BY <1>1, <1>2
  <2>3. CASE accounts[u].failed + 1 >= MaxFail
    <3>1. [accounts[u] EXCEPT !.failed = 0, !.lockedUntil = clock + LockTime] \in Row
      BY <1>1, <1>7, <2>2 DEF Until
    <3> QED BY <2>3, <3>1 DEF Failure
  <2>4. CASE ~ (accounts[u].failed + 1 >= MaxFail)
    <3>1. accounts[u].failed + 1 \in 0 .. MaxFail - 1
      BY <1>2, <2>1, <2>4
    <3>2. [accounts[u] EXCEPT !.failed = @ + 1] \in Row
      BY <1>1, <3>1 DEF Row
    <3> QED BY <2>4, <3>2 DEF Failure
  <2> QED BY <2>3, <2>4
<1>4. [accounts[u] EXCEPT !.failed = 0, !.lockedUntil = Unlocked] \in Row
  BY <1>1, <1>7
<1>5. ASSUME NEW s \in {"active", "inactive", "deleted"}
      PROVE  [accounts[u] EXCEPT !.status = s] \in Row
  BY <1>1 DEF Row
<1>6. ASSUME NEW p \in Password
      PROVE  /\ [accounts[u] EXCEPT !.password = p] \in Row
             /\ Account(accounts[u].status, p) \in Row
  BY <1>1, <1>2 DEF Row, Account, Until
<1> QED BY <1>1, <1>3, <1>4, <1>5, <1>6

\* login and refresh.
LEMMA SessionsBegin ==
    ASSUME Typed, Calm, NEW d \in Desk,
           \/ \E u \in User : BeginLogin(d, u) \/ BeginWrongPassword(d, u)
           \/ \E n \in DOMAIN tokens : BeginRefresh(d, n)
    PROVE  Typed' /\ Calm' /\ Remains
<1>1. ASSUME NEW u \in User, BeginWrongPassword(d, u)
      PROVE  Typed' /\ Calm' /\ Remains
  <2> DEFINE row == Failure(accounts[u])
  <2>1. row \in Row /\ accounts[u] \in Row
    BY RowWith
  <2>2. row.status = accounts[u].status /\ row.password = accounts[u].password
    BY <2>1 DEF Failure, Row
  <2>3. BeginAccess(d, Request(u, row, {}, <<>>, {}, <<>>)) /\ Exists(u)
    BY <1>1, Built DEF BeginWrongPassword
  <2> HIDE DEF row
  <2>4. ~ crossed => Allowed(u, row, {}, <<>>, {}, <<>>)
    BY <2>2, <2>3, NoSession DEF Calm, Allowed, NoRow, OneRow, Exists, ActiveSuperAdmins
  <2> QED BY <2>1, <2>3, <2>4, BeginWith DEF NoRow
<1>2. ASSUME NEW u \in User, BeginLogin(d, u)
      PROVE  Typed' /\ Calm' /\ Remains
  <2> DEFINE row == [accounts[u] EXCEPT !.failed = 0, !.lockedUntil = Unlocked]
             t == [user |-> u, live |-> TRUE, from |-> 0, password |-> accounts[u].password]
  <2>1. row \in Row /\ accounts[u] \in Row
    BY RowWith
  <2>2. row.status = accounts[u].status /\ row.password = accounts[u].password
    BY <2>1 DEF Row
  <2>3. BeginAccess(d, Request(u, row, {}, <<t>>, {}, <<>>)) /\ accounts[u].status = "active"
    BY <1>2, Built DEF BeginLogin
  <2>4. t \in Token /\ t.user = u /\ t.from = 0 /\ t.password = accounts[u].password
    BY <2>1 DEF Token, Row
  <2> HIDE DEF row, t
  <2>5. ~ crossed => Allowed(u, row, {}, <<t>>, {}, <<>>)
    BY <2>2, <2>3, <2>4 DEF Allowed, NoRow, OneRow, Exists, ActiveSuperAdmins
  <2>6. OneRow(<<t>>, t) /\ t.from \in 0 .. Len(tokens)
    <3>1. Len(tokens) \in Nat
      BY LenProperties DEF Typed
    <3> QED BY <2>4, <3>1 DEF OneRow
  <2> QED BY <2>1, <2>3, <2>4, <2>5, <2>6, BeginWith DEF NoRow
<1>3. ASSUME NEW n \in DOMAIN tokens, BeginRefresh(d, n)
      PROVE  Typed' /\ Calm' /\ Remains
  <2> DEFINE u == tokens[n].user
             t == [tokens[n] EXCEPT !.from = n]
  <2>1. tokens[n] \in Token /\ n \in 1 .. Len(tokens) /\ Len(tokens) \in Nat
    BY LenProperties, ElementOfSeq DEF Typed
  <2>2. u \in User /\ accounts[u] \in Row
    BY <2>1 DEF Token, Typed
  <2>3. /\ BeginAccess(d, [Writing(u, accounts[u]) EXCEPT !.revoked = {n}, !.issued = <<t>>])
        /\ Exists(u) /\ tokens[n].live
    BY <1>3 DEF BeginRefresh
  <2>4. t \in Token /\ t.user = u /\ t.from = n /\ t.password = tokens[n].password
    BY <2>1 DEF Token
  <2>8. Sound => accounts[u].status = "active" /\ accounts[u].password = tokens[n].password
    BY <2>3 DEF Sound
  <2> HIDE DEF u, t
  <2>7. BeginAccess(d, Request(u, accounts[u], {n}, <<t>>, {}, <<>>))
    <3> DEFINE row == accounts[u]
               R == {n}
               I == <<t>>
    <3> HIDE DEF row, R, I
    <3>1. [Writing(u, row) EXCEPT !.revoked = R, !.issued = I] = Request(u, row, R, I, {}, <<>>)
      BY BuiltRefresh
    <3> QED BY <2>3, <3>1 DEF row, R, I
  <2>5. ASSUME ~ crossed
        PROVE  Allowed(u, accounts[u], {n}, <<t>>, {}, <<>>)
    <3>1. Sound
      BY <2>5 DEF Calm
    <3>2. accounts[u].status = "active" /\ accounts[u].password = tokens[n].password
      BY <2>8, <3>1
    <3>3. \A m \in DOMAIN tokens : tokens[m].from # n
      BY <2>3, <3>1 DEF Sound
    <3> QED BY <2>3, <2>4, <3>2, <3>3 DEF Allowed, NoRow, OneRow, Exists
  <2>6. OneRow(<<t>>, t) /\ t.from \in 0 .. Len(tokens)
    BY <2>1, <2>4 DEF OneRow
  <2> QED BY <2>2, <2>4, <2>5, <2>6, <2>7, BeginWith DEF NoRow
<1> QED BY <1>1, <1>2, <1>3

\* update_user, delete_user, passwords, unlock and set_enabled.
LEMMA AdministrationBegins ==
    ASSUME Typed, Calm, NEW d \in Desk, NEW u \in User,
           \/ BeginDeactivate(d, u) \/ BeginActivate(d, u) \/ BeginDelete(d, u)
           \/ BeginUnlock(d, u) \/ BeginDisable(d, u)
           \/ \E r \in Role : BeginSetRole(d, u, r) \/ BeginDeactivateWithRole(d, u, r)
           \/ \E p \in Password : BeginNewPassword(d, u, p) \/ BeginTemporaryPassword(d, u, p)
    PROVE  Typed' /\ Calm' /\ Remains
<1>1. /\ accounts[u] \in Row
      /\ \A s \in {"active", "inactive", "deleted"} :
            /\ [accounts[u] EXCEPT !.status = s] \in Row
            /\ [accounts[u] EXCEPT !.status = s].status = s
            /\ [accounts[u] EXCEPT !.status = s].password = accounts[u].password
  <2>1. accounts[u] \in Row
    BY RowWith
  <2>2. \A s \in {"active", "inactive", "deleted"} : [accounts[u] EXCEPT !.status = s] \in Row
    BY RowWith
  <2> QED BY <2>1, <2>2 DEF Row
<1>2. ~ LastSuperAdmin(u, {}) => ActiveSuperAdmins # {u}
  BY OnlyOne
<1>3. ~ crossed => Sound
  BY DEF Calm
<1>4. ASSUME NEW r \in Role
      PROVE  LET g == [user |-> u, role |-> r, live |-> TRUE]
             IN  g \in Grant /\ OneRow(<<g>>, g) /\ \A h \in Grant : OneRow(<<g>>, h) => h.role = r
  BY DEF Grant, OneRow
<1>5. ASSUME NEW s \in {"inactive", "deleted"}, BeginAccess(d, Deactivating(u, s)), Exists(u),
             ActiveSuperAdmins # {u} \/ (u \in TeacherUser /\ s = "inactive")
      PROVE  Typed' /\ Calm' /\ Remains
  <2> DEFINE row == [accounts[u] EXCEPT !.status = s]
  <2>1. BeginAccess(d, Request(u, row, LiveTokens(u), <<>>, {}, <<>>))
    BY <1>5, Built DEF Deactivating
  <2>2. row \in Row /\ row.status = s
    BY <1>1
  <2> HIDE DEF row
  <2>3. Allowed(u, row, LiveTokens(u), <<>>, {}, <<>>)
    BY <1>5, <2>2 DEF Allowed, NoRow, OneRow
  <2> QED BY <2>1, <2>2, <2>3, BeginWith DEF NoRow
<1>6. CASE BeginDeactivate(d, u) \/ BeginDelete(d, u) \/ BeginDisable(d, u)
  BY <1>2, <1>5, <1>6 DEF BeginDeactivate, BeginDelete, BeginDisable
<1>7. CASE BeginActivate(d, u)
  <2> DEFINE row == [accounts[u] EXCEPT !.status = "active"]
  <2>1. BeginAccess(d, Request(u, row, {}, <<>>, {}, <<>>)) /\ Exists(u)
    BY <1>7, Built DEF BeginActivate
  <2>2. row \in Row /\ row.status = "active" /\ row.password = accounts[u].password
    BY <1>1
  <2> HIDE DEF row
  <2>3. Allowed(u, row, {}, <<>>, {}, <<>>)
    BY <2>1, <2>2 DEF Allowed, NoRow, OneRow
  <2> QED BY <2>1, <2>2, <2>3, BeginWith DEF NoRow
<1>8. CASE BeginUnlock(d, u)
  <2> DEFINE row == [accounts[u] EXCEPT !.failed = 0, !.lockedUntil = Unlocked]
  <2>1. BeginAccess(d, Request(u, row, {}, <<>>, {}, <<>>)) /\ Exists(u)
    BY <1>8, Built DEF BeginUnlock
  <2>2. row \in Row
    BY RowWith
  <2>3. row.status = accounts[u].status /\ row.password = accounts[u].password
    BY <1>1 DEF Row
  <2> HIDE DEF row
  <2>4. ~ crossed => Allowed(u, row, {}, <<>>, {}, <<>>)
    BY <1>3, <2>1, <2>3, NoSession DEF Allowed, NoRow, OneRow, Exists, ActiveSuperAdmins
  <2> QED BY <2>1, <2>2, <2>4, BeginWith DEF NoRow
<1>9. ASSUME NEW r \in Role, BeginSetRole(d, u, r)
      PROVE  Typed' /\ Calm' /\ Remains
  <2> DEFINE g == [user |-> u, role |-> r, live |-> TRUE]
  <2>1. BeginAccess(d, Request(u, accounts[u], {}, <<>>, LiveGrants(u), <<g>>)) /\ Exists(u)
    <3>1. BeginAccess(d, WithRole(Writing(u, accounts[u]), u, r)) /\ Exists(u)
      BY <1>9 DEF BeginSetRole
    <3>2. Writing(u, accounts[u]) = Request(u, accounts[u], {}, <<>>, {}, <<>>)
      BY Built
    <3>3. WithRole(Writing(u, accounts[u]), u, r)
            = Request(u, accounts[u], {}, <<>>, LiveGrants(u), <<g>>)
      BY <3>2, BuiltRole
    <3> QED BY <3>1, <3>3
  <2>2. r # "super_admin" => ActiveSuperAdmins # {u}
    BY <1>2, <1>9 DEF BeginSetRole
  <2>3. g \in Grant /\ OneRow(<<g>>, g) /\ \A h \in Grant : OneRow(<<g>>, h) => h.role = r
    BY <1>4
  <2>4. ~ crossed => Allowed(u, accounts[u], {}, <<>>, LiveGrants(u), <<g>>)
    BY <1>3, <2>1, <2>2, <2>3, NoSession DEF Allowed, NoRow, OneRow, Exists, ActiveSuperAdmins
  <2> HIDE DEF g
  <2> QED BY <1>1, <2>1, <2>3, <2>4, BeginWith DEF NoRow
<1>10. ASSUME NEW r \in Role, BeginDeactivateWithRole(d, u, r)
       PROVE  Typed' /\ Calm' /\ Remains
  <2> DEFINE g == [user |-> u, role |-> r, live |-> TRUE]
             row == [accounts[u] EXCEPT !.status = "inactive"]
  <2>1. BeginAccess(d, Request(u, row, LiveTokens(u), <<>>, LiveGrants(u), <<g>>)) /\ Exists(u)
    <3>1. BeginAccess(d, WithRole(Deactivating(u, "inactive"), u, r)) /\ Exists(u)
      BY <1>10 DEF BeginDeactivateWithRole
    <3>2. Deactivating(u, "inactive") = Request(u, row, LiveTokens(u), <<>>, {}, <<>>)
      BY Built DEF Deactivating
    <3>3. WithRole(Deactivating(u, "inactive"), u, r)
            = Request(u, row, LiveTokens(u), <<>>, LiveGrants(u), <<g>>)
      BY <3>2, BuiltRole
    <3> QED BY <3>1, <3>3
  <2>2. ActiveSuperAdmins # {u}
    BY <1>2, <1>10 DEF BeginDeactivateWithRole
  <2>3. g \in Grant /\ OneRow(<<g>>, g)
    BY <1>4
  <2>4. row \in Row /\ row.status = "inactive"
    BY <1>1
  <2> HIDE DEF row
  <2>5. Allowed(u, row, LiveTokens(u), <<>>, LiveGrants(u), <<g>>)
    BY <2>1, <2>2, <2>3, <2>4 DEF Allowed, NoRow, OneRow
  <2> HIDE DEF g
  <2> QED BY <2>1, <2>3, <2>4, <2>5, BeginWith DEF NoRow
<1>11. ASSUME NEW row \in Row, Exists(u), row.status = accounts[u].status,
              BeginAccess(d, Request(u, row, LiveTokens(u), <<>>, {}, <<>>))
       PROVE  Typed' /\ Calm' /\ Remains
  <2>1. Allowed(u, row, LiveTokens(u), <<>>, {}, <<>>)
    BY <1>11 DEF Allowed, NoRow, OneRow, Exists, ActiveSuperAdmins
  <2> QED BY <1>11, <2>1, BeginWith DEF NoRow
<1>12. ASSUME NEW p \in Password, BeginNewPassword(d, u, p)
       PROVE  Typed' /\ Calm' /\ Remains
  <2> DEFINE row == [accounts[u] EXCEPT !.password = p]
  <2>1. BeginAccess(d, Request(u, row, LiveTokens(u), <<>>, {}, <<>>)) /\ Exists(u)
    BY <1>12, Built DEF BeginNewPassword
  <2>2. row \in Row
    BY RowWith
  <2>3. row.status = accounts[u].status
    BY <1>1 DEF Row
  <2> QED BY <1>11, <2>1, <2>2, <2>3
<1>13. ASSUME NEW p \in Password, BeginTemporaryPassword(d, u, p)
       PROVE  Typed' /\ Calm' /\ Remains
  <2> DEFINE row == Account(accounts[u].status, p)
  <2>1. BeginAccess(d, Request(u, row, LiveTokens(u), <<>>, {}, <<>>)) /\ Exists(u)
    BY <1>13, Built DEF BeginTemporaryPassword
  <2>2. row \in Row
    BY RowWith
  <2>3. row.status = accounts[u].status
    BY DEF Account
  <2> HIDE DEF row
  <2> QED BY <1>11, <2>1, <2>2, <2>3
<1> QED BY <1>6, <1>7, <1>8, <1>9, <1>10, <1>12, <1>13

-----------------------------------------------------------------------------
(* Steps of one transaction, and the start.                                 *)

\* A token stops being good.
LEMMA TokenEnds ==
    ASSUME Typed, NEW n \in DOMAIN tokens, tokens' = [tokens EXCEPT ![n].live = FALSE]
    PROVE  /\ tokens' \in Seq(Token) /\ DOMAIN tokens' = DOMAIN tokens
           /\ Len(tokens') = Len(tokens) /\ Len(tokens) \in Nat
           /\ \A m \in DOMAIN tokens :
                 /\ tokens'[m].user = tokens[m].user /\ tokens'[m].from = tokens[m].from
                 /\ tokens'[m].password = tokens[m].password
                 /\ tokens'[m].live => tokens[m].live
<1>1. /\ Len(tokens) \in Nat /\ DOMAIN tokens = 1 .. Len(tokens)
      /\ \A m \in DOMAIN tokens : tokens[m] \in Token
  BY LenProperties, ElementOfSeq DEF Typed
<1>2. ASSUME NEW m \in DOMAIN tokens
      PROVE  /\ tokens'[m] \in Token
             /\ tokens'[m].user = tokens[m].user /\ tokens'[m].from = tokens[m].from
             /\ tokens'[m].password = tokens[m].password
             /\ tokens'[m].live => tokens[m].live
  <2>1. tokens[m] \in Token /\ [tokens[m] EXCEPT !.live = FALSE] \in Token
    BY <1>1 DEF Token
  <2>2. tokens'[m] = IF m = n THEN [tokens[m] EXCEPT !.live = FALSE] ELSE tokens[m]
    BY <1>1
  <2> QED BY <2>1, <2>2 DEF Token
<1>3. tokens' = [m \in 1 .. Len(tokens) |-> tokens'[m]]
  BY <1>1
<1>4. tokens' \in Seq(Token)
  BY <1>1, <1>2, <1>3, SequenceOf
<1>5. DOMAIN tokens' = DOMAIN tokens
  BY <1>1, <1>3
<1>6. Len(tokens') = Len(tokens)
  BY <1>1, <1>4, <1>5, LenProperties
<1> QED BY <1>1, <1>2, <1>4, <1>5, <1>6

\* Nothing of that touches the accounts and their roles.
LEMMA TokenEndsSound ==
    ASSUME Typed, NEW n \in DOMAIN tokens, tokens' = [tokens EXCEPT ![n].live = FALSE],
           UNCHANGED <<accounts, grants>>
    PROVE  (Sound => Sound') /\ Remains
<1>1. accounts' = accounts /\ grants' = grants
  OBVIOUS
<1>2. /\ DOMAIN tokens' = DOMAIN tokens
      /\ \A m \in DOMAIN tokens :
            /\ tokens'[m].user = tokens[m].user /\ tokens'[m].from = tokens[m].from
            /\ tokens'[m].password = tokens[m].password
            /\ tokens'[m].live => tokens[m].live
  BY TokenEnds
<1>3. Sound => Sound'
  BY <1>1, <1>2 DEF Sound, Exists, LiveGrants
<1>4. Remains
  BY <1>1 DEF Remains, ActiveSuperAdmins, RolesOf, LiveGrants
<1> QED BY <1>3, <1>4

\* logout overtakes every request under way.
LEMMA LogoutKeeps ==
    ASSUME Typed, Calm, NEW n \in DOMAIN tokens, Logout(n)
    PROVE  Typed' /\ Calm' /\ Remains
<1>1. /\ tokens' = [tokens EXCEPT ![n].live = FALSE] /\ accounts' = accounts
      /\ grants' = grants /\ clock' = clock /\ crossed' = crossed /\ work' = Crossing
  BY DEF Logout
<1>2. /\ tokens' \in Seq(Token) /\ DOMAIN tokens' = DOMAIN tokens
      /\ Len(tokens') = Len(tokens) /\ Len(tokens) \in Nat
      /\ \A m \in DOMAIN tokens : tokens'[m].from = tokens[m].from
  BY <1>1, TokenEnds
<1>0. PICK done : done = {}
  OBVIOUS
<1>3. work' = [e \in Desk |-> IF e \in done \/ work[e] = NoWork THEN NoWork
                               ELSE [work[e] EXCEPT !.late = TRUE]]
  BY <1>0, <1>1 DEF Crossing
<1>4. /\ DOMAIN work' = Desk
      /\ \A e \in Desk : (work[e] = NoWork \/ WorkOK(work[e]))'
      /\ \A e \in Desk : work'[e] # NoWork => work'[e].late
  <2>1. Len(tokens') \in Nat /\ Len(tokens) <= Len(tokens')
    BY <1>2
  <2> QED BY <1>3, <2>1, CrossingKeeps
<1>5. (Sound => Sound') /\ Remains
  BY <1>1, TokenEndsSound
<1>6. Typed'
  BY <1>1, <1>2, <1>4 DEF Typed
<1>7. Calm'
  BY <1>1, <1>4, <1>5 DEF Calm
<1> QED BY <1>5, <1>6, <1>7

\* A token that expires overtakes nobody.
LEMMA ExpiryKeeps ==
    ASSUME Typed, Calm, NEW n \in DOMAIN tokens, TokenExpires(n)
    PROVE  Typed' /\ Calm' /\ Remains
<1>1. /\ tokens' = [tokens EXCEPT ![n].live = FALSE] /\ accounts' = accounts
      /\ grants' = grants /\ clock' = clock /\ crossed' = crossed /\ work' = work
  BY DEF TokenExpires
<1>2. /\ tokens' \in Seq(Token) /\ DOMAIN tokens' = DOMAIN tokens
      /\ Len(tokens') = Len(tokens)
      /\ \A m \in DOMAIN tokens :
            /\ tokens'[m].user = tokens[m].user /\ tokens'[m].from = tokens[m].from
            /\ tokens'[m].live => tokens[m].live
  BY <1>1, TokenEnds
<1>3. (Sound => Sound') /\ Remains
  BY <1>1, TokenEndsSound
<1>4. Typed'
  <2>1. \A e \in Desk : work'[e] = NoWork \/ (WorkOK(work[e]))'
    BY <1>1, <1>2 DEF Typed, WorkOK
  <2>2. \A m \in DOMAIN tokens' : tokens'[m].from \in 0 .. m - 1
    BY <1>2 DEF Typed
  <2> QED BY <1>1, <1>2, <2>1, <2>2 DEF Typed
<1>5. ASSUME ~ crossed, NEW e \in Desk, work[e] # NoWork, ~ work[e].late
      PROVE  Allowable(work[e])'
  <2>1. Allowable(work[e])
    BY <1>5 DEF Calm
  <2>2. \A u : LiveTokens(u)' \subseteq LiveTokens(u)
    BY <1>2 DEF LiveTokens
  <2>3. \A f : (\A m \in DOMAIN tokens : tokens[m].from # f)
                    => \A m \in DOMAIN tokens' : tokens'[m].from # f
    BY <1>2
  <2>4. ActiveSuperAdmins' = ActiveSuperAdmins
    BY <1>1 DEF ActiveSuperAdmins, RolesOf, LiveGrants
  <2>5. \A u : LiveGrants(u)' = LiveGrants(u) /\ (Exists(u))' = Exists(u)
    BY <1>1 DEF LiveGrants, Exists
  <2> QED BY <1>1, <2>1, <2>2, <2>3, <2>4, <2>5 DEF Allowable, Allowed, After
<1>6. Calm'
  BY <1>1, <1>3, <1>5 DEF Calm
<1> QED BY <1>3, <1>4, <1>6

\* create_user overtakes every request under way.
LEMMA CreationKeeps ==
    ASSUME Typed, Calm, NEW u \in User, NEW r \in Role, NEW p \in Password, CreateUser(u, r, p)
    PROVE  Typed' /\ Calm' /\ Remains
<1> DEFINE row == Account("active", p)
           g == [user |-> u, role |-> r, live |-> TRUE]
<1>1. /\ accounts[u].status = "absent" /\ accounts' = [accounts EXCEPT ![u] = row]
      /\ grants' = Append(grants, g) /\ tokens' = tokens
      /\ clock' = clock /\ crossed' = crossed /\ work' = Crossing
  BY DEF CreateUser
<1>2. /\ row \in Row /\ row.status = "active" /\ g \in Grant
      /\ g.user = u /\ g.live /\ g.role = r
  BY AccessAssumption DEF Account, Row, Until, Grant
<1> HIDE DEF row, g
<1>3. /\ accounts' \in [User -> Row] /\ accounts'[u] = row
      /\ \A v \in User \ {u} : accounts'[v] = accounts[v]
  BY <1>1, <1>2 DEF Typed
<1>4. /\ Len(grants) \in Nat /\ DOMAIN grants = 1 .. Len(grants)
      /\ \A n \in DOMAIN grants : grants[n] \in Grant
  BY LenProperties, ElementOfSeq DEF Typed
<1>5. /\ grants' \in Seq(Grant) /\ DOMAIN grants' = 1 .. Len(grants) + 1
      /\ grants'[Len(grants) + 1] = g
      /\ \A n \in DOMAIN grants : grants'[n] = grants[n]
  BY <1>1, <1>2, <1>4, AppendProperties DEF Typed
<1>6. PICK new : new = Len(grants) + 1
  OBVIOUS
<1>7. /\ new \notin DOMAIN grants /\ DOMAIN grants' = (DOMAIN grants) \cup {new}
      /\ grants'[new] = g
  BY <1>4, <1>5, <1>6
<1>0. PICK done : done = {}
  OBVIOUS
<1>8. work' = [e \in Desk |-> IF e \in done \/ work[e] = NoWork THEN NoWork
                               ELSE [work[e] EXCEPT !.late = TRUE]]
  BY <1>0, <1>1 DEF Crossing
<1>9. Len(tokens') \in Nat /\ Len(tokens) <= Len(tokens')
  <2>1. Len(tokens) \in Nat
    BY LenProperties DEF Typed
  <2> QED BY <1>1, <2>1
<1>10. /\ DOMAIN work' = Desk
       /\ \A e \in Desk : (work[e] = NoWork \/ WorkOK(work[e]))'
       /\ \A e \in Desk : work'[e] # NoWork => work'[e].late
  BY <1>8, <1>9, CrossingKeeps
<1>11. Typed'
  BY <1>1, <1>3, <1>5, <1>10 DEF Typed
<1>12. \A v \in User \ {u} : LiveGrants(v)' = LiveGrants(v) /\ RolesOf(v)' = RolesOf(v)
  <2> SUFFICES ASSUME NEW v \in User \ {u}
               PROVE  LiveGrants(v)' = LiveGrants(v) /\ RolesOf(v)' = RolesOf(v)
    OBVIOUS
  <2>1. LiveGrants(v)' = LiveGrants(v)
    BY <1>2, <1>5, <1>7 DEF LiveGrants
  <2>2. \A n \in LiveGrants(v) : grants'[n].role = grants[n].role
    BY <1>5 DEF LiveGrants
  <2> QED BY <2>1, <2>2 DEF RolesOf
<1>13. ASSUME Sound
       PROVE  Sound'
  <2>1. LiveGrants(u) = {}
    BY <1>1, <1>13 DEF Sound
  <2>2. LiveGrants(u)' = {new}
    BY <1>2, <1>5, <1>7, <2>1 DEF LiveGrants
  <2>3. \A n \in DOMAIN tokens : tokens[n].live => tokens[n].user \in User \ {u}
    <3>1. \A n \in DOMAIN tokens : tokens[n].user \in User
      <4>1. tokens \in Seq(Token) /\ DOMAIN tokens = 1 .. Len(tokens)
        BY LenProperties DEF Typed
      <4>2. \A n \in DOMAIN tokens : tokens[n] \in Token
        BY <4>1, ElementOfSeq
      <4> QED BY <4>2 DEF Token
    <3> QED BY <1>1, <1>13, <3>1 DEF Sound
  <2>4. \A v \in User : IF accounts'[v].status = "absent" THEN LiveGrants(v)' = {}
                        ELSE Exists(v)' => \E n \in DOMAIN grants' : LiveGrants(v)' = {n}
    <3>1. ASSUME NEW v \in User, v # u
          PROVE  IF accounts'[v].status = "absent" THEN LiveGrants(v)' = {}
                 ELSE Exists(v)' => \E n \in DOMAIN grants' : LiveGrants(v)' = {n}
      BY <1>3, <1>7, <1>12, <1>13, <3>1 DEF Sound, Exists
    <3>2. accounts'[u].status # "absent" /\ \E n \in DOMAIN grants' : LiveGrants(u)' = {n}
      BY <1>2, <1>3, <1>7, <2>2
    <3> QED BY <3>1, <3>2
  <2>5. \A n \in DOMAIN tokens' :
            tokens'[n].live => /\ accounts'[tokens'[n].user].status = "active"
                               /\ accounts'[tokens'[n].user].password = tokens'[n].password
    BY <1>1, <1>3, <1>13, <2>3 DEF Sound
  <2> QED BY <1>1, <1>13, <2>4, <2>5 DEF Sound
<1>14. Calm'
  BY <1>1, <1>10, <1>13 DEF Calm
<1>15. Remains
  <2> SUFFICES ASSUME NEW a \in ActiveSuperAdmins
               PROVE  ActiveSuperAdmins' # {}
    BY DEF Remains
  <2>1. a \in User \ {u}
    BY <1>1 DEF ActiveSuperAdmins
  <2>2. a \in ActiveSuperAdmins'
    BY <1>3, <1>12, <2>1 DEF ActiveSuperAdmins
  <2> QED BY <2>2
<1> QED BY <1>11, <1>14, <1>15

\* The founders: each has one grant.
LEMMA Begins ==
    ASSUME AccessInit
    PROVE  Typed /\ Calm
<1> DEFINE N == Cardinality(Founder)
           f == SetToSeq(Founder)
<1>1. N \in Nat /\ f \in Injection(1 .. N, Founder) /\ f \in Surjection(1 .. N, Founder)
  <2>1. IsFiniteSet(Founder)
    BY AccessAssumption, FS_Subset
  <2>2. N \in Nat /\ ExistsBijection(1 .. N, Founder)
    BY <2>1, FS_CardinalityType
  <2>3. \E g \in [1 .. N -> Founder] : IsInjective(g)
    BY <2>2 DEF ExistsBijection, Bijection, Injection
  <2>4. f \in [1 .. N -> Founder] /\ IsInjective(f)
    BY <2>3 DEF SetToSeq
  <2>5. f \in Injection(1 .. N, Founder)
    BY <2>4 DEF Injection
  <2>6. Cardinality(1 .. N) = N
    BY <2>2, FS_Interval
  <2>7. f \in Surjection(1 .. N, Founder)
    BY <2>1, <2>5, <2>6, FS_Injection
  <2> QED BY <2>2, <2>5, <2>7
<1>2. /\ f \in [1 .. N -> Founder]
      /\ \A m, n \in 1 .. N : f[m] = f[n] => m = n
      /\ \A u \in Founder : \E n \in 1 .. N : f[n] = u
  BY <1>1 DEF Injection, IsInjective, Surjection
<1>3. PICK p \in Password :
          /\ accounts = [u \in User |-> Account(IF u \in Founder THEN "active" ELSE "absent", p)]
          /\ grants = [n \in 1 .. N |-> [user |-> f[n], role |-> "super_admin", live |-> TRUE]]
          /\ tokens = <<>> /\ work = [d \in Desk |-> NoWork] /\ clock = 0 /\ crossed = FALSE
  BY DEF AccessInit
<1>4. N \in Nat
  BY <1>1
<1> HIDE DEF N, f
<1>5. accounts \in [User -> Row]
  BY <1>3, AccessAssumption DEF Account, Row, Until
<1>6. grants \in Seq(Grant) /\ DOMAIN grants = 1 .. N
  <2>1. \A n \in 1 .. N : grants[n] \in Grant
    BY <1>2, <1>3, AccessAssumption DEF Grant
  <2>2. grants = [n \in 1 .. N |-> grants[n]]
    BY <1>3
  <2> QED BY <1>4, <2>1, <2>2, SequenceOf
<1>7. tokens \in Seq(Token) /\ DOMAIN tokens = {}
  BY <1>3
<1>8. Typed
  <2>1. DOMAIN work = Desk /\ \A d \in Desk : work[d] = NoWork
    BY <1>3
  <2>2. clock \in 0 .. LastTick
    <3>1. clock = 0 /\ LastTick \in Nat
      BY <1>3, AccessAssumption
    <3> QED BY <3>1
  <2>5. crossed \in BOOLEAN
    BY <1>3
  <2>3. \A n \in DOMAIN tokens : tokens[n].from \in 0 .. n - 1
    BY <1>7
  <2>4. \A d \in Desk : work[d] = NoWork \/ WorkOK(work[d])
    BY <2>1
  <2> QED BY <1>5, <1>6, <1>7, <2>1, <2>2, <2>3, <2>4, <2>5 DEF Typed
<1>9. ASSUME NEW u \in User
      PROVE  IF accounts[u].status = "absent" THEN LiveGrants(u) = {}
             ELSE Exists(u) => \E n \in DOMAIN grants : LiveGrants(u) = {n}
  <2>1. LiveGrants(u) = {n \in 1 .. N : f[n] = u}
    BY <1>3, <1>6 DEF LiveGrants
  <2>2. accounts[u].status = IF u \in Founder THEN "active" ELSE "absent"
    BY <1>3 DEF Account
  <2>3. CASE u \in Founder
    <3>1. PICK n \in 1 .. N : f[n] = u
      BY <1>2, <2>3
    <3>2. LiveGrants(u) = {n}
      BY <1>2, <2>1, <3>1
    <3> QED BY <1>6, <2>2, <2>3, <3>2
  <2>4. CASE u \notin Founder
    BY <1>2, <2>1, <2>2, <2>4
  <2> QED BY <2>3, <2>4
<1>10. Sound
  BY <1>7, <1>9 DEF Sound
<1>11. Calm
  BY <1>3, <1>10 DEF Calm
<1> QED BY <1>8, <1>11

\* Every step.
LEMMA StepKeeps ==
    ASSUME Typed, Calm, [AccessNext]_accessVars
    PROVE  Typed' /\ Calm' /\ (~ crossed' => Remains)
<1>1. ASSUME NEW d \in Desk, NEW n \in DOMAIN tokens, BeginRefresh(d, n)
      PROVE  Typed' /\ Calm' /\ Remains
  BY <1>1, SessionsBegin
<1>2. ASSUME NEW d \in Desk, NEW u \in User, BeginLogin(d, u) \/ BeginWrongPassword(d, u)
      PROVE  Typed' /\ Calm' /\ Remains
  BY <1>2, SessionsBegin
<1>3. ASSUME NEW d \in Desk, NEW u \in User,
             \/ BeginDeactivate(d, u) \/ BeginActivate(d, u) \/ BeginDelete(d, u)
             \/ BeginUnlock(d, u) \/ BeginDisable(d, u)
             \/ \E r \in Role : BeginSetRole(d, u, r) \/ BeginDeactivateWithRole(d, u, r)
             \/ \E p \in Password : BeginNewPassword(d, u, p) \/ BeginTemporaryPassword(d, u, p)
      PROVE  Typed' /\ Calm' /\ Remains
  BY <1>3, AdministrationBegins
<1>4. ASSUME NEW d \in Desk, CommitAccess(d)
      PROVE  Typed' /\ Calm' /\ (~ crossed' => Remains)
  BY <1>4, CommitSound
<1>5. ASSUME NEW d \in Desk, AbortAccess(d)
      PROVE  Typed' /\ Calm' /\ Remains
  <2>1. accounts' = accounts /\ grants' = grants
    BY <1>5 DEF AbortAccess, accessTables
  <2>2. Remains
    BY <2>1 DEF Remains, ActiveSuperAdmins, RolesOf, LiveGrants
  <2> QED BY <1>5, <2>2, AbortKeeps
<1>6. ASSUME NEW u \in User, NEW r \in Role, NEW p \in Password, CreateUser(u, r, p)
      PROVE  Typed' /\ Calm' /\ Remains
  BY <1>6, CreationKeeps
<1>7. ASSUME NEW n \in DOMAIN tokens, Logout(n) \/ TokenExpires(n)
      PROVE  Typed' /\ Calm' /\ Remains
  BY <1>7, LogoutKeeps, ExpiryKeeps
<1>8. CASE ClockTicks \/ UNCHANGED accessVars
  <2>1. /\ accounts' = accounts /\ grants' = grants /\ tokens' = tokens /\ work' = work
        /\ crossed' = crossed /\ clock' \in 0 .. LastTick
    BY <1>8, AccessAssumption DEF ClockTicks, accessVars, accessTables, Typed
  <2>2. Remains
    BY <2>1 DEF Remains, ActiveSuperAdmins, RolesOf, LiveGrants
  <2>3. Typed'
    BY <2>1 DEF Typed, WorkOK
  <2>4. Calm'
    BY <2>1 DEF Calm, Sound, Allowable, Allowed, After, Exists, LiveTokens, LiveGrants,
                ActiveSuperAdmins, RolesOf
  <2> QED BY <2>2, <2>3, <2>4
<1> QED BY <1>1, <1>2, <1>3, <1>4, <1>5, <1>6, <1>7, <1>8 DEF AccessNext

\* The inductive invariant of the module.
LEMMA Invariance == AccessSpec => [](Typed /\ Calm)
<1>1. AccessInit => Typed /\ Calm
  BY Begins
<1>2. Typed /\ Calm /\ [AccessNext]_accessVars => (Typed /\ Calm)'
  BY StepKeeps
<1> QED BY <1>1, <1>2, PTL DEF AccessSpec

-----------------------------------------------------------------------------
(* The theorems.                                                            *)

\* For any number of accounts and requests the tables keep their shape: under
\* overlapping failures the count of an account stays below lockout_attempts.
THEOREM TablesTyped == AccessSpec => []AccessTypeOK
<1>1. Typed => AccessTypeOK
  <2> SUFFICES ASSUME Typed
               PROVE  AccessTypeOK
    OBVIOUS
  <2>1. /\ \A n \in DOMAIN grants : grants[n] \in Grant
        /\ \A n \in DOMAIN tokens : tokens[n] \in Token
    BY LenProperties, ElementOfSeq DEF Typed
  <2> QED BY <2>1 DEF Typed, AccessTypeOK, Row, Until, Grant, Token
<1> QED BY <1>1, Invariance, PTL

\* As long as nobody commits what another has overtaken: the sessions of an
\* account end with it and with its password, a refresh token is traded once, and
\* a role set is the sole role (auth_service.py, user_service.py).
THEOREM SessionsAndRoles == AccessSpec => []AccountsSound
<1>1. Typed /\ Calm => AccountsSound
  <2> SUFFICES ASSUME Typed, Calm, ~ crossed
               PROVE  SessionsEndWithAccount /\ TokenSpentOnce /\ SoleRole
    BY DEF AccountsSound, SessionsEndWithAccount, TokenSpentOnce, SoleRole
  <2>1. Sound
    BY DEF Calm
  <2>2. \A u \in User : Exists(u) => Cardinality(LiveGrants(u)) = 1
    BY <2>1, FS_Singleton DEF Sound, Exists
  <2> QED BY <2>1, <2>2 DEF Sound, SessionsEndWithAccount, TokenSpentOnce, SoleRole
<1> QED BY <1>1, Invariance, PTL

\* _guard_not_last_super_admin holds what it says for any number of accounts: the
\* last active super admin goes only when requests crossed or set_enabled, which
\* counts no one, switches off a teacher account (admin_service.py).
THEOREM LastOneStays == AccessSpec => SuperAdminRemains
<1>1. /\ Typed /\ Calm /\ [AccessNext]_accessVars
      => [(ActiveSuperAdmins # {} /\ ~ crossed')
             => \/ ActiveSuperAdmins' # {}
                \/ \E u \in TeacherUser : accounts[u].status = "active"
                                         /\ accounts'[u].status = "inactive"]_accessVars
  BY StepKeeps DEF Remains
<1> QED BY <1>1, Invariance, PTL DEF AccessSpec, SuperAdminRemains
=============================================================================
