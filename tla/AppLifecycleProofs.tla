------------------------- MODULE AppLifecycleProofs -------------------------
(***************************************************************************)
(* The properties of AppLifecycle for any number of settings, firmware     *)
(* versions and power-ups.                                                 *)
(***************************************************************************)
EXTENDS AppLifecycle, TLAPS

(* The steps at which setup() still works or has done its work, from each  *)
(* point on.                                                               *)
WorkPlaces   == {"started", "wifi", "server", "listener", "ui", "loop"}
MountedOn    == WorkPlaces \cup {"probe", "task"}
ChatOn       == MountedOn \cup {"mount"}
ReadyOn      == ChatOn \cup {"chat"}
TransportOn  == ReadyOn \cup {"begin"}
RadioSetOn   == TransportOn \cup {"transport"}
ConfigOn     == RadioSetOn \cup {"setConfig"}

(* What is in flash under kKeyConfigured is whole, and a save that runs    *)
(* has written the first settings of what it saves: so it is whole when it *)
(* is marked, whatever an earlier one left there.                          *)
FlashInv ==
  /\ configured => Whole(nvs)
  /\ at \in {"off", "create", "load"} => saved = 0
  /\ at = "save" => /\ ~configured
                    /\ config = Defaults(firmware)
                    /\ \A k \in Keys : k <= saved => nvs[k] = config[k]
  /\ at \in ConfigOn => Whole(config)
  /\ at \in RadioSetOn => radioCfg = config
  /\ at \in ReadyOn /\ role = "Gateway" => chip = config
  /\ InUse => at \in WorkPlaces

(* What exists at each step. *)
StartInv ==
  /\ at \in RadioSetOn \cup {"load", "save", "setConfig"} => "radio" \in alive
  /\ at \in TransportOn => {"transport", "inbound"} \subseteq alive
  /\ at \in ReadyOn => ready
  /\ at \in ChatOn => {"store", "chat"} \subseteq alive
  /\ at \in MountedOn => mounted
  /\ at = "failed" => alive = {}
  /\ InUse => at \in WorkPlaces

-----------------------------------------------------------------------------
(* The defaults of a version are whole.                                    *)
LEMMA WholeDefaults ==
  ASSUME NEW v \in Versions
  PROVE  Whole(Defaults(v)) /\ Defaults(v) \in Settings
BY DEF Whole, Defaults, Settings

(* Type correctness. *)
LEMMA TypeStep ==
  ASSUME TypeOK, [Next]_vars
  PROVE  TypeOK'
<1> USE LifecycleAssumption DEF TypeOK
<1>1. CASE PowerLoss
  <2>1. Unset \in Settings
    BY DEF Unset, Settings
  <2>2. chip' \in Settings
    BY <1>1, <2>1 DEF PowerLoss
  <2>3. 0 \in 0..KeyCount /\ "off" \in Places /\ {} \subseteq Objects
    BY DEF Places
  <2> QED
    BY <1>1, <2>1, <2>2, <2>3 DEF PowerLoss, flash
<1>2. CASE PowerUp
  BY <1>2 DEF PowerUp, Places, flash, driver, users, Keys, Unset, Settings, Objects
<1>3. CASE Create
  BY <1>3 DEF Create, Places, flash, driver, users, Keys, Unset, Settings, Objects, Defaults, Loaded
<1>4. CASE Load
  BY <1>4 DEF Load, Places, flash, driver, users, Keys, Unset, Settings, Objects, Defaults, Loaded
<1>5. CASE SaveKey
  BY <1>5 DEF SaveKey, Places, flash, driver, users, Keys, Unset, Settings, Objects
<1>6. CASE SaveConfigured
  BY <1>6 DEF SaveConfigured, Places, flash, driver, users, Keys, Unset, Settings, Objects
<1>7. CASE SaveRefused
  BY <1>7 DEF SaveRefused, Places, flash, driver, users, Keys, Unset, Settings, Objects
<1>8. CASE SetConfig
  BY <1>8 DEF SetConfig, Places, flash, driver, users, Keys, Unset, Settings, Objects
<1>9. CASE MakeTransport
  BY <1>9 DEF MakeTransport, Places, flash, driver, users, Keys, Unset, Settings, Objects
<1>10. CASE TransportBegin
  BY <1>10 DEF TransportBegin, Places, flash, driver, users, Keys, Unset, Settings, Objects
<1>11. CASE TransportFails
  BY <1>11 DEF TransportFails, Places, flash, driver, users, Keys, Unset, Settings, Objects
<1>12. CASE MakeChat
  BY <1>12 DEF MakeChat, Places, flash, driver, users, Keys, Unset, Settings, Objects
<1>13. CASE ChatBegin
  BY <1>13 DEF ChatBegin, Places, flash, driver, users, Keys, Unset, Settings, Objects
<1>14. CASE ChatFails
  BY <1>14 DEF ChatFails, Places, flash, driver, users, Keys, Unset, Settings, Objects
<1>15. CASE MakeProbe
  BY <1>15 DEF MakeProbe, Places, flash, driver, users, Keys, Unset, Settings, Objects
<1>16. CASE CreateTask
  BY <1>16 DEF CreateTask, Places, flash, driver, users, Keys, Unset, Settings, Objects
<1>17. CASE Started
  BY <1>17 DEF Started, Places, flash, driver, users, Keys, Unset, Settings, Objects
<1>18. CASE Stopped
  BY <1>18 DEF Stopped, Places, flash, driver, users, Keys, Unset, Settings, Objects
<1>19. CASE WifiBegin
  BY <1>19 DEF WifiBegin, Places, flash, driver, users, Keys, Unset, Settings, Objects
<1>20. CASE ServerBegin
  BY <1>20 DEF ServerBegin, Places, flash, driver, users, Keys, Unset, Settings, Objects
<1>21. CASE SetMessageListener
  BY <1>21 DEF SetMessageListener, Places, flash, driver, users, Keys, Unset, Settings, Objects
<1>22. CASE UiBegin
  BY <1>22 DEF UiBegin, Places, flash, driver, users, Keys, Unset, Settings, Objects
<1>23. CASE \E object \in Objects : Release(object)
  BY <1>23 DEF Release, Places, flash, users, Objects, Settings, Keys
<1>24. CASE UNCHANGED vars
  BY <1>24 DEF vars, flash, driver, users
<1> QED
  BY <1>1, <1>2, <1>3, <1>4, <1>5, <1>6, <1>7, <1>8, <1>9, <1>10, <1>11, <1>12, <1>13, <1>14, <1>15, <1>16, <1>17, <1>18, <1>19, <1>20, <1>21, <1>22, <1>23, <1>24
  DEF Next, ConfigStep, StartStep, StopStep, RoleStep

(* A boot that loads finds whole settings; a save completes what it began. *)
LEMMA FlashStep ==
  ASSUME TypeOK, FlashInv, [Next]_vars
  PROVE  FlashInv'
<1> USE DEF FlashInv
<1>1. CASE PowerLoss
  BY <1>1 DEF PowerLoss, flash, driver, users, InUse,
       WorkPlaces, MountedOn, ChatOn, ReadyOn, TransportOn, RadioSetOn, ConfigOn
<1>2. CASE PowerUp
  BY <1>2 DEF PowerUp, flash, driver, users, InUse,
       WorkPlaces, MountedOn, ChatOn, ReadyOn, TransportOn, RadioSetOn, ConfigOn
<1>3. CASE Create
  BY <1>3 DEF Create, flash, driver, users, InUse,
       WorkPlaces, MountedOn, ChatOn, ReadyOn, TransportOn, RadioSetOn, ConfigOn
<1>4. CASE Load
  <2>1. CASE configured
    <3>1. nvs \in [Keys -> Versions] /\ Whole(nvs)
      BY <2>1 DEF TypeOK, Whole, Defaults
    <3>2. Loaded = nvs
      BY <3>1, LifecycleAssumption DEF Loaded
    <3> QED
      BY <1>4, <2>1, <3>1, <3>2 DEF Load, flash, driver, users, InUse,
      WorkPlaces, MountedOn, ChatOn, ReadyOn, TransportOn, RadioSetOn, ConfigOn
  <2>2. CASE ~configured
    <3>1. \A k \in Keys : ~(k <= 0)
      BY DEF Keys
    <3>2. at' = "save" /\ config' = Defaults(firmware') /\ saved' = 0
      BY <1>4, <2>2 DEF Load
    <3>3. ~InUse'
      BY <1>4 DEF Load, users, InUse, WorkPlaces
    <3> QED
      BY <3>1, <3>2, <3>3, <1>4, <2>2 DEF Load, flash, driver, users, InUse,
      WorkPlaces, MountedOn, ChatOn, ReadyOn, TransportOn, RadioSetOn, ConfigOn
  <2> QED
    BY <2>1, <2>2
<1>5. CASE SaveKey
  <2>1. ~configured' /\ config' = Defaults(firmware') /\ at' = "save" /\ ~InUse'
    BY <1>5 DEF SaveKey, users, InUse, WorkPlaces
  <2>2. ASSUME NEW k \in Keys, k <= saved'
        PROVE  nvs'[k] = config'[k]
    BY <1>5, <2>2 DEF SaveKey, TypeOK, Settings, Keys
  <2> QED
    BY <2>1, <2>2 DEF WorkPlaces, MountedOn, ChatOn, ReadyOn, TransportOn,
      RadioSetOn, ConfigOn
<1>6. CASE SaveConfigured
  <2>1. nvs = config /\ Whole(config)
    <3>1. \A k \in Keys : nvs[k] = config[k]
      BY <1>6 DEF SaveConfigured, Keys
    <3>2. nvs = [k \in Keys |-> nvs[k]] /\ config = [k \in Keys |-> config[k]]
      BY DEF TypeOK, Settings
    <3>3. nvs = config
      BY <3>1, <3>2
    <3> QED
      BY <1>6, <3>3, WholeDefaults DEF SaveConfigured, TypeOK
  <2> QED
    BY <1>6, <2>1 DEF SaveConfigured, driver, users, InUse, Whole,
      WorkPlaces, MountedOn, ChatOn, ReadyOn, TransportOn, RadioSetOn, ConfigOn
<1>7. CASE SaveRefused
  <2>1. Whole(config)
    BY <1>7, WholeDefaults DEF SaveRefused, TypeOK
  <2> QED
    BY <1>7, <2>1 DEF SaveRefused, flash, driver, users, InUse, Whole,
      WorkPlaces, MountedOn, ChatOn, ReadyOn, TransportOn, RadioSetOn, ConfigOn
<1>8. CASE SetConfig
  BY <1>8 DEF SetConfig, flash, driver, users, InUse,
       WorkPlaces, MountedOn, ChatOn, ReadyOn, TransportOn, RadioSetOn, ConfigOn
<1>9. CASE MakeTransport
  BY <1>9 DEF MakeTransport, flash, driver, users, InUse,
       WorkPlaces, MountedOn, ChatOn, ReadyOn, TransportOn, RadioSetOn, ConfigOn
<1>10. CASE TransportBegin
  BY <1>10 DEF TransportBegin, flash, driver, users, InUse,
       WorkPlaces, MountedOn, ChatOn, ReadyOn, TransportOn, RadioSetOn, ConfigOn
<1>11. CASE TransportFails
  BY <1>11 DEF TransportFails, flash, driver, users, InUse,
       WorkPlaces, MountedOn, ChatOn, ReadyOn, TransportOn, RadioSetOn, ConfigOn
<1>12. CASE MakeChat
  BY <1>12 DEF MakeChat, flash, driver, users, InUse,
       WorkPlaces, MountedOn, ChatOn, ReadyOn, TransportOn, RadioSetOn, ConfigOn
<1>13. CASE ChatBegin
  BY <1>13 DEF ChatBegin, flash, driver, users, InUse,
       WorkPlaces, MountedOn, ChatOn, ReadyOn, TransportOn, RadioSetOn, ConfigOn
<1>14. CASE ChatFails
  BY <1>14 DEF ChatFails, flash, driver, users, InUse,
       WorkPlaces, MountedOn, ChatOn, ReadyOn, TransportOn, RadioSetOn, ConfigOn
<1>15. CASE MakeProbe
  BY <1>15 DEF MakeProbe, flash, driver, users, InUse,
       WorkPlaces, MountedOn, ChatOn, ReadyOn, TransportOn, RadioSetOn, ConfigOn
<1>16. CASE CreateTask
  BY <1>16 DEF CreateTask, flash, driver, users, InUse,
       WorkPlaces, MountedOn, ChatOn, ReadyOn, TransportOn, RadioSetOn, ConfigOn
<1>17. CASE Started
  BY <1>17 DEF Started, flash, driver, users, InUse,
       WorkPlaces, MountedOn, ChatOn, ReadyOn, TransportOn, RadioSetOn, ConfigOn
<1>18. CASE Stopped
  BY <1>18 DEF Stopped, flash, driver, users, InUse,
       WorkPlaces, MountedOn, ChatOn, ReadyOn, TransportOn, RadioSetOn, ConfigOn
<1>19. CASE WifiBegin
  BY <1>19 DEF WifiBegin, flash, driver, users, InUse,
       WorkPlaces, MountedOn, ChatOn, ReadyOn, TransportOn, RadioSetOn, ConfigOn
<1>20. CASE ServerBegin
  BY <1>20 DEF ServerBegin, flash, driver, users, InUse,
       WorkPlaces, MountedOn, ChatOn, ReadyOn, TransportOn, RadioSetOn, ConfigOn
<1>21. CASE SetMessageListener
  BY <1>21 DEF SetMessageListener, flash, driver, users, InUse,
       WorkPlaces, MountedOn, ChatOn, ReadyOn, TransportOn, RadioSetOn, ConfigOn
<1>22. CASE UiBegin
  BY <1>22 DEF UiBegin, flash, driver, users, InUse,
       WorkPlaces, MountedOn, ChatOn, ReadyOn, TransportOn, RadioSetOn, ConfigOn
<1>23. CASE \E object \in Objects : Release(object)
  BY <1>23 DEF Release, flash, users, InUse,
       WorkPlaces, MountedOn, ChatOn, ReadyOn, TransportOn, RadioSetOn, ConfigOn
<1>24. CASE UNCHANGED vars
  BY <1>24 DEF vars, flash, driver, users, InUse
<1> QED
  BY <1>1, <1>2, <1>3, <1>4, <1>5, <1>6, <1>7, <1>8, <1>9, <1>10, <1>11, <1>12, <1>13, <1>14, <1>15, <1>16, <1>17, <1>18, <1>19, <1>20, <1>21, <1>22, <1>23, <1>24
  DEF Next, ConfigStep, StartStep, StopStep, RoleStep

(* Each step of start() finds the objects of the steps before it; stop()   *)
(* runs only before anyone uses them.                                      *)
LEMMA StartStepInv ==
  ASSUME TypeOK, StartInv, [Next]_vars
  PROVE  StartInv'
<1> USE DEF StartInv
<1>1. CASE PowerLoss
  BY <1>1 DEF PowerLoss, flash, driver, users, InUse,
       WorkPlaces, MountedOn, ChatOn, ReadyOn, TransportOn, RadioSetOn, ConfigOn
<1>2. CASE PowerUp
  BY <1>2 DEF PowerUp, flash, driver, users, InUse,
       WorkPlaces, MountedOn, ChatOn, ReadyOn, TransportOn, RadioSetOn, ConfigOn
<1>3. CASE Create
  BY <1>3 DEF Create, flash, driver, users, InUse,
       WorkPlaces, MountedOn, ChatOn, ReadyOn, TransportOn, RadioSetOn, ConfigOn
<1>4. CASE Load
  BY <1>4 DEF Load, flash, driver, users, InUse,
       WorkPlaces, MountedOn, ChatOn, ReadyOn, TransportOn, RadioSetOn, ConfigOn
<1>5. CASE SaveKey
  BY <1>5 DEF SaveKey, flash, driver, users, InUse,
       WorkPlaces, MountedOn, ChatOn, ReadyOn, TransportOn, RadioSetOn, ConfigOn
<1>6. CASE SaveConfigured
  BY <1>6 DEF SaveConfigured, flash, driver, users, InUse,
       WorkPlaces, MountedOn, ChatOn, ReadyOn, TransportOn, RadioSetOn, ConfigOn
<1>7. CASE SaveRefused
  BY <1>7 DEF SaveRefused, flash, driver, users, InUse,
       WorkPlaces, MountedOn, ChatOn, ReadyOn, TransportOn, RadioSetOn, ConfigOn
<1>8. CASE SetConfig
  BY <1>8 DEF SetConfig, flash, driver, users, InUse,
       WorkPlaces, MountedOn, ChatOn, ReadyOn, TransportOn, RadioSetOn, ConfigOn
<1>9. CASE MakeTransport
  BY <1>9 DEF MakeTransport, flash, driver, users, InUse,
       WorkPlaces, MountedOn, ChatOn, ReadyOn, TransportOn, RadioSetOn, ConfigOn
<1>10. CASE TransportBegin
  BY <1>10 DEF TransportBegin, flash, driver, users, InUse,
       WorkPlaces, MountedOn, ChatOn, ReadyOn, TransportOn, RadioSetOn, ConfigOn
<1>11. CASE TransportFails
  BY <1>11 DEF TransportFails, flash, driver, users, InUse,
       WorkPlaces, MountedOn, ChatOn, ReadyOn, TransportOn, RadioSetOn, ConfigOn
<1>12. CASE MakeChat
  BY <1>12 DEF MakeChat, flash, driver, users, InUse,
       WorkPlaces, MountedOn, ChatOn, ReadyOn, TransportOn, RadioSetOn, ConfigOn
<1>13. CASE ChatBegin
  BY <1>13 DEF ChatBegin, flash, driver, users, InUse,
       WorkPlaces, MountedOn, ChatOn, ReadyOn, TransportOn, RadioSetOn, ConfigOn
<1>14. CASE ChatFails
  BY <1>14 DEF ChatFails, flash, driver, users, InUse,
       WorkPlaces, MountedOn, ChatOn, ReadyOn, TransportOn, RadioSetOn, ConfigOn
<1>15. CASE MakeProbe
  BY <1>15 DEF MakeProbe, flash, driver, users, InUse,
       WorkPlaces, MountedOn, ChatOn, ReadyOn, TransportOn, RadioSetOn, ConfigOn
<1>16. CASE CreateTask
  BY <1>16 DEF CreateTask, flash, driver, users, InUse,
       WorkPlaces, MountedOn, ChatOn, ReadyOn, TransportOn, RadioSetOn, ConfigOn
<1>17. CASE Started
  BY <1>17 DEF Started, flash, driver, users, InUse,
       WorkPlaces, MountedOn, ChatOn, ReadyOn, TransportOn, RadioSetOn, ConfigOn
<1>18. CASE Stopped
  BY <1>18 DEF Stopped, flash, driver, users, InUse,
       WorkPlaces, MountedOn, ChatOn, ReadyOn, TransportOn, RadioSetOn, ConfigOn
<1>19. CASE WifiBegin
  BY <1>19 DEF WifiBegin, flash, driver, users, InUse,
       WorkPlaces, MountedOn, ChatOn, ReadyOn, TransportOn, RadioSetOn, ConfigOn
<1>20. CASE ServerBegin
  BY <1>20 DEF ServerBegin, flash, driver, users, InUse,
       WorkPlaces, MountedOn, ChatOn, ReadyOn, TransportOn, RadioSetOn, ConfigOn
<1>21. CASE SetMessageListener
  BY <1>21 DEF SetMessageListener, flash, driver, users, InUse,
       WorkPlaces, MountedOn, ChatOn, ReadyOn, TransportOn, RadioSetOn, ConfigOn
<1>22. CASE UiBegin
  BY <1>22 DEF UiBegin, flash, driver, users, InUse,
       WorkPlaces, MountedOn, ChatOn, ReadyOn, TransportOn, RadioSetOn, ConfigOn
<1>23. CASE \E object \in Objects : Release(object)
  BY <1>23 DEF Release, flash, users, InUse,
       WorkPlaces, MountedOn, ChatOn, ReadyOn, TransportOn, RadioSetOn, ConfigOn
<1>24. CASE UNCHANGED vars
  BY <1>24 DEF vars, flash, driver, users, InUse
<1> QED
  BY <1>1, <1>2, <1>3, <1>4, <1>5, <1>6, <1>7, <1>8, <1>9, <1>10, <1>11, <1>12, <1>13, <1>14, <1>15, <1>16, <1>17, <1>18, <1>19, <1>20, <1>21, <1>22, <1>23, <1>24
  DEF Next, ConfigStep, StartStep, StopStep, RoleStep

-----------------------------------------------------------------------------
(* The initial states.                                                     *)
LEMMA InitInv ==
  ASSUME Init
  PROVE  TypeOK /\ FlashInv /\ StartInv
<1>1. TypeOK
  <2>1. Unset \in Settings
    BY DEF Unset, Settings
  <2>2. 0 \in 0..KeyCount /\ 0 \in 0..MaxBoots /\ "off" \in Places /\ {} \subseteq Objects
    BY LifecycleAssumption DEF Places
  <2> QED
    BY <2>1, <2>2 DEF Init, TypeOK
<1>2. FlashInv /\ StartInv
  BY DEF Init, FlashInv, StartInv, InUse, WorkPlaces, MountedOn, ChatOn, ReadyOn, TransportOn, RadioSetOn, ConfigOn
<1> QED
  BY <1>1, <1>2

(* TypeOK. *)
THEOREM LifecycleTypes == Spec => []TypeOK
<1> QED
  BY InitInv, TypeStep, PTL DEF Spec

(* A device that works has the settings of one firmware version, wherever  *)
(* the save of an earlier power-up was cut off.                            *)
THEOREM ConfigIsWhole == Spec => []OneConfig
<1>1. TypeOK /\ FlashInv => OneConfig
  BY DEF FlashInv, OneConfig, WorkPlaces, MountedOn, ChatOn, ReadyOn, TransportOn,
         RadioSetOn, ConfigOn
<1> QED
  BY <1>1, InitInv, TypeStep, FlashStep, PTL DEF Spec

(* No power-up after the first completed save changes a setting.           *)
THEOREM FirstConfigStays == Spec => ConfigKept
<1>1. ASSUME FlashInv, configured, [Next]_vars
      PROVE  UNCHANGED flash
  <2>1. CASE SaveKey \/ SaveConfigured
    BY <1>1, <2>1 DEF FlashInv, SaveKey, SaveConfigured
  <2>2. CASE UNCHANGED vars
    BY <2>2 DEF vars
  <2>3. CASE PowerLoss \/ PowerUp
    BY <2>3 DEF PowerLoss, PowerUp
  <2>4. CASE Create \/ Load \/ SaveRefused
    BY <2>4 DEF Create, Load, SaveRefused
  <2>5. CASE StartStep
    BY <2>5 DEF StartStep, SetConfig, MakeTransport, TransportBegin, TransportFails,
                MakeChat, ChatBegin, ChatFails, MakeProbe, CreateTask, Started
  <2>6. CASE StopStep
    BY <2>6 DEF StopStep, Stopped, Release
  <2>7. CASE RoleStep
    BY <2>7 DEF RoleStep, WifiBegin, ServerBegin, SetMessageListener, UiBegin
  <2> QED
    BY <1>1, <2>1, <2>2, <2>3, <2>4, <2>5, <2>6, <2>7 DEF Next, ConfigStep
<1>2. FlashInv /\ [Next]_vars => [configured => UNCHANGED flash]_vars
  BY <1>1
<1> QED
  BY <1>2, InitInv, TypeStep, FlashStep, PTL DEF Spec, ConfigKept

(* Whoever may run finds what it uses, and a failed start leaves nothing.  *)
THEOREM NothingDangles == Spec => []NoDangling
<1>1. StartInv => NoDangling
  BY DEF StartInv, NoDangling, InUse, WorkPlaces, MountedOn, ChatOn, ReadyOn,
         TransportOn, RadioSetOn
<1> QED
  BY <1>1, InitInv, TypeStep, StartStepInv, PTL DEF Spec
=============================================================================
