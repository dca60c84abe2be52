---------------------------- MODULE AppLifecycle ----------------------------
(***************************************************************************)
(* A device from power-up to its loop, and again after each loss of power: *)
(* setup() with startCardputer or startGateway, start() and stop() of      *)
(* app_core.cpp, ConfigStore, and what follows start().  Power may fail    *)
(* between any two steps, and a new firmware with other defaults may be    *)
(* flashed while the device is off.  A setting is the firmware version     *)
(* whose default it is.  A put into an open namespace succeeds; power fails*)
(* before or after it.                                                     *)
(***************************************************************************)
EXTENDS Integers

CONSTANTS
  Roles,     \* a subset of {"Terminal", "Gateway"}: DeviceRole
  Versions,  \* firmware versions, and their default settings
  Missing,   \* no value under this key
  KeyCount,  \* the number of settings, in the order in which save() writes them
  MaxBoots   \* bound on the power-ups

ASSUME LifecycleAssumption ==
  /\ Roles \subseteq {"Terminal", "Gateway"}
  /\ Missing \notin Versions
  /\ KeyCount \in Nat \ {0}
  /\ MaxBoots \in Nat

VARIABLES
  role,        \* what the device is
  firmware,    \* the version it runs
  boots,       \* how often it was powered up
  nvs,         \* the settings in flash
  configured,  \* kKeyConfigured in flash
  at,          \* the step of setup() that comes next
  saved,       \* settings written by the running save()
  config,      \* g_config
  radioCfg,    \* m_cfg of the driver
  chip,        \* the settings the radio works with
  ready,       \* m_ready of the driver
  alive,       \* the objects that exist
  mounted,     \* MessageStore::begin succeeded
  task,        \* the protocol task exists
  started,     \* s_started, which lets loop() work
  ap,          \* WifiManager::m_state
  web          \* the web server: off, accepting, or with its listener set

flash  == <<nvs, configured>>
driver == <<radioCfg, chip, ready>>
users  == <<task, started, ap, web>>
vars   == <<role, firmware, boots, flash, at, saved, config, driver, alive,
            mounted, users>>

Keys     == 1..KeyCount
Unset    == [k \in Keys |-> Missing]
Settings == [Keys -> Versions \cup {Missing}]
Objects  == {"radio", "transport", "inbound", "store", "chat", "probe"}

Defaults(version) == [k \in Keys |-> version]

-----------------------------------------------------------------------------
(* Nothing in RAM survives; the E220 keeps its settings, the SX1278 does   *)
(* not.                                                                    *)
PowerLoss ==
  /\ at # "off"
  /\ at' = "off"
  /\ saved' = 0
  /\ config' = Unset
  /\ radioCfg' = Unset
  /\ chip' = IF role = "Gateway" THEN Unset ELSE chip
  /\ ready' = FALSE
  /\ alive' = {}
  /\ mounted' = FALSE
  /\ task' = FALSE
  /\ started' = FALSE
  /\ ap' = "Off"
  /\ web' = "off"
  /\ UNCHANGED <<role, firmware, boots, flash>>

PowerUp ==
  /\ at = "off"
  /\ boots < MaxBoots
  /\ boots' = boots + 1
  /\ firmware' \in Versions
  /\ at' = "create"
  /\ UNCHANGED <<role, flash, saved, config, driver, alive, mounted, users>>

(* RadioFactory::create; the driver begins with the defaults compiled in. *)
Create ==
  /\ at = "create"
  /\ alive' = {"radio"}
  /\ radioCfg' = Defaults(firmware)
  /\ at' = "load"
  /\ UNCHANGED <<role, firmware, boots, flash, saved, config, chip, ready,
                 mounted, users>>

-----------------------------------------------------------------------------
(* loadDefaults and load: a setting that is not in flash keeps its default.*)
Loaded == [k \in Keys |-> IF nvs[k] = Missing THEN firmware ELSE nvs[k]]

(* Mutant: settings of another version count as none. *)
LoadOwnOnly ==
  /\ at = "load"
  /\ IF configured /\ nvs[1] = firmware
     THEN config' = Loaded /\ at' = "setConfig"
     ELSE config' = Defaults(firmware) /\ at' = "save"
  /\ UNCHANGED <<role, firmware, boots, flash, saved, driver, alive, mounted, users>>

Load ==
  /\ at = "load"
  /\ IF configured
     THEN config' = Loaded /\ at' = "setConfig"
     ELSE config' = Defaults(firmware) /\ at' = "save"
  /\ UNCHANGED <<role, firmware, boots, flash, saved, driver, alive, mounted, users>>

(* Mutant: as if the number of keys were not known. *)
SaveKeyBeyond ==
  /\ at = "save"
  /\ saved' = saved + 1
  /\ saved < KeyCount + 1
  /\ nvs' = [nvs EXCEPT ![saved + 1] = config[1]]
  /\ UNCHANGED <<role, firmware, boots, configured, at, config, driver, alive,
                 mounted, users>>

(* save: the settings one by one, kKeyConfigured last; or the namespace    *)
(* does not open, which start() does not look at.                          *)
SaveKey ==
  /\ at = "save"
  /\ saved < KeyCount
  /\ nvs' = [nvs EXCEPT ![saved + 1] = config[saved + 1]]
  /\ saved' = saved + 1
  /\ UNCHANGED <<role, firmware, boots, configured, at, config, driver, alive,
                 mounted, users>>

(* Mutant: a setting that cannot be written ends the writing of settings. *)
SaveConfiguredEarly ==
  /\ at = "save"
  /\ configured' = TRUE
  /\ at' = "setConfig"
  /\ UNCHANGED <<role, firmware, boots, nvs, saved, config, driver, alive, mounted, users>>

SaveConfigured ==
  /\ at = "save"
  /\ saved = KeyCount
  /\ configured' = TRUE
  /\ at' = "setConfig"
  /\ UNCHANGED <<role, firmware, boots, nvs, saved, config, driver, alive, mounted, users>>

SaveRefused ==
  /\ at = "save"
  /\ saved = 0
  /\ at' = "setConfig"
  /\ UNCHANGED <<role, firmware, boots, flash, saved, config, driver, alive, mounted, users>>

-----------------------------------------------------------------------------
SetConfig ==
  /\ at = "setConfig"
  /\ radioCfg' = config
  /\ at' = "transport"
  /\ UNCHANGED <<role, firmware, boots, flash, saved, config, chip, ready, alive,
                 mounted, users>>

MakeTransport ==
  /\ at = "transport"
  /\ alive' = alive \cup {"transport", "inbound"}
  /\ at' = "begin"
  /\ UNCHANGED <<role, firmware, boots, flash, saved, config, driver, mounted, users>>

(* Mutant: the protocol task is created as soon as there is a transport. *)
TransportBeginTask ==
  /\ at = "begin"
  /\ ready' = TRUE
  /\ chip' = radioCfg
  /\ task' = TRUE
  /\ at' = "chat"
  /\ UNCHANGED <<role, firmware, boots, flash, saved, config, radioCfg, alive,
                 mounted, started, ap, web>>

(* ReliableTransport::begin: the SX1278 takes its settings; the E220 only  *)
(* if its switches let it, and works on with those it has otherwise.       *)
TransportBegin ==
  /\ at = "begin"
  /\ ready' = TRUE
  /\ \/ chip' = radioCfg
     \/ role = "Terminal" /\ UNCHANGED chip
  /\ at' = "chat"
  /\ UNCHANGED <<role, firmware, boots, flash, saved, config, radioCfg, alive,
                 mounted, users>>

TransportFails ==
  /\ at = "begin"
  /\ at' = "stop"
  /\ UNCHANGED <<role, firmware, boots, flash, saved, config, driver, alive, mounted, users>>

MakeChat ==
  /\ at = "chat"
  /\ alive' = alive \cup {"store", "chat"}
  /\ at' = "mount"
  /\ UNCHANGED <<role, firmware, boots, flash, saved, config, driver, mounted, users>>

ChatBegin ==
  /\ at = "mount"
  /\ mounted' = TRUE
  /\ at' = "probe"
  /\ UNCHANGED <<role, firmware, boots, flash, saved, config, driver, alive, users>>

ChatFails ==
  /\ at = "mount"
  /\ at' = "stop"
  /\ UNCHANGED <<role, firmware, boots, flash, saved, config, driver, alive, mounted, users>>

(* The LinkProbe of the gateway, and the HELLO. *)
MakeProbe ==
  /\ at = "probe"
  /\ alive' = IF role = "Gateway" THEN alive \cup {"probe"} ELSE alive
  /\ at' = "task"
  /\ UNCHANGED <<role, firmware, boots, flash, saved, config, driver, mounted, users>>

(* The result of xTaskCreatePinnedToCore is not looked at. *)
CreateTask ==
  /\ at = "task"
  /\ task' \in BOOLEAN
  /\ at' = "started"
  /\ UNCHANGED <<role, firmware, boots, flash, saved, config, driver, alive, mounted,
                 started, ap, web>>

(* start() returns true. *)
Started ==
  /\ at = "started"
  /\ started' = TRUE
  /\ at' = IF role = "Gateway" THEN "wifi" ELSE "ui"
  /\ UNCHANGED <<role, firmware, boots, flash, saved, config, driver, alive, mounted,
                 task, ap, web>>

(* stop(): the objects one by one, those that use others before these. *)
StopOrder == <<"probe", "chat", "store", "inbound", "transport", "radio">>

Before(object) == {StopOrder[i] : i \in {i \in 1..6 :
                     \E j \in 1..6 : i < j /\ StopOrder[j] = object}}

Release(object) ==
  /\ at = "stop"
  /\ object \in alive
  /\ alive \cap Before(object) = {}
  /\ alive' = alive \ {object}
  /\ ready' = (ready /\ object # "radio")
  /\ mounted' = (mounted /\ object # "store")
  /\ UNCHANGED <<role, firmware, boots, flash, at, saved, config, radioCfg, chip, users>>

(* start() returns false: s_started stays false, and loop() idles. *)
Stopped ==
  /\ at = "stop"
  /\ alive = {}
  /\ at' = "failed"
  /\ UNCHANGED <<role, firmware, boots, flash, saved, config, driver, alive, mounted, users>>

-----------------------------------------------------------------------------
(* WifiManager::begin; the gateway goes on without an access point.        *)
WifiBegin ==
  /\ at = "wifi"
  /\ ap' \in {"Running", "Error"}
  /\ at' = "server"
  /\ UNCHANGED <<role, firmware, boots, flash, saved, config, driver, alive, mounted,
                 task, started, web>>

(* GatewayWeb::begin: the server accepts, then the listener is set. *)
ServerBegin ==
  /\ at = "server"
  /\ web' = "accepting"
  /\ at' = "listener"
  /\ UNCHANGED <<role, firmware, boots, flash, saved, config, driver, alive, mounted,
                 task, started, ap>>

SetMessageListener ==
  /\ at = "listener"
  /\ web' = "telling"
  /\ at' = "loop"
  /\ UNCHANGED <<role, firmware, boots, flash, saved, config, driver, alive, mounted,
                 task, started, ap>>

(* The keyboard and the display of the Cardputer, which cannot fail. *)
UiBegin ==
  /\ at = "ui"
  /\ at' = "loop"
  /\ UNCHANGED <<role, firmware, boots, flash, saved, config, driver, alive, mounted, users>>

-----------------------------------------------------------------------------
Init ==
  /\ role \in Roles
  /\ firmware \in Versions
  /\ boots = 0
  /\ nvs = Unset
  /\ configured = FALSE
  /\ at = "off"
  /\ saved = 0
  /\ config = Unset
  /\ radioCfg = Unset
  /\ chip = Unset
  /\ ready = FALSE
  /\ alive = {}
  /\ mounted = FALSE
  /\ task = FALSE
  /\ started = FALSE
  /\ ap = "Off"
  /\ web = "off"

ConfigStep == Create \/ Load \/ SaveKey \/ SaveConfigured \/ SaveRefused

StartStep ==
  \/ SetConfig \/ MakeTransport \/ TransportBegin \/ TransportFails
  \/ MakeChat \/ ChatBegin \/ ChatFails \/ MakeProbe \/ CreateTask \/ Started

StopStep == Stopped \/ \E object \in Objects : Release(object)

RoleStep == WifiBegin \/ ServerBegin \/ SetMessageListener \/ UiBegin

Next == PowerLoss \/ PowerUp \/ ConfigStep \/ StartStep \/ StopStep \/ RoleStep

Spec == Init /\ [][Next]_vars

-----------------------------------------------------------------------------
Places == {"off", "create", "load", "save", "setConfig", "transport", "begin",
           "chat", "mount", "probe", "task", "started", "stop", "failed",
           "wifi", "server", "listener", "ui", "loop"}

(* The type of every variable. *)
TypeOK ==
  /\ role \in Roles
  /\ firmware \in Versions
  /\ boots \in 0..MaxBoots
  /\ nvs \in Settings
  /\ configured \in BOOLEAN
  /\ at \in Places
  /\ saved \in 0..KeyCount
  /\ config \in Settings
  /\ radioCfg \in Settings
  /\ chip \in Settings
  /\ ready \in BOOLEAN
  /\ alive \in SUBSET Objects
  /\ mounted \in BOOLEAN
  /\ task \in BOOLEAN
  /\ started \in BOOLEAN
  /\ ap \in {"Off", "Running", "Error"}
  /\ web \in {"off", "accepting", "telling"}

Whole(settings) == \E v \in Versions : settings = Defaults(v)

(* Whoever works with the objects of app_core: the protocol task, loop(),  *)
(* the callbacks of the web server.                                        *)
InUse == task \/ started \/ web # "off"

(* A device that works has the settings of one firmware version, never     *)
(* some of one and some of another, although save() may have been cut off  *)
(* at any setting and another firmware flashed before the next power-up;   *)
(* and the gateway's radio, which keeps nothing, works with them.          *)
OneConfig ==
  InUse => Whole(config) /\ (role = "Gateway" => chip = config)

(* Once kKeyConfigured is in flash, no power-up changes a setting there:   *)
(* only the first one that completes decides.                              *)
ConfigKept == [][configured => UNCHANGED flash]_vars

(* Whoever may run finds the objects it uses, the radio initialized and    *)
(* the store mounted; and a start that failed leaves nothing behind that   *)
(* could run.                                                              *)
NoDangling ==
  /\ InUse => /\ {"radio", "transport", "inbound", "store", "chat"} \subseteq alive
              /\ ready /\ mounted
  /\ at = "failed" => alive = {} /\ ~InUse

=============================================================================
