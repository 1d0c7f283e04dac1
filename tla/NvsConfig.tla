----------------------------- MODULE NvsConfig -----------------------------
(***************************************************************************)
(* The credentials and settings that src/main/wifi_manager.c keeps in the  *)
(* "espwifimgr" namespace of flash: wifi_manager_save_sta_config() writes  *)
(* three blobs one after the other, wifi_manager_save_reg_config() others, *)
(* wifi_manager_fetch_wifi_sta_config() reads them back at start-up and    *)
(* when an unconnected station is tested.  A crash (panic_task() aborts    *)
(* every hour; power) may fall between any two writes, and the HTTP server *)
(* replaces the credentials in memory while they are being saved.          *)
(***************************************************************************)
EXTENDS Naturals

CONSTANTS
  Cred,      \* credentials; c stands for the ssid and for its password
  Empty,     \* an all-zero ssid or password
  Absent     \* a blob that was never written

ASSUME CredAssumption == Empty \notin Cred /\ Absent \notin Cred \cup {Empty, "default", "zero"}

VARIABLES
  flash,     \* the namespace: does it exist, and its blobs
  conf,      \* *wifi_manager_config_sta
  settings,  \* wifi_settings: the compiled-in defaults, or zeroed
  pc,        \* where wifi_manager() is
  post,      \* the POST /connect.json being served: its next call, its credentials
  wanted,    \* history: ssids submitted since the last erasure in memory
  stale      \* history: the ssid that erasure found in flash, until an empty one is
             \* written over it

vars == <<flash, conf, settings, pc, post, wanted, stale>>

Field    == Cred \cup {Empty}
NoCred   == [ssid |-> Empty, pwd |-> Empty]
NoPost   == [at |-> "idle", cred |-> Empty]
Saving   == {"open", "ssid", "password", "settings"}
Complete(f) == f.ssid # Absent /\ f.pwd # Absent /\ f.settings # Absent

TypeOK ==
  /\ flash \in [ns : BOOLEAN, ssid : Field \cup {Absent}, pwd : Field \cup {Absent},
                settings : {"default", "zero", Absent}]
  /\ conf \in [ssid : Field, pwd : Field]
  /\ settings \in {"default", "zero"}
  /\ pc \in {"boot", "softap", "run", "joining"} \cup Saving
  /\ post \in [at : {"idle", "ssid", "password"}, cred : Field]
  /\ wanted \subseteq Cred /\ stale \subseteq Cred

\* A device fresh from the factory.
Init ==
  /\ flash = [ns |-> FALSE, ssid |-> Absent, pwd |-> Absent, settings |-> Absent]
  /\ conf = NoCred /\ settings = "default" /\ pc = "boot" /\ post = NoPost
  /\ wanted = {} /\ stale = {}

-----------------------------------------------------------------------------
(* wifi_manager_fetch_wifi_sta_config(): both structures are zeroed before *)
(* the first blob is read, and a missing blob returns at once.             *)

Present(x) == IF x = Absent THEN Empty ELSE x

\* Faulty variant: a missing blob is not replaced by zeros.
FetchedConfRaw ==
  IF ~flash.ns THEN conf ELSE [ssid |-> flash.ssid, pwd |-> flash.pwd]

FetchedConf ==
  IF ~flash.ns THEN conf
  ELSE [ssid |-> Present(flash.ssid),
        pwd  |-> IF flash.ssid = Absent THEN Empty ELSE Present(flash.pwd)]

FetchedSettings ==
  IF ~flash.ns THEN settings
  ELSE IF Complete(flash) THEN flash.settings ELSE "zero"

Fetch == conf' = FetchedConf /\ settings' = FetchedSettings

BootFetch ==
  /\ pc = "boot" /\ pc' = "softap"
  /\ Fetch
  /\ UNCHANGED <<flash, post, wanted, stale>>

\* esp_wifi_set_bandwidth() and the other calls under ESP_ERROR_CHECK accept
\* the defaults only.
StartSoftAp ==
  /\ pc = "softap" /\ settings = "default" /\ pc' = "run"
  /\ UNCHANGED <<flash, conf, settings, post, wanted, stale>>

\* RAM after a restart: wifi_settings has its initialiser again.
Restart == pc' = "boot" /\ conf' = NoCred /\ settings' = "default" /\ post' = NoPost

SoftApAborts ==
  /\ pc = "softap" /\ settings # "default"
  /\ Restart
  /\ UNCHANGED <<flash, wanted, stale>>

Crash == Restart /\ UNCHANGED <<flash, wanted, stale>>

\* The connection test of a station that is not connected.
TestFetch ==
  /\ pc = "run" /\ Fetch
  /\ UNCHANGED <<flash, pc, post, wanted, stale>>

-----------------------------------------------------------------------------
(* The connect and disconnect branches of wifi_manager().                  *)

Join ==
  /\ pc = "run" /\ conf.ssid # Empty /\ pc' = "joining"
  /\ UNCHANGED <<flash, conf, settings, post, wanted, stale>>

\* The credentials are reset after a failed attempt.
JoinFails ==
  /\ pc = "joining" /\ pc' = "run" /\ conf' = NoCred
  /\ UNCHANGED <<flash, settings, post, wanted, stale>>

\* After a join, whatever *wifi_manager_config_sta holds by then is saved.
SaveJoined ==
  /\ pc = "joining" /\ pc' = "open"
  /\ UNCHANGED <<flash, conf, settings, post, wanted, stale>>

\* Faulty variant: the settings are erased with the credentials.
SaveErasedAll ==
  /\ pc = "run" /\ pc' = "open"
  /\ conf' = NoCred /\ wanted' = {} /\ stale' = Cred \cap {flash.ssid}
  /\ settings' = "zero"
  /\ UNCHANGED <<flash, post>>

\* A requested disconnection: the configuration is erased in memory, then saved.
SaveErased ==
  /\ pc = "run" /\ pc' = "open"
  /\ conf' = NoCred /\ wanted' = {} /\ stale' = Cred \cap {flash.ssid}
  /\ UNCHANGED <<flash, settings, post>>

-----------------------------------------------------------------------------
(* wifi_manager_save_sta_config().                                         *)

\* nvs_open() creates the namespace.
Open ==
  /\ pc = "open" /\ pc' = "ssid"
  /\ flash' = [flash EXCEPT !.ns = TRUE]
  /\ UNCHANGED <<conf, settings, post, wanted, stale>>

\* Faulty variant: an empty ssid is not written.
WriteSsidNotEmpty ==
  /\ pc = "ssid" /\ pc' = "password"
  /\ flash' = IF conf.ssid = Empty THEN flash ELSE [flash EXCEPT !.ssid = conf.ssid]
  /\ stale' = IF conf.ssid = Empty THEN {} ELSE stale
  /\ UNCHANGED <<conf, settings, post, wanted>>

WriteSsid ==
  /\ pc = "ssid" /\ pc' = "password"
  /\ flash' = [flash EXCEPT !.ssid = conf.ssid]
  /\ stale' = IF conf.ssid = Empty THEN {} ELSE stale
  /\ UNCHANGED <<conf, settings, post, wanted>>

WritePassword ==
  /\ pc = "password" /\ pc' = "settings"
  /\ flash' = [flash EXCEPT !.pwd = conf.pwd]
  /\ UNCHANGED <<conf, settings, post, wanted, stale>>

WriteSettings ==
  /\ pc = "settings" /\ pc' = "run"
  /\ flash' = [flash EXCEPT !.settings = settings]
  /\ UNCHANGED <<conf, settings, post, wanted, stale>>

\* nvs_open(), nvs_set_blob() or nvs_commit() fails: every caller ignores the error.
WriteError ==
  /\ pc \in Saving /\ pc' = "run"
  /\ UNCHANGED <<flash, conf, settings, post, wanted, stale>>

Save == Open \/ WriteSsid \/ WritePassword \/ WriteSettings \/ WriteError

Manager == Join \/ JoinFails \/ SaveJoined \/ SaveErased \/ Save \/ TestFetch

-----------------------------------------------------------------------------
(* The HTTP server, at any time once wifi_manager() has started it.        *)

Serving == pc \notin {"boot", "softap"}

\* POST /connect.json: memset(), memcpy() of the ssid, memcpy() of the password.
PostConnect(c) ==
  /\ Serving /\ post = NoPost
  /\ post' = [at |-> "ssid", cred |-> c] /\ conf' = NoCred
  /\ UNCHANGED <<flash, settings, pc, wanted, stale>>

PostSsid ==
  /\ post.at = "ssid" /\ post' = [post EXCEPT !.at = "password"]
  /\ conf' = [conf EXCEPT !.ssid = post.cred] /\ wanted' = wanted \cup (Cred \cap {post.cred})
  /\ UNCHANGED <<flash, settings, pc, stale>>

PostPassword ==
  /\ post.at = "password" /\ post' = NoPost
  /\ conf' = [conf EXCEPT !.pwd = post.cred]
  /\ UNCHANGED <<flash, settings, pc, wanted, stale>>

\* wifi_manager_save_reg_config(): the name and email blobs are not modelled,
\* the namespace that opening them for writing creates is.
SaveRegConfig == flash' = [flash EXCEPT !.ns = TRUE]

\* POST /register.json.
Register ==
  /\ Serving /\ post = NoPost
  /\ SaveRegConfig
  /\ UNCHANGED <<conf, settings, pc, post, wanted, stale>>

HttpServer == (\E c \in Cred : PostConnect(c)) \/ PostSsid \/ PostPassword \/ Register

Next == BootFetch \/ StartSoftAp \/ SoftApAborts \/ Manager \/ HttpServer \/ Crash

Spec == Init /\ [][Next]_vars

-----------------------------------------------------------------------------
(* Properties.                                                             *)

\* Flash from which the device can start.
Bootable == Complete(flash) /\ flash.settings = "default"

\* Once flash holds all three blobs, and settings the driver accepts, no sequence of
\* crashes, write errors, erasures, registrations, fetches and torn POSTs takes that
\* away, in flash or in the settings in use: the device starts from then on.
SettingsSurvive == [][Bootable => Bootable' /\ settings' = "default"]_vars

\* An ssid the user told the device to forget is read back only if the erasure never
\* reached flash: once the empty ssid is written, no crash or write error in the rest
\* of that save or in a later one brings the old ssid back.  A crash or an ignored
\* write error before that first write does leave it in flash (stale).
ForgottenNotFetched == conf.ssid \in wanted \cup stale \cup {Empty}

\* wifi_manager.c:858 on a requested disconnection: "this will in effect disconnect
\* the wifi but also erase NVS memory".  No crash or write error lets the ssid return.
ForgetsForGood == conf.ssid \in wanted \cup {Empty}

\* wifi_manager.h:88 on the access point's bandwidth: "Value: WIFI_BW_HT20 for 20
\* MHz  or  WIFI_BW_HT40 for 40 MHz".  The settings in use are never the zeroed ones.
SoftApSettingsValid == pc = "softap" => settings = "default"

=============================================================================
