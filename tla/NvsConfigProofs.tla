-------------------------- MODULE NvsConfigProofs ---------------------------
(***************************************************************************)
(* Proofs about the stored credentials and settings, for any set of        *)
(* credentials and any number of saves, write errors and crashes.          *)
(***************************************************************************)
EXTENDS NvsConfig, TLAPS

-----------------------------------------------------------------------------
(* Types.                                                                  *)

\* Whatever the blobs hold, a fetch leaves credentials and settings in memory.
LEMMA FetchTyped ==
  ASSUME TypeOK
  PROVE  FetchedConf \in [ssid : Field, pwd : Field] /\ FetchedSettings \in {"default", "zero"}
<1>1. /\ flash.ssid \in Field \cup {Absent} /\ flash.pwd \in Field \cup {Absent}
      /\ flash.settings \in {"default", "zero", Absent} /\ Empty \in Field
  BY DEF TypeOK, Field
<1>2. Present(flash.ssid) \in Field /\ Present(flash.pwd) \in Field
  BY <1>1 DEF Present
<1> QED
  BY <1>1, <1>2 DEF TypeOK, FetchedConf, FetchedSettings, Complete

\* Every step keeps the types.
LEMMA TypeStep == TypeOK /\ [Next]_vars => TypeOK'
<1> SUFFICES ASSUME TypeOK, [Next]_vars PROVE TypeOK'
  OBVIOUS
<1>1. /\ Empty \in Field /\ NoCred \in [ssid : Field, pwd : Field]
      /\ NoPost \in [at : {"idle", "ssid", "password"}, cred : Field]
  BY DEF Field, NoCred, NoPost
<1>2. CASE UNCHANGED vars
  BY <1>2 DEF TypeOK, vars
<1>3. CASE BootFetch
  BY <1>3, FetchTyped DEF BootFetch, Fetch, TypeOK
<1>4. CASE StartSoftAp \/ Join \/ SaveJoined
  BY <1>4 DEF StartSoftAp, Join, SaveJoined, Saving, TypeOK
<1>5. CASE SoftApAborts \/ Crash
  BY <1>5, <1>1 DEF SoftApAborts, Crash, Restart, TypeOK
<1>6. CASE TestFetch
  BY <1>6, FetchTyped DEF TestFetch, Fetch, TypeOK
<1>7. CASE JoinFails \/ SaveErased
  BY <1>7, <1>1 DEF JoinFails, SaveErased, Saving, TypeOK
<1>8. CASE Open
  BY <1>8 DEF Open, Saving, TypeOK
<1>9. CASE WriteSsid
  BY <1>9 DEF WriteSsid, Saving, TypeOK
<1>10. CASE WritePassword
  BY <1>10 DEF WritePassword, Saving, TypeOK
<1>11. CASE WriteSettings
  BY <1>11 DEF WriteSettings, Saving, TypeOK
<1>12. CASE WriteError
  BY <1>12 DEF WriteError, Saving, TypeOK
<1>13. ASSUME NEW c \in Cred, PostConnect(c) PROVE TypeOK'
  BY <1>13, <1>1 DEF PostConnect, Field, TypeOK
<1>14. CASE PostSsid
  BY <1>14 DEF PostSsid, TypeOK
<1>15. CASE PostPassword
  BY <1>15, <1>1 DEF PostPassword, TypeOK
<1>16. CASE Register
  BY <1>16 DEF Register, SaveRegConfig, TypeOK
<1> QED
  BY <1>2, <1>3, <1>4, <1>5, <1>6, <1>7, <1>8, <1>9, <1>10, <1>11, <1>12, <1>13, <1>14,
     <1>15, <1>16 DEF Next, Manager, Save, HttpServer

\* Every blob, and everything fetched from one, keeps its type: no missing blob is
\* ever taken for an ssid, a password or settings by
\* wifi_manager_fetch_wifi_sta_config().
THEOREM NvsTypeCorrect == Spec => []TypeOK
<1>1. Init => TypeOK
  BY DEF Init, TypeOK, NoCred, NoPost, Field
<1> QED
  BY <1>1, TypeStep, PTL DEF Spec

-----------------------------------------------------------------------------
(* A forgotten network.                                                    *)

\* The inductive invariant behind ForgottenNotFetched: the ssid in flash, too, was
\* submitted since the last erasure, unless that erasure has not reached flash.
FlashForgets ==
  TypeOK /\ ForgottenNotFetched /\ flash.ssid \in wanted \cup stale \cup {Empty, Absent}

\* Every step keeps it, in the middle of a save as well.
LEMMA ForgetStep == FlashForgets /\ [Next]_vars => FlashForgets'
<1> SUFFICES ASSUME FlashForgets, [Next]_vars PROVE FlashForgets'
  OBVIOUS
<1> USE DEF FlashForgets, ForgottenNotFetched
<1>1. TypeOK'
  BY TypeStep
<1>2. Fetch => conf'.ssid \in wanted \cup stale \cup {Empty}
  BY DEF Fetch, FetchedConf, Present
<1>3. CASE UNCHANGED vars
  BY <1>1, <1>3 DEF vars
<1>4. CASE BootFetch \/ TestFetch
  BY <1>1, <1>2, <1>4 DEF BootFetch, TestFetch
<1>5. CASE StartSoftAp \/ Join \/ SaveJoined
  BY <1>1, <1>5 DEF StartSoftAp, Join, SaveJoined
<1>6. CASE SoftApAborts \/ Crash \/ JoinFails
  BY <1>1, <1>6 DEF SoftApAborts, Crash, Restart, JoinFails, NoCred
<1>7. CASE SaveErased
  BY <1>1, <1>7 DEF SaveErased, NoCred, TypeOK, Field
<1>8. CASE WriteSsid
  BY <1>1, <1>8 DEF WriteSsid, TypeOK
<1>9. CASE Open \/ WritePassword \/ WriteSettings \/ WriteError
  BY <1>1, <1>9 DEF Open, WritePassword, WriteSettings, WriteError, TypeOK
<1>10. ASSUME NEW c \in Cred, PostConnect(c) PROVE FlashForgets'
  BY <1>1, <1>10 DEF PostConnect, NoCred
<1>11. CASE PostSsid
  BY <1>1, <1>11 DEF PostSsid, TypeOK, Field
<1>12. CASE PostPassword
  BY <1>1, <1>12 DEF PostPassword, TypeOK
<1>13. CASE Register
  BY <1>1, <1>13 DEF Register, SaveRegConfig, TypeOK
<1> QED
  BY <1>3, <1>4, <1>5, <1>6, <1>7, <1>8, <1>9, <1>10, <1>11, <1>12, <1>13
     DEF Next, Manager, Save, HttpServer

\* An ssid that the user told the device to forget is read back only while the empty
\* ssid of wifi_manager_save_sta_config() has not reached flash: crashes and ignored
\* write errors after that write, in that save or a later one, do not restore it.
THEOREM ForgottenIsNotFetched == Spec => []ForgottenNotFetched
<1>1. Init => FlashForgets
  BY DEF Init, TypeOK, NoCred, NoPost, Field, FlashForgets, ForgottenNotFetched
<1>2. FlashForgets => ForgottenNotFetched
  BY DEF FlashForgets
<1> QED
  BY <1>1, <1>2, ForgetStep, PTL DEF Spec

-----------------------------------------------------------------------------
(* The settings.                                                           *)

\* The inductive invariant behind SettingsSurvive: over flash from which the device can
\* start the settings in use are valid, and the settings are the last blob to appear,
\* so that nothing but their own write can make flash complete.
SettingsSafe ==
  /\ TypeOK
  /\ Bootable => settings = "default"
  /\ flash.settings # Absent => flash.ssid # Absent /\ flash.pwd # Absent
  /\ pc \in {"password", "settings"} => flash.ssid # Absent
  /\ pc = "settings" => flash.pwd # Absent
  /\ ~flash.ns => flash.settings = Absent
  /\ pc \in {"ssid", "password", "settings"} => flash.ns

\* Every step keeps it, and keeps flash from which the device can start.
LEMMA SettingsStep ==
  ASSUME SettingsSafe, [Next]_vars
  PROVE  SettingsSafe' /\ (Bootable => Bootable')
<1> USE DEF SettingsSafe, Bootable, Complete
<1>1. TypeOK'
  BY TypeStep
<1>2. Absent \notin Field /\ "default" # Absent /\ "zero" # Absent
  BY CredAssumption DEF Field
<1>3. CASE UNCHANGED vars
  BY <1>1, <1>3 DEF vars
<1>4. CASE BootFetch
  BY <1>1, <1>4 DEF BootFetch, Fetch, FetchedSettings
<1>5. CASE StartSoftAp \/ Join \/ JoinFails \/ SaveJoined \/ SaveErased \/ WriteError
  BY <1>1, <1>5 DEF StartSoftAp, Join, JoinFails, SaveJoined, SaveErased, WriteError
<1>6. CASE SoftApAborts \/ Crash
  BY <1>1, <1>6 DEF SoftApAborts, Crash, Restart
<1>7. CASE TestFetch
  BY <1>1, <1>7 DEF TestFetch, Fetch, FetchedSettings
<1>8. CASE Open
  BY <1>1, <1>8 DEF Open, TypeOK
<1>9. CASE WriteSsid
  BY <1>1, <1>2, <1>9 DEF WriteSsid, TypeOK
<1>10. CASE WritePassword
  BY <1>1, <1>2, <1>10 DEF WritePassword, TypeOK
<1>11. CASE WriteSettings
  BY <1>1, <1>2, <1>11 DEF WriteSettings, TypeOK
<1>12. ASSUME NEW c \in Cred, PostConnect(c) PROVE SettingsSafe' /\ (Bootable => Bootable')
  BY <1>1, <1>12 DEF PostConnect
<1>13. CASE PostSsid \/ PostPassword
  BY <1>1, <1>13 DEF PostSsid, PostPassword
<1>14. CASE Register
  BY <1>1, <1>14 DEF Register, SaveRegConfig, TypeOK
<1> QED
  BY <1>3, <1>4, <1>5, <1>6, <1>7, <1>8, <1>9, <1>10, <1>11, <1>12, <1>13, <1>14
     DEF Next, Manager, Save, HttpServer

\* Once flash is complete and its settings are valid the device can start from then on,
\* through crashes, write errors, erasures, registrations and fetches in any number and
\* order.  (SoftApSettingsValid says what may happen before that.)
THEOREM CompleteFlashStaysBootable == Spec => SettingsSurvive
<1>1. Init => SettingsSafe
  BY DEF Init, TypeOK, NoCred, NoPost, Field, SettingsSafe, Bootable, Complete
<1>2. SettingsSafe /\ [Next]_vars => SettingsSafe'
  BY SettingsStep
<1>3. SettingsSafe /\ [Next]_vars => [Bootable => Bootable' /\ settings' = "default"]_vars
  BY SettingsStep DEF SettingsSafe
<1> QED
  BY <1>1, <1>2, <1>3, PTL DEF Spec, SettingsSurvive

=============================================================================
