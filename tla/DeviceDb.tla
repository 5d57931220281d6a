------------------------------ MODULE DeviceDb ------------------------------
(***************************************************************************)
(* The supported devices of device_db.yaml ("build: yes"): the entries of  *)
(* config_str with the models that the device may have in its stored       *)
(* configuration, the one of config_str and the old_zb_models of earlier   *)
(* releases. Devices with the same entries share a row; pins are left out, *)
(* and so are keys that neither the firmware nor the converters read.      *)
(***************************************************************************)
EXTENDS DeviceConfig

Of(kinds) == [k \in DOMAIN kinds |-> Entry(kinds[k])]
Configs(entries, models) == [model: models, entries: {entries}]

\* Relays with a push button of their own, to be put behind a switch.
switch_modules ==
  Configs(Of(<<"B", "L", "S", "R">>),
     {"WHD02-Aubess", "WHD02-Aubess-ED", "TS0001-AVB", "TS0001-Avatto-custom", "TS0001-AV-CUS",
      "TS0001-AV-DRY", "TS0011-avatto", "TS0011-avatto-ED", "TS0001-GS", "TS0001-FL",
      "TS0002-FL", "TS0001-GRA", "TS0001-GD", "TS0001-GIR", "TS0001-GIR-1", "TS0001-HOBM",
      "TS0001-HOB1", "TS0001-HOB", "TS0011-HOMMYN", "TS0001-IHS", "TS0001-IHA",
      "iHSW02-MiniSmartSw", "TS0001-PWR", "TS0001-nous", "MS105-ZB-CUSTOM", "ZBMINIL2-custom",
      "TS0001-TLED", "TS0001-C", "TS0001-SB", "WHD02-custom", "TS0001-CC", "TS0011-custom",
      "TS0011-CUS-2", "TS0011-S05", "NovatoZRM01", "NovatoZNR01", "TS0001-custom", "TS011F-TUYA",
      "TS0001-TS", "TS0001-ZTU", "TS0001-YNTDQ"})
  \cup Configs(Of(<<"B", "L", "S", "R", "S", "R">>),
     {"TS0002-AUB", "TS0002-AVB", "TS0002-Avatto-custom", "TS0002-AV-CUS", "TS0012-avatto",
      "TS0012-avatto-ED", "TS0012-AVB1", "EKAC-T3092Z-CUSTOM", "TS0012-EKF", "TS0002-GS",
      "TS0002-NS", "TS0012-C", "TS0002-GIR", "TS0002-custom", "TS0002-HOBM", "Hommyn-RLZBN02",
      "TS0002-IHS", "TS0002-MSB", "TS0002-MS", "TS0002-N1J44RTH", "TS0002-C", "TS0002-SB",
      "TS0012-custom", "TS0042-CUSTOM", "TS0012-custom-end-device", "TS0002-QS", "NovatoZRM02",
      "TS0002-OXT-CUS", "TS0002-ZB"})
  \cup Configs(Of(<<"B", "L", "S", "R", "S", "R", "S", "R">>),
     {"TS0003-AUB", "TS0003-AVB", "TS0003-Avatto-custom", "TS0003-AV-CUS", "TS0003-AVB2",
      "TS0013-AVB", "TS0003-GRA", "TS0003-GR", "TS0003-HOBM", "TS0003-IHS", "TS0003-3CH-cus",
      "TS0003-MS", "TS0003-UWHJGNGJ", "TS0003-SB", "ZB08-custom", "ZB08-custom-ED", "TS0003-Avv",
      "TS0003-C"})
  \cup Configs(Of(<<"B", "L", "S", "R", "S", "R", "S", "R", "S", "R">>),
     {"TS0004-custom", "TS0004-AVB", "TS0004-Avatto-custom", "TS0004-AV-CUS", "TS0004-AVB2",
      "TS0004-IHS", "TS0004-MS", "TS0004-SB", "TS0004-Avv"})
  \cup Configs(Of(<<"B", "L", "S", "R", "S", "R", "M">>),
     {"Hommyn-2"})
  \cup Configs(Of(<<"B", "S", "R", "S", "R", "S", "R">>),
     {"TS0003-custom"})
  \cup Configs(Of(<<"B", "L", "S", "R", "S", "R", "SLP">>),
     {"TS0012-QS"})
  \cup Configs(Of(<<"B", "L", "S", "S", "R", "R">>),
     {"TS0002-NS1"})

\* Switches and relays with at most an LED for the network.
plain_switches ==
  Configs(Of(<<"L", "S", "R", "S", "R", "S", "R", "S", "R", "M">>),
     {"TS0004-MC", "TS0004-MC1", "TS0004-MC2", "TS0004-MC3", "TS0004-B", "TS0004-AVT",
      "TS0004-BSMN", "TS0004-BS", "TS0004-CUS"})
  \cup Configs(Of(<<"L", "S", "R", "M">>),
     {"Tuya-ZG-001", "TS0011-MS", "TS011F-BD-PM", "TS011F-BORUIDAPLS-PM", "TS0001-AVT",
      "TS0001-BSMN", "TS0001-HMT", "TS0001-IHS-T", "TS0001-CUS"})
  \cup Configs(Of(<<"L", "S", "R", "S", "R", "M">>),
     {"TS0002-SC", "TS0002-AVT", "TS0002-BSMN", "TS0002-HMT", "TS0002-IHS-T"})
  \cup Configs(Of(<<"L", "S", "R">>),
     {"TS0001-QS-custom"})
  \cup Configs(Of(<<"L", "S", "R", "S", "R", "S", "R", "M">>),
     {"TS0003-AVT", "Avatto-3-touch", "TS0003-BSDB", "TS0003-BSEED", "TS0003-BSMN", "TS0003-BS",
      "TS0003-HMT", "TS0003-IHS-T", "TS0003-TB"})

\* Switches and relays with indicators.
indicated_switches ==
  Configs(Of(<<"L", "S", "R", "I", "M">>),
     {"DEV-ZTU2", "TS011F-TD", "TS011F-BS-PM", "TS011F-BS-PM-1", "TS011F-BS-PM-2", "TS011F-BS",
      "TS0001-BSDB", "TS0001-BS-T", "TS0001-CUS-T", "TS0001-BS12", "TS0011-BS-T", "TS0726-1-BS",
      "TS0726-1-BSL", "TS0001-PST", "TS0001-PS", "T441"})
  \cup Configs(Of(<<"L", "S", "R", "I", "S", "R", "I", "M">>),
     {"TS011F-MG", "TS0002-BSDB", "TS0002-BS-1", "Bseed-2-gang", "Bseed-2-gang-ED",
      "Bseed-2-gang-3", "TS0726-2-BS", "TS0726-2-BSL", "TS0002-PST", "TS0002-PS", "T442"})
  \cup Configs(Of(<<"S", "R", "I", "M">>),
     {"TS011F-MOES", "TS011F-TPM", "TS011F-AB-PM", "TS0001-LK", "TS011F-LIDL-PM", "TS0011-MH",
      "TS0011-MHB", "Moes-1-gang", "Moes-1-gang-ED", "TS0011-RSH", "TS0001-TA", "TS0001-TA1",
      "TS0001-LS", "TS0011-ZS"})
  \cup Configs(Of(<<"L", "S", "R", "I", "M", "SLP">>),
     {"BSLR1"})
  \cup Configs(Of(<<"L", "S", "R", "I", "S", "R", "I", "M", "SLP">>),
     {"BSLR2", "Bseed-2-gang-2", "Bseed-2-gang-2-ED"})
  \cup Configs(Of(<<"L", "S", "R", "I", "S", "R", "I", "S", "R", "I", "M", "SLP">>),
     {"BSLR3", "TS0013-2-BS"})
  \cup Configs(Of(<<"L", "S", "R", "I", "S", "R", "M">>),
     {"TS0002-CUS-T", "TS0002-BS22"})
  \cup Configs(Of(<<"L", "S", "R", "I", "S", "R", "I", "S", "R", "I", "M">>),
     {"TS0013-BS", "TS0726-3-BS", "TS0003-PS"})
  \cup Configs(Of(<<"L", "S", "R", "I", "S", "R", "I", "S", "R", "I", "S", "R", "I", "M">>),
     {"BS4", "TS0726-4-BS"})
  \cup Configs(Of(<<"S", "R", "I", "S", "R", "I", "S", "R", "I", "S", "R", "I", "M">>),
     {"Girier-4-gang", "LerLink-4-gang", "MS4", "MS33", "TS0004-TA"})
  \cup Configs(Of(<<"I", "S", "R", "M">>),
     {"TS0001-HBS"})
  \cup Configs(Of(<<"S", "R", "I", "S", "R", "I", "M">>),
     {"LerLink-2-gang", "TS0012-MH", "TS0012-MHB", "Moes-2-gang", "Moes-2-gang-ED", "TS0012-RSH",
      "TS0002-TA", "TS0002-TB", "TS0012-ZS"})
  \cup Configs(Of(<<"S", "R", "I", "S", "R", "I", "S", "R", "I", "M">>),
     {"LerLink-3-gang", "TS0013-MH", "TS0013-MHB", "Moes-3-gang", "Moes-3-gang-ED",
      "ZTS-3W-CUSTOM", "TS0003-TA", "TS0003-TA1"})
  \cup Configs(Of(<<"B", "L", "S", "R", "I">>),
     {"TS0001-MIL"})
  \cup Configs(Of(<<"L", "S", "R", "I", "S", "R", "I">>),
     {"TS0002-YBJ"})
  \cup Configs(Of(<<"L", "S", "R", "I", "S", "R", "I", "S", "R", "I">>),
     {"TS0003-YBJ"})
  \cup Configs(Of(<<"L", "S", "R", "I", "S", "R", "I", "S", "R", "I", "S", "R", "I">>),
     {"TS0004-MIL"})
  \cup Configs(Of(<<"S", "R", "I", "S", "R", "I">>) \o <<[kind |-> "LP", n |-> 50]>> \o Of(<<"M">>),
     {"Zemi-2-gang", "Zemi-2-gang-ED"})

\* Covers and their switches.
cover_modules ==
  Configs(Of(<<"B", "L", "X", "C">>),
     {"TS130F-GIR", "TS130F-NOV"})
  \cup Configs(Of(<<"L", "X", "C", "X", "C">>),
     {"TS130F-GIR-DUAL"})
  \cup Configs(Of(<<"B", "L", "X", "C", "M">>),
     {"TS130F-LT"})

\* Switches that run on a battery.
remotes ==
  Configs(Of(<<"S", "I", "S", "I", "S", "I", "S", "I", "BT", "M">>),
     {"TS0044-HOB", "TS0046-IH", "TS0044-MA", "TS0044-MOES", "TS0044-TUYA", "TS004F-TUYA"})
  \cup Configs(Of(<<"I", "S", "BT", "M">>),
     {"TS0001-HB"})
  \cup Configs(Of(<<"S", "I", "BT", "M">>),
     {"TS0041-IH", "TS0041-MA", "TS0041-TB2", "TS0041-MOES"})
  \cup Configs(Of(<<"L", "S", "S", "S", "S", "BT", "M">>),
     {"TS0044-CUS"})
  \cup Configs(Of(<<"B", "S", "I", "BT", "M">>),
     {"TS004F-LIDL", "TS0041-TB", "TS004F-Loginovo"})
  \cup Configs(Of(<<"S", "I", "S", "I", "BT", "M">>),
     {"TS0042-MA", "TS0042-MOES", "TLSR82xx-2G"})
  \cup Configs(Of(<<"S", "I", "S", "I", "S", "I", "BT", "M">>),
     {"TS0043-MA", "TS0043-MOES", "TS0043-MB"})

device_db == switch_modules \cup plain_switches \cup indicated_switches
               \cup cover_modules \cup remotes
=============================================================================
