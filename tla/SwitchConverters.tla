-------------------------- MODULE SwitchConverters --------------------------
(***************************************************************************)
(* The definitions of zigbee2mqtt/converters/switch_custom.js for wall     *)
(* switches: see Converters.                                               *)
(***************************************************************************)
EXTENDS Romasku

SWITCH_AVATTO_TOUCH_TS0001 == Switch({"TS0001-AVT"}, 1, 0, TRUE)
SWITCH_AVATTO_TOUCH_TS0002 == Switch({"TS0002-AVT"}, 2, 0, TRUE)
SWITCH_AVATTO_TOUCH_TS0003 == Switch({"TS0003-AVT", "Avatto-3-touch"}, 3, 0, TRUE)
SWITCH_AVATTO_TOUCH_TS0004 == Switch({"TS0004-AVT"}, 4, 0, TRUE)
SWITCH_BSEED_TOUCH_BACKLIGHT_TS0001 == Switch({"TS0001-BSDB", "TS0001-BS-T"}, 1, 1, TRUE)
SWITCH_BSEED_TOUCH_BACKLIGHT_TS0002 == Switch({"TS0002-BSDB", "TS0002-BS-1"}, 2, 2, TRUE)
SWITCH_BSEED_TOUCH_BACKLIGHT_TS0003 == Switch({"TS0003-BSDB", "TS0003-BSEED"}, 3, 0, TRUE)
SWITCH_BSEED_TOUCH_LATCHING_TS0011 == Switch({"BSLR1"}, 1, 1, TRUE)
SWITCH_BSEED_TOUCH_LATCHING_TS0012 ==
  Switch({"BSLR2", "Bseed-2-gang-2", "Bseed-2-gang-2-ED"}, 2, 2, TRUE)
SWITCH_BSEED_TOUCH_LATCHING_TS0013 == Switch({"BSLR3", "TS0013-2-BS"}, 3, 3, TRUE)
SWITCH_BSEED_TOUCH_MELODY_TS0001 == Switch({"TS0001-BSMN"}, 1, 0, TRUE)
SWITCH_BSEED_TOUCH_MELODY_TS0002 == Switch({"TS0002-BSMN"}, 2, 0, TRUE)
SWITCH_BSEED_TOUCH_MELODY_TS0003 == Switch({"TS0003-BSMN", "TS0003-BS"}, 3, 0, TRUE)
SWITCH_BSEED_TOUCH_MELODY_TS0004 == Switch({"TS0004-BSMN", "TS0004-BS"}, 4, 0, TRUE)
SWITCH_BSEED_TOUCH_TS0001 == Switch({"TS0001-CUS-T"}, 1, 1, TRUE)
SWITCH_BSEED_TOUCH_TS0001_2 == Switch({"TS0001-BS12"}, 1, 1, TRUE)
SWITCH_BSEED_TOUCH_TS0002 == Switch({"TS0002-CUS-T"}, 2, 1, TRUE)
SWITCH_BSEED_TOUCH_TS0002_2 == Switch({"TS0002-BS22"}, 2, 1, TRUE)
SWITCH_BSEED_TOUCH_TS0011 == Switch({"TS0011-BS-T"}, 1, 1, TRUE)
SWITCH_BSEED_TOUCH_TS0012_1 == Switch({"Bseed-2-gang", "Bseed-2-gang-ED"}, 2, 2, TRUE)
SWITCH_BSEED_TOUCH_TS0012_2 == Switch({"Bseed-2-gang-3"}, 2, 2, TRUE)
SWITCH_BSEED_TOUCH_TS0013 == Switch({"TS0013-BS"}, 3, 3, TRUE)
SWITCH_BSEED_TS0726_1GANG == Switch({"TS0726-1-BS"}, 1, 1, TRUE)
SWITCH_BSEED_TS0726_2GANG == Switch({"TS0726-2-BS"}, 2, 2, TRUE)
SWITCH_BSEED_TS0726_3GANG == Switch({"TS0726-3-BS"}, 3, 3, TRUE)
SWITCH_BSEED_TS0726_4GANG == Switch({"BS4", "TS0726-4-BS"}, 4, 4, TRUE)
SWITCH_BSEED_TS0726_L_1GANG == Switch({"TS0726-1-BSL"}, 1, 1, TRUE)
SWITCH_BSEED_TS0726_L_2GANG == Switch({"TS0726-2-BSL"}, 2, 2, TRUE)
SWITCH_BSEED_TS0726_L_3GANG_2 == Switch({"TS0726-3-BS"}, 3, 3, TRUE)
SWITCH_GIRIER_TS0014 == Switch({"Girier-4-gang"}, 4, 4, FALSE)
SWITCH_HOBEIAN_TS0011 == Switch({"TS0001-HBS"}, 1, 1, FALSE)
SWITCH_HOMEETEC_TOUCH_TS0001 == Switch({"TS0001-HMT"}, 1, 0, TRUE)
SWITCH_HOMEETEC_TOUCH_TS0002 == Switch({"TS0002-HMT"}, 2, 0, TRUE)
SWITCH_HOMEETEC_TOUCH_TS0003 == Switch({"TS0003-HMT"}, 3, 0, TRUE)
SWITCH_IHSENO_TS0001 == Switch({"TS0001-IHS-T"}, 1, 0, TRUE)
SWITCH_IHSENO_TS0002 == Switch({"TS0002-IHS-T"}, 2, 0, TRUE)
SWITCH_IHSENO_TS0003 == Switch({"TS0003-IHS-T"}, 3, 0, TRUE)
SWITCH_LERLINK_TS0012 == Switch({"LerLink-2-gang"}, 2, 2, FALSE)
SWITCH_LERLINK_TS0013 == Switch({"LerLink-3-gang"}, 3, 3, FALSE)
SWITCH_LERLINK_TS0014 == Switch({"LerLink-4-gang"}, 4, 4, FALSE)
SWITCH_LORATAP_TS130F == Cover({"TS130F-LT"}, 1)
SWITCH_MANHOT_A_TS0011 == Switch({"TS0011-MH"}, 1, 1, FALSE)
SWITCH_MANHOT_A_TS0012 == Switch({"TS0012-MH"}, 2, 2, FALSE)
SWITCH_MANHOT_A_TS0013 == Switch({"TS0013-MH"}, 3, 3, FALSE)
SWITCH_MANHOT_B_TS0011 == Switch({"TS0011-MHB"}, 1, 1, FALSE)
SWITCH_MANHOT_B_TS0012 == Switch({"TS0012-MHB"}, 2, 2, FALSE)
SWITCH_MANHOT_B_TS0013 == Switch({"TS0013-MHB"}, 3, 3, FALSE)
SWITCH_MILFRA_TS0001 == Switch({"TS0001-MIL"}, 1, 1, TRUE)
SWITCH_MILFRA_TS0002 == Switch({"TS0002-YBJ"}, 2, 2, TRUE)
SWITCH_MILFRA_TS0003 == Switch({"TS0003-YBJ"}, 3, 3, TRUE)
SWITCH_MILFRA_TS0003_1 == Switch({"TS0003-YBJ"}, 3, 3, TRUE)
SWITCH_MILFRA_TS0004 == Switch({"TS0004-MIL"}, 4, 4, TRUE)
SWITCH_MOES_ALL_TS0011 == Switch({"Moes-1-gang", "Moes-1-gang-ED"}, 1, 1, FALSE)
SWITCH_MOES_ALL_TS0012 == Switch({"Moes-2-gang", "Moes-2-gang-ED"}, 2, 2, FALSE)
SWITCH_MOES_ALL_TS0013 == Switch({"Moes-3-gang", "Moes-3-gang-ED"}, 3, 3, FALSE)
SWITCH_MOES_ALL_TS0014 == Switch({"MS4"}, 4, 4, FALSE)
SWITCH_MOES_SCENE_TS0726_3GANG_3SCENE == Switch({"MS33"}, 4, 4, FALSE)
SWITCH_NOVADIGITAL_TS0003 == Switch({"ZTS-3W-CUSTOM"}, 3, 3, FALSE)
SWITCH_PSMART_TL_TS0001 == Switch({"TS0001-PST"}, 1, 1, TRUE)
SWITCH_PSMART_TL_TS0002 == Switch({"TS0002-PST"}, 2, 2, TRUE)
SWITCH_PSMART_SL_TS0001 == Switch({"TS0001-PS", "T441"}, 1, 1, TRUE)
SWITCH_PSMART_SL_TS0002 == Switch({"TS0002-PS", "T442"}, 2, 2, TRUE)
SWITCH_PSMART_SL_TS0003 == Switch({"TS0003-PS"}, 3, 3, TRUE)
SWITCH_RETLUX_TS0011 == Switch({"TS0011-RSH"}, 1, 1, FALSE)
SWITCH_RETLUX_TS0012 == Switch({"TS0012-RSH"}, 2, 2, FALSE)
SWITCH_TUYA_A_TS0001 == Switch({"TS0001-TA"}, 1, 1, FALSE)
SWITCH_TUYA_A_TS0001_1 == Switch({"TS0001-TA1", "TS0001-LS"}, 1, 1, FALSE)
SWITCH_TUYA_A_TS0002 == Switch({"TS0002-TA"}, 2, 2, FALSE)
SWITCH_TUYA_A_TS0003 == Switch({"TS0003-TA"}, 3, 3, FALSE)
SWITCH_TUYA_A_TS0003_1 == Switch({"TS0003-TA1"}, 3, 3, FALSE)
SWITCH_TUYA_A_TS0004 == Switch({"TS0004-TA"}, 4, 4, FALSE)
SWITCH_TUYA_B_TS0002 == Switch({"TS0002-TB"}, 2, 2, FALSE)
SWITCH_TUYA_CN_TS0001 == Switch({"TS0001-CUS"}, 1, 0, TRUE)
SWITCH_TUYA_CN_TS0004 == Switch({"TS0004-CUS"}, 4, 0, TRUE)
SWITCH_TUYA_TOUCH_TS0003 == Switch({"TS0003-TB"}, 3, 0, TRUE)
SWITCH_ZEMISMART_1_TS0012 == Switch({"Zemi-2-gang", "Zemi-2-gang-ED"}, 2, 2, TRUE)
SWITCH_ZEMISMART_2_TS0011 == Switch({"TS0011-ZS"}, 1, 1, FALSE)
SWITCH_ZEMISMART_2_TS0012 == Switch({"TS0012-ZS"}, 2, 2, FALSE)
=============================================================================
