----------------------------- MODULE Converters -----------------------------
(***************************************************************************)
(* The definitions of zigbee2mqtt/converters/switch_custom.js, each named  *)
(* by the key that the device has in device_db.yaml; those of the wall     *)
(* switches are in SwitchConverters. The converters for Zigbee2MQTT 1      *)
(* (converters_v1) have the same definitions but for the field "ota".      *)
(***************************************************************************)
EXTENDS SwitchConverters

BOARD__MHCOZY_TS0004 == Switch({"TS0004-MC"}, 4, 0, TRUE)
BOARD__MHCOZY_TS0004_1 == Switch({"TS0004-MC1"}, 4, 0, TRUE)
BOARD__MHCOZY_TS0004_2 == Switch({"TS0004-MC2"}, 4, 0, TRUE)
BOARD__MHCOZY_TS0004_3 == Switch({"TS0004-MC3"}, 4, 0, TRUE)
BOARD__SCIMAGIC_TS0001 == Switch({"Tuya-ZG-001"}, 1, 0, TRUE)
BOARD__SCIMAGIC_TS0002 == Switch({"TS0002-SC"}, 2, 0, TRUE)
BOARD__SCIMAGIC_TS0002_1 == Switch({"TS0002-SC"}, 2, 0, TRUE)
BOARD__ZIGBEE_ZTU_2 == Switch({"DEV-ZTU2"}, 1, 1, TRUE)
DIN_RELAY_TUYA_TS011F_PM == Switch({"TS011F-TD"}, 1, 1, TRUE)
MODULE_AUBESS_TS0001 == Switch({"WHD02-Aubess", "WHD02-Aubess-ED"}, 1, 0, TRUE)
MODULE_AUBESS_TS0002 == Switch({"TS0002-AUB"}, 2, 0, TRUE)
MODULE_AUBESS_TS0003 == Switch({"TS0003-AUB"}, 3, 0, TRUE)
MODULE_AUBESS_TS0004 == Switch({"TS0004-custom"}, 4, 0, TRUE)
MODULE_AVATTO_A_TS0001 ==
  Switch({"TS0001-AVB", "TS0001-Avatto-custom", "TS0001-AV-CUS"}, 1, 0, TRUE)
MODULE_AVATTO_A_TS0002 ==
  Switch({"TS0002-AVB", "TS0002-Avatto-custom", "TS0002-AV-CUS"}, 2, 0, TRUE)
MODULE_AVATTO_A_TS0003 ==
  Switch({"TS0003-AVB", "TS0003-Avatto-custom", "TS0003-AV-CUS"}, 3, 0, TRUE)
MODULE_AVATTO_A_TS0004 ==
  Switch({"TS0004-AVB", "TS0004-Avatto-custom", "TS0004-AV-CUS"}, 4, 0, TRUE)
MODULE_AVATTO_B_TS0003 == Switch({"TS0003-AVB2"}, 3, 0, TRUE)
MODULE_AVATTO_B_TS0004 == Switch({"TS0004-AVB2"}, 4, 0, TRUE)
MODULE_AVATTO_DRY_TS0001 == Switch({"TS0001-AV-DRY"}, 1, 0, TRUE)
MODULE_AVATTO_TS0011 == Switch({"TS0011-avatto", "TS0011-avatto-ED"}, 1, 0, TRUE)
MODULE_AVATTO_TS0012 == Switch({"TS0012-avatto", "TS0012-avatto-ED"}, 2, 0, TRUE)
MODULE_AVATTO_TS0012_1 == Switch({"TS0012-AVB1"}, 2, 0, TRUE)
MODULE_AVATTO_TS0013 == Switch({"TS0013-AVB"}, 3, 0, TRUE)
MODULE_EKAZA_TS0002 == Switch({"EKAC-T3092Z-CUSTOM"}, 2, 0, TRUE)
MODULE_EKF_TS0012 == Switch({"TS0012-EKF"}, 2, 0, TRUE)
MODULE_EMOS_TS0001 == Switch({"TS0001-GS"}, 1, 0, TRUE)
MODULE_EMOS_TS0002 == Switch({"TS0002-GS"}, 2, 0, TRUE)
MODULE_FARYLINK_TS0002 == Switch({"TS0002-NS"}, 2, 0, TRUE)
MODULE_FARYLINK_L_TS0001 == Switch({"TS0001-FL", "TS0002-FL"}, 1, 0, TRUE)
MODULE_GIRIER_A_TS0003 == Switch({"TS0003-GRA", "TS0003-GR"}, 3, 0, TRUE)
MODULE_GIRIER_B_TS0001 == Switch({"TS0001-GRA"}, 1, 0, TRUE)
MODULE_GIRIER_B_TS0012 == Switch({"TS0012-C"}, 2, 0, TRUE)
MODULE_GIRIER_DRY_TS0001 == Switch({"TS0001-GD"}, 1, 0, TRUE)
MODULE_GIRIER_TS0001 == Switch({"TS0001-GIR"}, 1, 0, TRUE)
MODULE_GIRIER_TS0002 == Switch({"TS0002-GIR", "TS0002-custom"}, 2, 0, TRUE)
MODULE_GIRIER_TS130F_1GANG == Cover({"TS130F-GIR"}, 1)
MODULE_GIRIER_TS130F_2GANG == Cover({"TS130F-GIR-DUAL"}, 2)
MODULE_GIRIER_ZTU_TS0001 == Switch({"TS0001-GIR-1"}, 1, 0, TRUE)
MODULE_HOBEIAN_MINI_TS0001 == Switch({"TS0001-HOBM"}, 1, 0, TRUE)
MODULE_HOBEIAN_MINI_TS0002 == Switch({"TS0002-HOBM"}, 2, 0, TRUE)
MODULE_HOBEIAN_MINI_TS0003 == Switch({"TS0003-HOBM"}, 3, 0, TRUE)
MODULE_HOBEIAN_TS0001_1 == Switch({"TS0001-HOB1"}, 1, 0, TRUE)
MODULE_HOBEIAN_TS0001_2 == Switch({"TS0001-HOB"}, 1, 0, TRUE)
MODULE_HOMMYN_TS0002 == Switch({"Hommyn-RLZBN02"}, 2, 0, TRUE)
MODULE_HOMMYN_TS0011 == Switch({"TS0011-HOMMYN"}, 1, 0, TRUE)
MODULE_HOMMYN_TS0012 == Switch({"Hommyn-2"}, 2, 0, TRUE)
MODULE_IHSENO_TS0001 == Switch({"TS0001-IHS"}, 1, 0, TRUE)
MODULE_IHSENO_TS0002 == Switch({"TS0002-IHS"}, 2, 0, TRUE)
MODULE_IHSENO_TS0003 == Switch({"TS0003-IHS", "TS0003-3CH-cus"}, 3, 0, TRUE)
MODULE_IHSENO_TS0004 == Switch({"TS0004-IHS"}, 4, 0, TRUE)
MODULE_IHSENO_A_TS0001 == Switch({"TS0001-IHA"}, 1, 0, TRUE)
MODULE_IHSENO_B_TS0001 == Switch({"iHSW02-MiniSmartSw"}, 1, 0, TRUE)
MODULE_LVGESS_PM_TSOOO1 == Switch({"TS0001-PWR"}, 1, 0, TRUE)
MODULE_MOES_TS0002 == Switch({"TS0002-MSB"}, 2, 0, TRUE)
MODULE_MOES_TS0003 == Switch({"TS0003-custom"}, 3, 0, FALSE)
MODULE_MOES_TS0011 == Switch({"TS0011-MS"}, 1, 0, TRUE)
MODULE_MOES_ZM4LT2_TS0002 == Switch({"TS0002-MS"}, 2, 0, TRUE)
MODULE_MOES_ZM4LT3_TS0003 == Switch({"TS0003-MS"}, 3, 0, TRUE)
MODULE_MOES_ZM4LT4_TS0004 == Switch({"TS0004-MS"}, 4, 0, TRUE)
MODULE_NOUS_B1Z_TS0001 == Switch({"TS0001-nous"}, 1, 0, TRUE)
MODULE_NOVADIGITAL_TS0001 == Switch({"MS105-ZB-CUSTOM"}, 1, 0, TRUE)
MODULE_SONOFF_ZBMINIL2 == Switch({"ZBMINIL2-custom"}, 1, 0, TRUE)
MODULE_TLED_TS0001 == Switch({"TS0001-TLED"}, 1, 0, TRUE)
MODULE_TUYA_A_TS0002 == Switch({"TS0002-N1J44RTH"}, 2, 0, TRUE)
MODULE_TUYA_A_TS0003 == Switch({"TS0003-UWHJGNGJ"}, 3, 0, TRUE)
MODULE_TUYA_B_TS0004 == Switch({"TS0004-B"}, 4, 0, TRUE)
MODULE_TUYA_COMMON_TS0001 == Switch({"TS0001-C"}, 1, 0, TRUE)
MODULE_TUYA_COMMON_TS0001_2 == Switch({"TS0001-SB"}, 1, 0, TRUE)
MODULE_TUYA_COMMON_TS0002 == Switch({"TS0002-C", "TS0002-SB"}, 2, 0, TRUE)
MODULE_TUYA_COMMON_TS0004 == Switch({"TS0004-SB"}, 4, 0, TRUE)
MODULE_TUYA_COMMON2_TS0003 == Switch({"TS0003-SB"}, 3, 0, TRUE)
MODULE_TUYA_DEFAULT_A_TS0001 == Switch({"WHD02-custom"}, 1, 0, TRUE)
MODULE_TUYA_DEFAULT_A_TS0001_2 == Switch({"WHD02-custom"}, 1, 0, TRUE)
MODULE_TUYA_DEFAULT_B_TS0001 == Switch({"WHD02-custom"}, 1, 0, TRUE)
MODULE_TUYA_DEFAULT_C_TS0001 == Switch({"TS0001-CC"}, 1, 0, TRUE)
MODULE_TUYA_GIRIER_TS0011 == Switch({"TS0011-custom"}, 1, 0, TRUE)
MODULE_TUYA_GIRIER_TS0011_2 == Switch({"TS0011-CUS-2"}, 1, 0, TRUE)
MODULE_TUYA_GIRIER_TS0012 ==
  Switch({"TS0012-custom", "TS0042-CUSTOM", "TS0012-custom-end-device"}, 2, 0, TRUE)
MODULE_TUYA_GIRIER_TS0013 == Switch({"ZB08-custom", "ZB08-custom-ED"}, 3, 0, TRUE)
MODULE_TUYA_NOVATO_QS_S05_TS0001 == Switch({"TS0001-QS-custom"}, 1, 0, TRUE)
MODULE_TUYA_NOVATO_QS_S05_TS0011 == Switch({"TS0011-S05"}, 1, 0, TRUE)
MODULE_TUYA_NOVATO_TS0002 == Switch({"TS0002-QS"}, 2, 0, TRUE)
MODULE_TUYA_NOVATO_TS0003 == Switch({"TS0003-Avv"}, 3, 0, TRUE)
MODULE_TUYA_NOVATO_TS000F_1GANG == Switch({"NovatoZRM01"}, 1, 0, TRUE)
MODULE_TUYA_NOVATO_TS000F_2GANG == Switch({"NovatoZRM02"}, 2, 0, TRUE)
MODULE_TUYA_NOVATO_TS0011 == Switch({"NovatoZNR01"}, 1, 0, TRUE)
MODULE_TUYA_NOVATO_TS0012 == Switch({"TS0012-QS"}, 2, 0, TRUE)
MODULE_TUYA_NOVATO_TS130F == Cover({"TS130F-NOV"}, 1)
MODULE_TUYA_OXT_A_TS0003 == Switch({"TS0003-C"}, 3, 0, TRUE)
MODULE_TUYA_OXT_TS0001 == Switch({"TS0001-custom"}, 1, 0, TRUE)
MODULE_TUYA_OXT_TS0002 == Switch({"TS0002-OXT-CUS"}, 2, 0, TRUE)
MODULE_TUYA_TS0002 == Switch({"TS0002-custom"}, 2, 0, TRUE)
MODULE_TUYA_TS011F == Switch({"TS011F-TUYA"}, 1, 0, TRUE)
MODULE_TUYA_ZS2S_TS0001 == Switch({"TS0001-TS"}, 1, 0, TRUE)
MODULE_TUYA_ZTU_TS0001 == Switch({"TS0001-ZTU"}, 1, 0, TRUE)
MODULE_TUYA_ZTU_TS0004 == Switch({"TS0004-Avv"}, 4, 0, TRUE)
MODULE_UNSH_TS0002 == Switch({"TS0002-NS1"}, 2, 0, TRUE)
MODULE_YNTDQ_TS0001 == Switch({"TS0001-YNTDQ"}, 1, 0, TRUE)
MODULE_ZBEACON_TS0002 == Switch({"TS0002-ZB"}, 2, 0, TRUE)
OUTLET_BSEED_BORUIDAPLS_PM_TS011F == Switch({"TS011F-BD-PM", "TS011F-BORUIDAPLS-PM"}, 1, 0, TRUE)
OUTLET_BSEED_PM_TS011F == Switch({"TS011F-BS-PM"}, 1, 1, TRUE)
OUTLET_BSEED_PM_TS011F_1 == Switch({"TS011F-BS-PM-1"}, 1, 1, TRUE)
OUTLET_BSEED_PM_TS011F_2 == Switch({"TS011F-BS-PM-2"}, 1, 1, TRUE)
OUTLET_BSEED_TS011F == Switch({"TS011F-BS"}, 1, 1, TRUE)
OUTLET_MAKEGOOD_PM_TS011F_2GANG == Switch({"TS011F-MG"}, 2, 2, TRUE)
OUTLET_MOES_PM_TS011F == Switch({"TS011F-MOES"}, 1, 1, FALSE)
OUTLET_TUYA_PM_TS011F == Switch({"TS011F-TPM"}, 1, 1, FALSE)
PLUG___AUBESS_PM_TS011F == Switch({"TS011F-AB-PM"}, 1, 1, FALSE)
PLUG___LELLKI_TS0001 == Switch({"TS0001-LK"}, 1, 1, FALSE)
PLUG___LIDL_PM_TS011F == Switch({"TS011F-LIDL-PM"}, 1, 1, FALSE)
REMOTE_HOBEIAN_TS0044 == Remote({"TS0044-HOB"}, 4, FALSE)
REMOTE_HOBEIAN_BUTTON_TS0001 == Remote({"TS0001-HB"}, 1, FALSE)
REMOTE_IHSENO_BUTTON_TS0041 == Remote({"TS0041-IH"}, 1, FALSE)
REMOTE_IHSENO_TS0044 == Remote({"TS0044-CUS"}, 4, TRUE)
REMOTE_IHSENO_TS0046 == Remote({"TS0046-IH"}, 4, FALSE)
REMOTE_LIDL_BUTTON_TS004F == Remote({"TS004F-LIDL"}, 1, FALSE)
REMOTE_MOES_SWITCH_A_TS0041 == Remote({"TS0041-MA"}, 1, FALSE)
REMOTE_MOES_SWITCH_A_TS0042 == Remote({"TS0042-MA"}, 2, FALSE)
REMOTE_MOES_SWITCH_A_TS0043 == Remote({"TS0043-MA"}, 3, FALSE)
REMOTE_MOES_SWITCH_A_TS0044 == Remote({"TS0044-MA"}, 4, FALSE)
REMOTE_MOES_SWITCH_TS0044 == Remote({"TS0044-MOES"}, 4, FALSE)
REMOTE_TUYA_BUTTON_TS0041 == Remote({"TS0041-TB"}, 1, FALSE)
REMOTE_TUYA_BUTTON_TS0041_2 == Remote({"TS0041-TB2"}, 1, FALSE)
REMOTE_TUYA_SWITCH_TS0041 == Remote({"TS0041-MOES"}, 1, FALSE)
REMOTE_TUYA_SWITCH_TS0042 == Remote({"TS0042-MOES"}, 2, FALSE)
REMOTE_TUYA_SWITCH_TS0043 == Remote({"TS0043-MOES"}, 3, FALSE)
REMOTE_TUYA_SWITCH_TS0043_1 == Remote({"TS0043-MB"}, 3, FALSE)
REMOTE_TUYA_TS0044 == Remote({"TS0044-TUYA"}, 4, FALSE)
REMOTE_TUYA_TLSR82XX_2GANG == Remote({"TLSR82xx-2G"}, 2, FALSE)
REMOTE_TUYA_TS004F_2 == Remote({"TS004F-Loginovo"}, 1, FALSE)
REMOTE_TUYA_TS004F == Remote({"TS004F-TUYA"}, 4, FALSE)

\* module.exports.
definitions ==
  {BOARD__MHCOZY_TS0004, BOARD__MHCOZY_TS0004_1, BOARD__MHCOZY_TS0004_2, BOARD__MHCOZY_TS0004_3,
    BOARD__SCIMAGIC_TS0001, BOARD__SCIMAGIC_TS0002, BOARD__SCIMAGIC_TS0002_1,
    BOARD__ZIGBEE_ZTU_2, DIN_RELAY_TUYA_TS011F_PM, MODULE_AUBESS_TS0001, MODULE_AUBESS_TS0002,
    MODULE_AUBESS_TS0003, MODULE_AUBESS_TS0004, MODULE_AVATTO_A_TS0001, MODULE_AVATTO_A_TS0002,
    MODULE_AVATTO_A_TS0003, MODULE_AVATTO_A_TS0004, MODULE_AVATTO_B_TS0003,
    MODULE_AVATTO_B_TS0004, MODULE_AVATTO_DRY_TS0001, MODULE_AVATTO_TS0011, MODULE_AVATTO_TS0012,
    MODULE_AVATTO_TS0012_1, MODULE_AVATTO_TS0013, MODULE_EKAZA_TS0002, MODULE_EKF_TS0012,
    MODULE_EMOS_TS0001, MODULE_EMOS_TS0002, MODULE_FARYLINK_TS0002, MODULE_FARYLINK_L_TS0001,
    MODULE_GIRIER_A_TS0003, MODULE_GIRIER_B_TS0001, MODULE_GIRIER_B_TS0012,
    MODULE_GIRIER_DRY_TS0001, MODULE_GIRIER_TS0001, MODULE_GIRIER_TS0002,
    MODULE_GIRIER_TS130F_1GANG, MODULE_GIRIER_TS130F_2GANG, MODULE_GIRIER_ZTU_TS0001,
    MODULE_HOBEIAN_MINI_TS0001, MODULE_HOBEIAN_MINI_TS0002, MODULE_HOBEIAN_MINI_TS0003,
    MODULE_HOBEIAN_TS0001_1, MODULE_HOBEIAN_TS0001_2, MODULE_HOMMYN_TS0002, MODULE_HOMMYN_TS0011,
    MODULE_HOMMYN_TS0012, MODULE_IHSENO_TS0001, MODULE_IHSENO_TS0002, MODULE_IHSENO_TS0003,
    MODULE_IHSENO_TS0004, MODULE_IHSENO_A_TS0001, MODULE_IHSENO_B_TS0001,
    MODULE_LVGESS_PM_TSOOO1, MODULE_MOES_TS0002, MODULE_MOES_TS0003, MODULE_MOES_TS0011,
    MODULE_MOES_ZM4LT2_TS0002, MODULE_MOES_ZM4LT3_TS0003, MODULE_MOES_ZM4LT4_TS0004,
    MODULE_NOUS_B1Z_TS0001, MODULE_NOVADIGITAL_TS0001, MODULE_SONOFF_ZBMINIL2,
    MODULE_TLED_TS0001, MODULE_TUYA_A_TS0002, MODULE_TUYA_A_TS0003, MODULE_TUYA_B_TS0004,
    MODULE_TUYA_COMMON_TS0001, MODULE_TUYA_COMMON_TS0001_2, MODULE_TUYA_COMMON_TS0002,
    MODULE_TUYA_COMMON_TS0004, MODULE_TUYA_COMMON2_TS0003, MODULE_TUYA_DEFAULT_A_TS0001,
    MODULE_TUYA_DEFAULT_A_TS0001_2, MODULE_TUYA_DEFAULT_B_TS0001, MODULE_TUYA_DEFAULT_C_TS0001,
    MODULE_TUYA_GIRIER_TS0011, MODULE_TUYA_GIRIER_TS0011_2, MODULE_TUYA_GIRIER_TS0012,
    MODULE_TUYA_GIRIER_TS0013, MODULE_TUYA_NOVATO_QS_S05_TS0001,
    MODULE_TUYA_NOVATO_QS_S05_TS0011, MODULE_TUYA_NOVATO_TS0002, MODULE_TUYA_NOVATO_TS0003,
    MODULE_TUYA_NOVATO_TS000F_1GANG, MODULE_TUYA_NOVATO_TS000F_2GANG, MODULE_TUYA_NOVATO_TS0011,
    MODULE_TUYA_NOVATO_TS0012, MODULE_TUYA_NOVATO_TS130F, MODULE_TUYA_OXT_A_TS0003,
    MODULE_TUYA_OXT_TS0001, MODULE_TUYA_OXT_TS0002, MODULE_TUYA_TS0002, MODULE_TUYA_TS011F,
    MODULE_TUYA_ZS2S_TS0001, MODULE_TUYA_ZTU_TS0001, MODULE_TUYA_ZTU_TS0004, MODULE_UNSH_TS0002,
    MODULE_YNTDQ_TS0001, MODULE_ZBEACON_TS0002, OUTLET_BSEED_BORUIDAPLS_PM_TS011F,
    OUTLET_BSEED_PM_TS011F, OUTLET_BSEED_PM_TS011F_1, OUTLET_BSEED_PM_TS011F_2,
    OUTLET_BSEED_TS011F, OUTLET_MAKEGOOD_PM_TS011F_2GANG, OUTLET_MOES_PM_TS011F,
    OUTLET_TUYA_PM_TS011F, PLUG___AUBESS_PM_TS011F, PLUG___LELLKI_TS0001, PLUG___LIDL_PM_TS011F,
    REMOTE_HOBEIAN_TS0044, REMOTE_HOBEIAN_BUTTON_TS0001, REMOTE_IHSENO_BUTTON_TS0041,
    REMOTE_IHSENO_TS0044, REMOTE_IHSENO_TS0046, REMOTE_LIDL_BUTTON_TS004F,
    REMOTE_MOES_SWITCH_A_TS0041, REMOTE_MOES_SWITCH_A_TS0042, REMOTE_MOES_SWITCH_A_TS0043,
    REMOTE_MOES_SWITCH_A_TS0044, REMOTE_MOES_SWITCH_TS0044, REMOTE_TUYA_BUTTON_TS0041,
    REMOTE_TUYA_BUTTON_TS0041_2, REMOTE_TUYA_SWITCH_TS0041, REMOTE_TUYA_SWITCH_TS0042,
    REMOTE_TUYA_SWITCH_TS0043, REMOTE_TUYA_SWITCH_TS0043_1, REMOTE_TUYA_TS0044,
    REMOTE_TUYA_TLSR82XX_2GANG, REMOTE_TUYA_TS004F_2, REMOTE_TUYA_TS004F,
    SWITCH_AVATTO_TOUCH_TS0001, SWITCH_AVATTO_TOUCH_TS0002, SWITCH_AVATTO_TOUCH_TS0003,
    SWITCH_AVATTO_TOUCH_TS0004, SWITCH_BSEED_TOUCH_BACKLIGHT_TS0001,
    SWITCH_BSEED_TOUCH_BACKLIGHT_TS0002, SWITCH_BSEED_TOUCH_BACKLIGHT_TS0003,
    SWITCH_BSEED_TOUCH_LATCHING_TS0011, SWITCH_BSEED_TOUCH_LATCHING_TS0012,
    SWITCH_BSEED_TOUCH_LATCHING_TS0013, SWITCH_BSEED_TOUCH_MELODY_TS0001,
    SWITCH_BSEED_TOUCH_MELODY_TS0002, SWITCH_BSEED_TOUCH_MELODY_TS0003,
    SWITCH_BSEED_TOUCH_MELODY_TS0004, SWITCH_BSEED_TOUCH_TS0001, SWITCH_BSEED_TOUCH_TS0001_2,
    SWITCH_BSEED_TOUCH_TS0002, SWITCH_BSEED_TOUCH_TS0002_2, SWITCH_BSEED_TOUCH_TS0011,
    SWITCH_BSEED_TOUCH_TS0012_1, SWITCH_BSEED_TOUCH_TS0012_2, SWITCH_BSEED_TOUCH_TS0013,
    SWITCH_BSEED_TS0726_1GANG, SWITCH_BSEED_TS0726_2GANG, SWITCH_BSEED_TS0726_3GANG,
    SWITCH_BSEED_TS0726_4GANG, SWITCH_BSEED_TS0726_L_1GANG, SWITCH_BSEED_TS0726_L_2GANG,
    SWITCH_BSEED_TS0726_L_3GANG_2, SWITCH_GIRIER_TS0014, SWITCH_HOBEIAN_TS0011,
    SWITCH_HOMEETEC_TOUCH_TS0001, SWITCH_HOMEETEC_TOUCH_TS0002, SWITCH_HOMEETEC_TOUCH_TS0003,
    SWITCH_IHSENO_TS0001, SWITCH_IHSENO_TS0002, SWITCH_IHSENO_TS0003, SWITCH_LERLINK_TS0012,
    SWITCH_LERLINK_TS0013, SWITCH_LERLINK_TS0014, SWITCH_LORATAP_TS130F, SWITCH_MANHOT_A_TS0011,
    SWITCH_MANHOT_A_TS0012, SWITCH_MANHOT_A_TS0013, SWITCH_MANHOT_B_TS0011,
    SWITCH_MANHOT_B_TS0012, SWITCH_MANHOT_B_TS0013, SWITCH_MILFRA_TS0001, SWITCH_MILFRA_TS0002,
    SWITCH_MILFRA_TS0003, SWITCH_MILFRA_TS0003_1, SWITCH_MILFRA_TS0004, SWITCH_MOES_ALL_TS0011,
    SWITCH_MOES_ALL_TS0012, SWITCH_MOES_ALL_TS0013, SWITCH_MOES_ALL_TS0014,
    SWITCH_MOES_SCENE_TS0726_3GANG_3SCENE, SWITCH_NOVADIGITAL_TS0003, SWITCH_PSMART_TL_TS0001,
    SWITCH_PSMART_TL_TS0002, SWITCH_PSMART_SL_TS0001, SWITCH_PSMART_SL_TS0002,
    SWITCH_PSMART_SL_TS0003, SWITCH_RETLUX_TS0011, SWITCH_RETLUX_TS0012, SWITCH_TUYA_A_TS0001,
    SWITCH_TUYA_A_TS0001_1, SWITCH_TUYA_A_TS0002, SWITCH_TUYA_A_TS0003, SWITCH_TUYA_A_TS0003_1,
    SWITCH_TUYA_A_TS0004, SWITCH_TUYA_B_TS0002, SWITCH_TUYA_CN_TS0001, SWITCH_TUYA_CN_TS0004,
    SWITCH_TUYA_TOUCH_TS0003, SWITCH_ZEMISMART_1_TS0012, SWITCH_ZEMISMART_2_TS0011,
    SWITCH_ZEMISMART_2_TS0012}
=============================================================================
