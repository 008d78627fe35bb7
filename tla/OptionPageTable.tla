-------------------------- MODULE OptionPageTable --------------------------
(***************************************************************************)
(* The settings pages, one record each, and the parents that show them.    *)
(*   sends   "changed": the keys compareObjects finds; "all": every key;   *)
(*           "mixed": some keys always, the others when they have changed  *)
(*   order   "parallel": one Promise.all; "serial": one after the other;   *)
(*           "flagsFirst": the *Enabled keys one by one, then the others   *)
(*   judge   "strict": a refused key makes the save fail; "blind": refused *)
(*           keys are not looked at; "both": the error and the success     *)
(*           message are shown                                             *)
(*   after   "refresh": the parent is asked to reload; "await": and the    *)
(*           page waits for it; "origin": and the values sent become the   *)
(*           ones it compares with; "local", "echo", "none": no reload     *)
(*   spin    the page's own spinner covers its fields while it saves       *)
(*   list    a list editor: it saves when hasChanges is set, and takes the *)
(*           parent's value only when that has changed                     *)
(***************************************************************************)
Page(sends, order, judge, after, spin, list) ==
    [sends |-> sends, order |-> order, judge |-> judge, after |-> after,
     spin |-> spin, list |-> list]

(* compareObjects, then Promise.all; res.includes(undefined) is never true *)
(* of an answered request, so a refusal is reported as a save.             *)
Blind == Page("changed", "parallel", "blind", "refresh", TRUE, FALSE)

(* The same, with a look at data.success of every answer.                  *)
Strict == Page("changed", "parallel", "strict", "refresh", TRUE, FALSE)

(* Every key of the page is sent, whether the user changed it or not.      *)
Whole == Page("all", "parallel", "strict", "refresh", TRUE, FALSE)

(* A list editor with one key.                                             *)
List == Page("all", "parallel", "strict", "refresh", FALSE, TRUE)

(* A table editor whose maps are rebuilt and sent whole.                   *)
Editor == Page("all", "parallel", "strict", "refresh", FALSE, FALSE)

(* components/settings/OperationSetting.jsx *)
SettingsGeneral == Blind
SettingsHeaderNavModules == Page("all", "parallel", "strict", "await", FALSE, FALSE)
SettingsSidebarModulesAdmin == Page("all", "parallel", "strict", "await", FALSE, FALSE)
SettingsSensitiveWords == Blind
SettingsLog == Blind
SettingsMonitoring == Blind
SettingsCreditLimit == Blind

OperationSetting ==
    {SettingsGeneral, SettingsHeaderNavModules, SettingsSidebarModulesAdmin,
     SettingsSensitiveWords, SettingsLog, SettingsMonitoring,
     SettingsCreditLimit}

(* components/settings/DrawingSetting.jsx *)
SettingsDrawing == Blind

DrawingSetting == {SettingsDrawing}

(* components/settings/DashboardSetting.jsx *)
DataDashboard == Blind
SettingsAnnouncements == List
SettingsAPIInfo == List
SettingsFAQ == List
SettingsUptimeKuma == List

DashboardSetting ==
    {DataDashboard, SettingsAnnouncements, SettingsAPIInfo, SettingsFAQ,
     SettingsUptimeKuma}

(* components/settings/ModelSetting.jsx *)
SettingGlobalModel == Blind
SettingGeminiModel == Blind
SettingClaudeModel == Blind

ModelSetting == {SettingGlobalModel, SettingGeminiModel, SettingClaudeModel}

(* components/settings/RateLimitSetting.jsx *)
RequestRateLimit == Strict

RateLimitSetting == {RequestRateLimit}

(* components/settings/RatioSetting.jsx *)
GroupSettings == Whole
ModelRatioSettings == Strict
GroupRatioSettings == Strict
ModelSettingsVisualEditor == Editor
ModelRatioNotSetEditor == Editor
UpstreamRatioSync == Editor

RatioSetting ==
    {GroupSettings, ModelRatioSettings, GroupRatioSettings,
     ModelSettingsVisualEditor, ModelRatioNotSetEditor, UpstreamRatioSync}

(* components/settings/PaymentSetting.jsx *)
SettingsGeneralPayment == Whole
SettingsPaymentGateway == Page("mixed", "parallel", "strict", "origin", TRUE, FALSE)
SettingsPaymentGatewayStripe == Page("mixed", "parallel", "strict", "origin", TRUE, FALSE)
SettingsPaymentGatewayCreem == Page("all", "parallel", "strict", "origin", TRUE, FALSE)
SettingsPaymentBankAccount == Page("all", "serial", "strict", "none", TRUE, FALSE)

PaymentSetting ==
    {SettingsGeneralPayment, SettingsPaymentGateway,
     SettingsPaymentGatewayStripe, SettingsPaymentGatewayCreem,
     SettingsPaymentBankAccount}

(* components/settings/ChatsSetting.jsx *)
SettingsChats == Blind

ChatsSetting == {SettingsChats}

(* components/settings/SystemSetting.jsx: the blocks of one form, all      *)
(* saved by updateOptions.                                                 *)
updateOptions(sends) == Page(sends, "flagsFirst", "both", "local", FALSE, FALSE)

submitWorker == updateOptions("all")
submitServerAddress == updateOptions("all")
submitSMTP == updateOptions("changed")
submitEmailDomainWhitelist == updateOptions("all")
submitSSRF == updateOptions("all")
submitWeChat == updateOptions("changed")
submitGitHubOAuth == updateOptions("changed")
submitDiscordOAuth == updateOptions("changed")
submitOIDCSettings == updateOptions("changed")
submitTelegramSettings == updateOptions("all")
submitTurnstile == updateOptions("changed")
submitLinuxDOOAuth == updateOptions("changed")

SystemSetting ==
    {submitWorker, submitServerAddress, submitSMTP, submitEmailDomainWhitelist,
     submitSSRF, submitWeChat, submitGitHubOAuth, submitDiscordOAuth,
     submitOIDCSettings, submitTelegramSettings, submitTurnstile,
     submitLinuxDOOAuth}

(* components/settings/OtherSetting.jsx: every field has its own button,   *)
(* which saves with updateOption.                                          *)
updateOption == Page("all", "parallel", "both", "echo", FALSE, FALSE)

submitNotice == updateOption
submitUserAgreement == updateOption
submitPrivacyPolicy == updateOption
submitSystemName == updateOption
submitLogo == updateOption
submitHomePage == updateOption
submitAbout == updateOption
submitFooter == updateOption

OtherSetting ==
    {submitNotice, submitUserAgreement, submitPrivacyPolicy, submitSystemName,
     submitLogo, submitHomePage, submitAbout, submitFooter}

Parents ==
    {OperationSetting, DrawingSetting, DashboardSetting, ModelSetting,
     RateLimitSetting, RatioSetting, PaymentSetting, ChatsSetting,
     SystemSetting, OtherSetting}

AllPages == UNION Parents

=============================================================================
