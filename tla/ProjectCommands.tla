-------------------------- MODULE ProjectCommands --------------------------
(***************************************************************************)
(* The commands on a project and its settings, on the account, and the     *)
(* ones that only read, one definition per function of internal/cli under  *)
(* its name, in the manner of WorkItemCommands.                            *)
(***************************************************************************)
EXTENDS WorkItemCommands

-----------------------------------------------------------------------------
(* What a text typed may denote.                                           *)

resolveRole     == Find("only")
loadWebhook     == selectedProject \o <<Find("only")>>
loadMembership  == selectedProject \o <<Find("only")>>
loadCustomField == selectedProject \o <<Find("only")>>
loadSprint      == selectedProject \o <<Find("only")>>
resolveWorkflowMetadata == selectedProject \o <<Find("id")>>
resolveWikiLink == selectedProject \o <<Find("id")>>
resolveDueDate  == selectedProject \o <<Find("first")>>
resolveSwimlane == selectedProject \o <<Find("first")>>
resolveProjectTemplate == ListProjectTemplates

-----------------------------------------------------------------------------
(* project.go, project_social.go, project_transfer.go                      *)

projectListCommand == <<Usage, Connect, ListProjects>>
projectViewCommand == <<Connect, GetProjectBySlug>>
projectCreateCommand ==
  <<Usage, Usage, Connect, resolveProjectTemplate, Rehearse, CreateProject>>
projectEditCommand == <<Usage, Usage, Connect, Load, Usage, Rehearse, UpdateProject>>

\* Taiga has no such operation: the command says so, whatever it is asked.
projectArchiveCommand == <<Connect, GetProjectBySlug, Refuse>>

projectDeleteCommand == <<Connect, Load, Rehearse, Confirm("prompt"), DeleteProject>>
projectLikeCommand ==
  selectedProject \o <<GetProjectBySlug, Rehearse, LikeProject>>
projectFansCommand == selectedProject \o <<GetProjectBySlug, ProjectFans>>
projectTransferRequestCommand == selectedProject \o <<Rehearse, TransferProject>>
projectTransferStartCommand ==
  <<Usage>> \o selectedProject \o <<Rehearse, Confirm("flag"), TransferProject>>
projectTransferTokenCommand ==
  <<Usage>> \o selectedProject \o <<Rehearse, Confirm("flag"), TransferProject>>

\* An answer with neither an address nor an export under way is an error,
\* though Taiga may have started one.
projectExportCommand ==
  <<Usage, Connect, GetProjectBySlug, Rehearse, RequestProjectExport, Expect>>

\* The dump is checked, and read again from its start for the upload.
prepareProjectDump == Invalid
projectImportCommand ==
  <<Confirm("piped"), prepareProjectDump, Rehearse, Confirm("prompt"), Connect, Get,
    ImportProjectDump, Expect>>

-----------------------------------------------------------------------------
(* member.go, role.go, webhook.go, metadata.go                             *)

memberListCommand == selectedProject \o <<ListMemberships>>
memberAddCommand  == <<Usage>> \o selectedProject \o <<Lookup, Rehearse, CreateMembership>>
memberEditCommand == <<Usage>> \o loadMembership \o <<Lookup, Rehearse, UpdateMembership>>
memberRemoveCommand == loadMembership \o <<Rehearse, Confirm("prompt"), DeleteMembership>>
roleListCommand   == selectedProject \o <<ListRoles>>
roleCreateCommand == <<Usage>> \o selectedProject \o <<Rehearse, CreateRole>>
roleEditCommand   == <<Usage>> \o selectedProject \o <<resolveRole, Usage, Rehearse, UpdateRole>>

\* Whether the role still has members is judged on the list that was read.
roleDeleteCommand ==
  selectedProject \o <<resolveRole, Lookup, Usage, Invalid, Rehearse, Confirm("prompt"), DeleteRole>>
validateWebhookURL   == Usage
webhookListCommand   == selectedProject \o <<ListWebhooks>>
webhookViewCommand   == loadWebhook
webhookCreateCommand ==
  <<Usage, validateWebhookURL>> \o selectedProject \o <<Rehearse, CreateWebhook>>
webhookEditCommand ==
  <<Usage>> \o loadWebhook \o <<Usage, validateWebhookURL, Usage, Rehearse, UpdateWebhook>>
webhookTestCommand   == loadWebhook \o <<TestWebhook>>
webhookDeleteCommand == loadWebhook \o <<Rehearse, Confirm("prompt"), DeleteWebhook>>
metadataFields        == Usage
normalizeMetadataKind == Usage
metadataListCommand   ==
  <<normalizeMetadataKind>> \o selectedProject \o <<ListWorkflowMetadata>>
metadataViewCommand   == <<normalizeMetadataKind>> \o resolveWorkflowMetadata
metadataCreateCommand ==
  <<normalizeMetadataKind, metadataFields>> \o selectedProject
    \o <<Rehearse, CreateWorkflowMetadata>>
metadataEditCommand ==
  <<normalizeMetadataKind, metadataFields>> \o resolveWorkflowMetadata
    \o <<Rehearse, UpdateWorkflowMetadata>>

\* The value its items move to is looked up after the one to delete.
metadataDeleteCommand ==
  <<normalizeMetadataKind, Usage>> \o resolveWorkflowMetadata \o selectedProject
    \o <<Lookup, Usage, Rehearse, Confirm("prompt"), DeleteWorkflowMetadata>>

-----------------------------------------------------------------------------
(* sprint.go, wiki_link.go                                                 *)

validateSprintDates == Invalid
sprintListCommand == <<Usage, Usage, Usage>> \o selectedProject \o <<ListMilestones>>
sprintViewCommand == loadSprint \o <<GetMilestone>>
sprintCreateCommand ==
  <<Usage, validateSprintDates>> \o selectedProject \o <<Rehearse, CreateMilestone>>
sprintEditCommand ==
  <<Usage>> \o loadSprint \o <<Invalid, validateSprintDates, Rehearse, UpdateMilestone>>
sprintStateCommand  == loadSprint \o <<Rehearse, UpdateMilestone>>
sprintDeleteCommand == loadSprint \o <<Rehearse, Confirm("prompt"), DeleteMilestone>>
wikiLinkListCommand == <<Usage>> \o selectedProject \o <<ListWikiLinks>>
wikiLinkViewCommand == resolveWikiLink
wikiLinkCreateCommand == <<Usage>> \o selectedProject \o <<Rehearse, CreateWikiLink>>
wikiLinkEditCommand == <<Usage>> \o resolveWikiLink \o <<Usage, Rehearse, UpdateWikiLink>>
wikiLinkDeleteCommand == resolveWikiLink \o <<Rehearse, Confirm("prompt"), DeleteWikiLink>>

-----------------------------------------------------------------------------
(* project_admin.go                                                        *)

normalizeDueDateResource == Usage
dueDateFields        == Usage
dueDateListCommand   ==
  <<normalizeDueDateResource>> \o selectedProject \o <<ListDueDates>>
dueDateCreateCommand ==
  <<normalizeDueDateResource, dueDateFields>> \o selectedProject \o <<Rehearse, CreateDueDate>>
dueDateEditCommand ==
  <<normalizeDueDateResource, dueDateFields, Usage>> \o resolveDueDate
    \o <<Rehearse, UpdateDueDate>>
dueDateDeleteCommand ==
  <<normalizeDueDateResource>> \o resolveDueDate
    \o <<Invalid, Rehearse, Confirm("flag"), DeleteDueDate>>
swimlaneListCommand   == selectedProject \o <<ListSwimlanes>>
swimlaneCreateCommand == <<Usage>> \o selectedProject \o <<Rehearse, CreateSwimlane>>
swimlaneEditCommand   == <<Usage, Usage>> \o resolveSwimlane \o <<Rehearse, UpdateSwimlane>>
swimlaneDeleteCommand ==
  resolveSwimlane \o selectedProject
    \o <<Lookup, Usage, Rehearse, Confirm("flag"), DeleteSwimlane>>
swimlaneWIPCommand ==
  <<Usage, Usage>> \o resolveSwimlane \o <<Lookup, Invalid, Rehearse, UpdateSwimlaneWIP>>
tagListCommand   == selectedProject \o <<ProjectTags>>
tagCreateCommand == <<Usage>> \o selectedProject \o <<Rehearse, CreateProjectTag>>
tagEditCommand   == <<Usage, Usage>> \o selectedProject \o <<Rehearse, EditProjectTag>>
tagDeleteCommand == selectedProject \o <<Rehearse, Confirm("flag"), DeleteProjectTag>>
tagMixCommand    == <<Usage>> \o selectedProject \o <<Rehearse, MixProjectTags>>

-----------------------------------------------------------------------------
(* custom_field.go: the definitions                                        *)

normalizeCustomFieldResource == Usage
customFieldListCommand ==
  <<normalizeCustomFieldResource>> \o selectedProject \o <<Get>>
customFieldCreateCommand ==
  <<normalizeCustomFieldResource, Usage>> \o selectedProject \o <<Rehearse, CreateCustomField>>
customFieldEditCommand ==
  <<normalizeCustomFieldResource, Usage>> \o loadCustomField
    \o <<Usage, Rehearse, UpdateCustomField>>
customFieldDeleteCommand ==
  <<normalizeCustomFieldResource>> \o loadCustomField
    \o <<Rehearse, Confirm("prompt"), DeleteCustomField>>

-----------------------------------------------------------------------------
(* account.go, integrations.go: nothing is asked of Taiga before a dry run *)
(* or a confirmation, except the project a policy belongs to.              *)

notifyLevel        == Usage
positiveID         == Usage
validateStorageKey == Usage
notificationPolicyListCommand == <<Connect, ListNotifyPolicies>>
notificationPolicyCreateCommand ==
  <<notifyLevel>> \o selectedProject \o <<Rehearse, ListNotifyPolicies, Invalid, UpdateNotifyPolicy>>
notificationPolicyEditCommand ==
  <<positiveID, notifyLevel, Usage, Rehearse, Connect, UpdateNotifyPolicy>>
notificationPolicyDeleteCommand ==
  <<positiveID, Rehearse, Confirm("flag"), Connect, DeleteNotifyPolicy>>
webNotificationListCommand == <<Connect, ListWebNotifications>>
webNotificationReadCommand ==
  <<Usage, positiveID, Rehearse, Connect, MarkWebNotificationRead>>
applicationListCommand      == <<Connect, ListApplications>>
applicationTokenListCommand == <<Usage, Connect, ListApplicationTokens>>
applicationTokenRevokeCommand ==
  <<positiveID, Rehearse, Confirm("flag"), Connect, RevokeApplicationToken>>
storageListCommand == <<Connect, ListStorage>>
storageGetCommand  == <<validateStorageKey, Connect, Load>>

\* The entry is created when it is missing, and changed when it is there.
storageSetCommand ==
  <<validateStorageKey, Usage, Usage, Rehearse, Connect, GetStorage, CreateStorage>>
storageDeleteCommand ==
  <<validateStorageKey, Rehearse, Confirm("flag"), Connect, DeleteStorage>>
importerFields == Usage
integrationCallCommand ==
  <<Usage, Usage, importerFields, Rehearse, Confirm("flag"), Connect, ImporterCall>>

-----------------------------------------------------------------------------
(* search.go, timeline.go, stats.go                                        *)

searchCommand       == <<Invalid, Usage, Usage>> \o selectedProject \o <<Search>>
timelineCommand     == <<Usage>> \o selectedProject \o <<ProjectTimeline>>
statsProject        == <<Connect, Invalid, GetProjectBySlug>>
projectStatsCommand == statsProject \o <<GetProjectStats>>
issueStatsCommand   == statsProject \o <<GetProjectIssueStats>>
memberStatsCommand  == statsProject \o <<GetProjectMemberStats, Get>>
sprintStatsCommand  == loadSprint \o <<GetSprintStats>>
systemStatsCommand  == <<Connect, GetSystemStats>>
discoverStatsCommand == <<Connect, GetDiscoverStats>>
=============================================================================
