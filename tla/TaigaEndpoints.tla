--------------------------- MODULE TaigaEndpoints ---------------------------
(***************************************************************************)
(* The wrappers of internal/taiga, one definition per method of Client,    *)
(* under its name: what it asks of the request layer (GET, POST, PATCH or  *)
(* DELETE, see RequestLayer) and what it reads back afterwards.  A GET     *)
(* that fetches the record a command is about is a Load, every other one a *)
(* Get, and a list in which a name is looked up is read by a Lookup.       *)
(***************************************************************************)
EXTENDS CommandSteps

-----------------------------------------------------------------------------
(* Work items: tasks.go, stories.go, issues.go, epics.go, wiki.go.         *)
(* The Update requests of the five carry the version that was read.        *)

ListTasks          == Get
GetTaskByRef       == Load
CreateTask         == Send("add")
UpdateTask         == Send("edit")
TaskStatuses       == Lookup
ListUserStories    == Get
GetUserStoryByRef  == Load
GetUserStory       == Get
CreateUserStory    == Send("add")
UpdateUserStory    == Send("edit")
UserStoryStatuses  == Lookup
ListIssues         == Get
GetIssueByRef      == Load
CreateIssue        == Send("add")
UpdateIssue        == Send("edit")
IssueStatuses      == Lookup
namedMetadata      == Lookup
IssuePriorities    == namedMetadata
IssueSeverities    == namedMetadata
IssueTypes         == namedMetadata
ListEpics          == Get
GetEpicByRef       == Load
CreateEpic         == Send("add")
UpdateEpic         == Send("edit")
EpicStatuses       == Lookup
ListEpicRelatedUserStories == Get
LinkEpicUserStory   == Send("add")
UnlinkEpicUserStory == Send("unlink")
ListWikiPages      == Get
GetWikiPageBySlug  == Load
CreateWikiPage     == Send("add")
UpdateWikiPage     == Send("edit")
DeleteWikiPage     == Send("remove")
DeleteWorkItem     == Send("remove")
ListParticipants   == Get
History            == Get
Search             == Get
ProjectTimeline    == Get

\* activity.go: the POST, then a GET that has to show the state asked for.
Watching    == Recheck
SetWatching == <<Send("ask"), Watching>>
Voting      == Recheck
SetVoting   == <<Send("ask"), Voting>>

\* operator.go: a comment is an entry of the history, found by its id, and
\* found again after the POST that changes it.
FindHistoryEntry == Load
EditComment      == <<Send("ask"), Recheck>>
DeleteComment    == <<Send("ask"), Recheck>>
UndeleteComment  == <<Send("ask"), Recheck>>
CommentVersions  == Get

\* batch.go and integrations.go: many items in one request.
BulkCreate          == Send("bulk")
BulkMoveToMilestone == Send("set")
BulkOrderStories    == Send("set")
BulkOrderTasks      == Send("set")

\* custom_fields.go: the values of an item are one whole, with a version of
\* their own.
ListCustomFields        == Lookup
CreateCustomField       == Send("add")
UpdateCustomField       == Send("set")
DeleteCustomField       == Send("remove")
GetCustomFieldValues    == Load
UpdateCustomFieldValues == Send("replace")

\* attachments.go
ListAttachments  == Get
GetAttachment    == Load
CreateAttachment == Send("add")
UpdateAttachment == Send("set")
DeleteAttachment == Send("remove")

-----------------------------------------------------------------------------
(* The project: projects.go, members.go, metadata.go, stories.go for the   *)
(* sprints, webhooks.go, wiki_links.go, project_admin.go.                  *)

ListProjects         == Get
GetProjectBySlug     == Get
GetProject           == Get
ListProjectUsers     == Lookup
ListProjectTemplates == Lookup
CreateProject        == Send("add")
UpdateProject        == Send("set")
DeleteProject        == Send("remove")
ListMemberships      == Get
CreateMembership     == Send("add")
UpdateMembership     == Send("set")
DeleteMembership     == Send("remove")
ListRoles            == Get
CreateRole           == Send("add")
UpdateRole           == Send("set")
DeleteRole           == Send("remove")
ListWorkflowMetadata   == Get
CreateWorkflowMetadata == Send("add")
UpdateWorkflowMetadata == Send("set")
DeleteWorkflowMetadata == Send("remove")
Milestones           == Lookup
ListMilestones       == Get
GetMilestone         == Get
CreateMilestone      == Send("add")
UpdateMilestone      == Send("set")
DeleteMilestone      == Send("remove")
ListWebhooks         == Get
CreateWebhook        == Send("add")
UpdateWebhook        == Send("set")
TestWebhook          == Send("add")
DeleteWebhook        == Send("remove")
ListWikiLinks        == Get
CreateWikiLink       == Send("add")
UpdateWikiLink       == Send("set")
DeleteWikiLink       == Send("remove")
ListDueDates         == Get
CreateDueDate        == Send("add")
UpdateDueDate        == Send("set")
DeleteDueDate        == Send("remove")
ListSwimlanes        == Get
CreateSwimlane       == Send("add")
UpdateSwimlane       == Send("set")
DeleteSwimlane       == Send("remove")
UpdateSwimlaneWIP    == Send("set")
ProjectTags          == Get
CreateProjectTag     == Send("add")
EditProjectTag       == Send("set")
DeleteProjectTag     == Send("remove")
MixProjectTags       == Send("set")

-----------------------------------------------------------------------------
(* The account: account.go, and what integrations.go, project_transfer.go  *)
(* and stats.go add.                                                       *)

ListNotifyPolicies  == Load
UpdateNotifyPolicy  == Send("set")
DeleteNotifyPolicy  == Send("remove")
ListWebNotifications        == Get
MarkWebNotificationRead     == Send("set")
MarkAllWebNotificationsRead == Send("set")
ListApplications       == Get
ListApplicationTokens  == Get
RevokeApplicationToken == Send("remove")
ListStorage   == Get
GetStorage    == Probe
CreateStorage == Send("put")
UpdateStorage == Send("put")
DeleteStorage == Send("remove")
LikeProject   == Send("settle")
UnlikeProject == Send("settle")
ProjectFans   == Get
TransferProject      == Send("add")
ImporterCall         == Send("add")
RequestProjectExport == Send("enqueue")
ImportProjectDump    == Send("add")
GetProjectStats       == Get
GetProjectIssueStats  == Get
GetProjectMemberStats == Get
GetSprintStats        == Get
GetSystemStats        == Get
GetDiscoverStats      == Get
=============================================================================
