-------------------------- MODULE WorkItemCommands --------------------------
(***************************************************************************)
(* The commands on tasks, stories, issues, epics and wiki pages, one       *)
(* definition per function of internal/cli under its name: the steps it    *)
(* goes through, in order.  An optional flag that names something is a     *)
(* Lookup, which goes on whether it was given and found or not given.      *)
(***************************************************************************)
EXTENDS TaigaEndpoints

-----------------------------------------------------------------------------
(* What the commands share: the project, the record by its reference, and  *)
(* the names in the flags.                                                 *)

selectedProject   == <<Connect, Invalid, GetProjectBySlug>>
loadTaskTarget    == <<Connect, Invalid, GetProjectBySlug, GetTaskByRef>>
loadStoryTarget   == <<Connect, Invalid, GetProjectBySlug, GetUserStoryByRef>>
loadIssueTarget   == <<Connect, Invalid, GetProjectBySlug, GetIssueByRef>>
loadEpicTarget    == <<Connect, Invalid, GetProjectBySlug, GetEpicByRef>>
loadWikiTarget    == <<Connect, Invalid, GetProjectBySlug, GetWikiPageBySlug>>
resolveParentStory     == <<Invalid, Lookup>>
resolveTaskStatus      == TaskStatuses
resolveTaskCloseStatus == TaskStatuses
resolveTaskOpenStatus  == TaskStatuses
resolveStoryStatus      == UserStoryStatuses
resolveStoryCloseStatus == UserStoryStatuses
resolveIssueStatus  == IssueStatuses
resolveCloseStatus  == IssueStatuses
resolveEpicStatus      == EpicStatuses
resolveEpicCloseStatus == EpicStatuses
resolveNamedMetadata   == namedMetadata
resolveAssignee        == ListProjectUsers
resolveStoryAssignees  == ListProjectUsers
resolveMilestone       == Milestones
storyMilestoneMutation == resolveMilestone
resolveSprintFilter    == resolveMilestone

\* The epic, and the story by its own reference.
loadEpicAndStory == loadEpicTarget \o <<Invalid, GetProjectBySlug, Get>>

\* The stories of an epic, each with its project.
loadEpicStoryViews == <<ListEpicRelatedUserStories, GetUserStory, GetProject>>

\* Any of the five kinds, loaded by the loader of its own kind.
loadActivityTarget == <<Usage>> \o loadTaskTarget

-----------------------------------------------------------------------------
(* What two kinds of work item do in the same way.                         *)

\* workitem_close.go: plan reads the item and picks a closed status, apply
\* writes the status.
closeWorkItemCommand(plan, apply) == <<Usage>> \o plan \o <<Base, Rehearse, apply>>

\* body.go: the text is read before anything is asked of Taiga.
readBody == Usage

\* workitem_comment.go: a comment is added by a PATCH with the version.
commentWorkItemCommand(load) ==
  <<Usage, Usage, Usage, readBody>> \o load \o <<Base, Rehearse, Send("add")>>

-----------------------------------------------------------------------------
(* task.go                                                                 *)

taskListCommand == <<Usage, Usage>> \o selectedProject \o resolveParentStory \o <<ListTasks>>
taskViewCommand == loadTaskTarget
taskCreateCommand ==
  <<Usage>> \o selectedProject \o resolveParentStory
    \o <<resolveTaskStatus, resolveAssignee, Rehearse, CreateTask>>
taskEditCommand ==
  <<Usage, Usage>> \o loadTaskTarget \o <<Base>> \o resolveParentStory
    \o <<resolveTaskStatus, resolveAssignee, Rehearse, UpdateTask>>
taskDoneCommand ==
  closeWorkItemCommand(loadTaskTarget \o <<resolveTaskCloseStatus>>, UpdateTask)
taskReopenCommand ==
  <<Usage>> \o loadTaskTarget \o <<resolveTaskOpenStatus, Base, Rehearse, UpdateTask>>
taskAssignCommand ==
  <<Usage, Usage>> \o loadTaskTarget \o <<resolveAssignee, Base, Rehearse, UpdateTask>>
taskUnassignCommand == <<Usage>> \o loadTaskTarget \o <<Base, Rehearse, UpdateTask>>
taskMoveCommand ==
  <<Usage, Usage>> \o loadTaskTarget \o <<Base>> \o resolveParentStory
    \o <<resolveMilestone, Rehearse, UpdateTask>>
taskCommentCommand == commentWorkItemCommand(loadTaskTarget)

-----------------------------------------------------------------------------
(* story.go                                                                *)

storyListCommand ==
  <<Usage>> \o selectedProject \o <<resolveSprintFilter, Usage, ListUserStories>>
storyViewCommand == loadStoryTarget
storyCreateCommand ==
  <<Usage>> \o selectedProject \o <<resolveStoryStatus, resolveMilestone, Rehearse, CreateUserStory>>
storyEditCommand ==
  <<Usage, Usage>> \o loadStoryTarget
    \o <<Base, resolveStoryStatus, Rehearse, UpdateUserStory>>
storyCloseCommand ==
  closeWorkItemCommand(loadStoryTarget \o <<resolveStoryCloseStatus>>, UpdateUserStory)
storyAssignCommand ==
  <<Usage, Usage>> \o loadStoryTarget
    \o <<resolveStoryAssignees, Base, Rehearse, UpdateUserStory>>
storyMoveCommand ==
  <<Usage, Usage>> \o loadStoryTarget
    \o <<storyMilestoneMutation, Base, Rehearse, UpdateUserStory>>
storyCommentCommand == commentWorkItemCommand(loadStoryTarget)

-----------------------------------------------------------------------------
(* issue.go                                                                *)

issueListCommand == <<Usage>> \o selectedProject \o <<ListIssues>>
issueViewCommand == loadIssueTarget
issueCreateCommand ==
  <<Usage>> \o selectedProject
    \o <<resolveIssueStatus, resolveNamedMetadata, resolveNamedMetadata,
         resolveNamedMetadata, resolveAssignee, Rehearse, CreateIssue>>
issueEditCommand ==
  <<Usage, Usage>> \o loadIssueTarget
    \o <<Base, resolveIssueStatus, resolveNamedMetadata, resolveNamedMetadata,
         resolveNamedMetadata, resolveAssignee, Rehearse, UpdateIssue>>
issueCloseCommand ==
  closeWorkItemCommand(loadIssueTarget \o <<resolveCloseStatus>>, UpdateIssue)
issueAssignCommand ==
  <<Usage, Usage>> \o loadIssueTarget \o <<resolveAssignee, Base, Rehearse, UpdateIssue>>
issueCommentCommand == commentWorkItemCommand(loadIssueTarget)

-----------------------------------------------------------------------------
(* epic.go                                                                 *)

epicListCommand == <<Usage>> \o selectedProject \o <<ListEpics>>
epicViewCommand == loadEpicTarget
epicCreateCommand ==
  <<Usage>> \o selectedProject \o <<resolveEpicStatus, resolveAssignee, Rehearse, CreateEpic>>
epicEditCommand ==
  <<Usage>> \o loadEpicTarget
    \o <<Base, Usage, resolveEpicStatus, resolveAssignee, Rehearse, UpdateEpic>>
epicCloseCommand ==
  loadEpicTarget \o <<resolveEpicCloseStatus, Base, Rehearse, UpdateEpic>>
epicStoriesCommand == loadEpicTarget \o loadEpicStoryViews
epicLinkCommand == <<Usage>> \o loadEpicAndStory \o <<Rehearse, LinkEpicUserStory>>
epicUnlinkCommand == <<Usage>> \o loadEpicAndStory \o <<Rehearse, UnlinkEpicUserStory>>

-----------------------------------------------------------------------------
(* wiki.go                                                                 *)

readWikiContent == Usage
wikiListCommand == <<Usage>> \o selectedProject \o <<ListWikiPages>>
wikiViewCommand == loadWikiTarget
wikiCreateCommand ==
  <<Usage, Usage, readWikiContent>> \o selectedProject \o <<Rehearse, CreateWikiPage>>

\* The text is read after the page: it takes as long as its author does.
wikiEditCommand ==
  <<Usage, Usage>> \o loadWikiTarget
    \o <<Base, Usage, readWikiContent, Rehearse, UpdateWikiPage>>
wikiDeleteCommand == loadWikiTarget \o <<Rehearse, Confirm("prompt"), DeleteWikiPage>>

-----------------------------------------------------------------------------
(* activity.go, vote.go, operator.go                                       *)

watchCommand == loadActivityTarget \o <<Rehearse, Same>> \o SetWatching
voteCommand  == loadActivityTarget \o <<Rehearse, Same>> \o SetVoting
historyCommand == <<Usage, Usage>> \o loadActivityTarget \o <<History>>
participantCommand == <<Usage>> \o loadActivityTarget \o <<ListParticipants>>
deleteWorkItemCommand ==
  loadActivityTarget \o <<Rehearse, Confirm("prompt"), DeleteWorkItem>>
commentEditCommand ==
  <<Usage, Usage, readBody>> \o loadActivityTarget
    \o <<FindHistoryEntry, Invalid, Rehearse>> \o EditComment
commentDeleteCommand ==
  <<Usage>> \o loadActivityTarget
    \o <<FindHistoryEntry, Invalid, Same, Rehearse, Confirm("prompt")>> \o DeleteComment
commentUndeleteCommand ==
  <<Usage>> \o loadActivityTarget
    \o <<FindHistoryEntry, Invalid, Same, Rehearse>> \o UndeleteComment
commentVersionsCommand == <<Usage>> \o loadActivityTarget \o <<CommentVersions>>

-----------------------------------------------------------------------------
(* attachment.go; the transfer itself is in FileTransfer and OutputFile.   *)

parseAttachmentIdentity == <<Usage, Usage>>
loadAttachmentTarget == <<Usage>> \o loadActivityTarget
attachmentListCommand == loadAttachmentTarget \o <<ListAttachments>>
attachmentViewCommand == parseAttachmentIdentity \o <<Connect, GetAttachment>>
attachmentAddCommand ==
  loadAttachmentTarget \o <<Usage, Rehearse, CreateAttachment>>
attachmentEditCommand ==
  <<Usage>> \o parseAttachmentIdentity \o <<Connect, Rehearse, UpdateAttachment>>
attachmentDeleteCommand ==
  parseAttachmentIdentity \o <<Connect, GetAttachment, Rehearse, Confirm("prompt"), DeleteAttachment>>

-----------------------------------------------------------------------------
(* custom_field.go: the values of an item                                  *)

loadCustomFieldValuesView == <<Get, GetCustomFieldValues>>
customFieldValuesCommand == <<Usage>> \o loadActivityTarget \o loadCustomFieldValuesView

\* The values are read, the ones asked for changed, and all of them sent.
customFieldSetCommand ==
  <<Usage, Usage>> \o loadActivityTarget
    \o <<ListCustomFields, GetCustomFieldValues, Invalid, Base, Rehearse, UpdateCustomFieldValues>>

-----------------------------------------------------------------------------
(* batch.go                                                                *)

resolveBatchStatus == resolveTaskStatus
resolveBatchCreate == <<resolveBatchStatus, resolveMilestone>> \o resolveParentStory \o <<Get, Invalid>>
validateBatchOptions == Usage
readBatchSubjects    == Invalid
parseBatchOrders     == Usage
batchMoveCommand ==
  <<Usage, Invalid>> \o selectedProject
    \o <<resolveMilestone, Rehearse, Confirm("flag"), BulkMoveToMilestone>>

\* bulkOrder: BulkOrderStories, or BulkOrderTasks; only stories have a swimlane.
batchReorderCommand(bulkOrder) ==
  <<Usage>> \o selectedProject
    \o <<resolveMilestone, parseBatchOrders, Lookup, Lookup, Rehearse, Confirm("flag"), bulkOrder>>

\* Read from standard input it must be confirmed beforehand; and the answer
\* must name as many items as were sent.
batchCreateCommand ==
  <<Usage, validateBatchOptions, Confirm("piped"), readBatchSubjects>> \o selectedProject
    \o resolveBatchCreate \o <<Rehearse, Confirm("prompt"), BulkCreate, Recheck>>
=============================================================================
