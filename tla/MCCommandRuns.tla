---------------------------- MODULE MCCommandRuns ----------------------------
(***************************************************************************)
(* The commands of taiga-cli by the name descriptor.go gives them, with    *)
(* what it says of each.  Commands that share a function appear once:      *)
(* watch, unwatch, vote, unvote and delete of the five kinds of item, close *)
(* and reopen, like and unlike, accept, reject and validate-token.         *)
(***************************************************************************)
EXTENDS CommandRuns, ProjectCommands, TLC

Descriptor(sp, reads, repeats, versioned) ==
  [steps |-> sp, reads |-> reads, repeats |-> repeats, versioned |-> versioned]

Reads(sp)          == Descriptor(sp, TRUE, TRUE, FALSE)
Once(sp)           == Descriptor(sp, FALSE, FALSE, FALSE)
Repeatable(sp)     == Descriptor(sp, FALSE, TRUE, FALSE)
Edits(sp)          == Descriptor(sp, FALSE, FALSE, TRUE)
RepeatableEdit(sp) == Descriptor(sp, FALSE, TRUE, TRUE)

WorkItemPrograms ==
  "task list" :> Reads(taskListCommand)
  @@ "task view" :> Reads(taskViewCommand)
  @@ "task create" :> Once(taskCreateCommand)
  @@ "task edit" :> Edits(taskEditCommand)
  @@ "story list" :> Reads(storyListCommand)
  @@ "story view" :> Reads(storyViewCommand)
  @@ "story create" :> Once(storyCreateCommand)
  @@ "story edit" :> Edits(storyEditCommand)
  @@ "issue list" :> Reads(issueListCommand)
  @@ "issue view" :> Reads(issueViewCommand)
  @@ "issue create" :> Once(issueCreateCommand)
  @@ "issue edit" :> Edits(issueEditCommand)
  @@ "epic list" :> Reads(epicListCommand)
  @@ "epic view" :> Reads(epicViewCommand)
  @@ "epic create" :> Once(epicCreateCommand)
  @@ "epic edit" :> Edits(epicEditCommand)
  @@ "wiki list" :> Reads(wikiListCommand)
  @@ "wiki view" :> Reads(wikiViewCommand)
  @@ "wiki create" :> Once(wikiCreateCommand)
  @@ "wiki edit" :> Edits(wikiEditCommand)
  @@ "task done" :> Edits(taskDoneCommand)
  @@ "task reopen" :> Edits(taskReopenCommand)
  @@ "task assign" :> Edits(taskAssignCommand)
  @@ "task unassign" :> RepeatableEdit(taskUnassignCommand)
  @@ "task move" :> Edits(taskMoveCommand)
  @@ "task comment" :> Once(taskCommentCommand)
  @@ "story close" :> Edits(storyCloseCommand)
  @@ "story assign" :> Edits(storyAssignCommand)
  @@ "story move" :> Edits(storyMoveCommand)
  @@ "story comment" :> Once(storyCommentCommand)
  @@ "issue close" :> Edits(issueCloseCommand)
  @@ "issue assign" :> Edits(issueAssignCommand)
  @@ "issue comment" :> Once(issueCommentCommand)
  @@ "epic close" :> Edits(epicCloseCommand)
  @@ "epic stories" :> Reads(epicStoriesCommand)
  @@ "epic link" :> Once(epicLinkCommand)
  @@ "epic unlink" :> Repeatable(epicUnlinkCommand)
  @@ "wiki delete" :> Repeatable(wikiDeleteCommand)
  @@ "watch" :> Repeatable(watchCommand)
  @@ "vote" :> Repeatable(voteCommand)
  @@ "history" :> Reads(historyCommand)
  @@ "watchers" :> Reads(participantCommand)
  @@ "delete" :> Repeatable(deleteWorkItemCommand)
  @@ "comment edit" :> Once(commentEditCommand)
  @@ "comment delete" :> Repeatable(commentDeleteCommand)
  @@ "comment undelete" :> Repeatable(commentUndeleteCommand)
  @@ "comment versions" :> Reads(commentVersionsCommand)
  @@ "attachment list" :> Reads(attachmentListCommand)
  @@ "attachment view" :> Reads(attachmentViewCommand)
  @@ "attachment add" :> Once(attachmentAddCommand)
  @@ "attachment edit" :> Once(attachmentEditCommand)
  @@ "attachment delete" :> Repeatable(attachmentDeleteCommand)
  @@ "custom-field values" :> Reads(customFieldValuesCommand)
  @@ "custom-field set" :> Edits(customFieldSetCommand)
  @@ "batch move" :> Repeatable(batchMoveCommand)
  @@ "batch reorder story" :> Once(batchReorderCommand(BulkOrderStories))
  @@ "batch reorder task" :> Once(batchReorderCommand(BulkOrderTasks))
  @@ "batch create" :> Once(batchCreateCommand)

ProjectPrograms ==
  "project list" :> Reads(projectListCommand)
  @@ "project view" :> Reads(projectViewCommand)
  @@ "project create" :> Once(projectCreateCommand)
  @@ "project edit" :> Once(projectEditCommand)
  @@ "project archive" :> Repeatable(projectArchiveCommand)
  @@ "project delete" :> Repeatable(projectDeleteCommand)
  @@ "project like" :> Repeatable(projectLikeCommand)
  @@ "project fans" :> Reads(projectFansCommand)
  @@ "project transfer request" :> Once(projectTransferRequestCommand)
  @@ "project transfer start" :> Once(projectTransferStartCommand)
  @@ "project transfer accept" :> Once(projectTransferTokenCommand)
  @@ "project export" :> Once(projectExportCommand)
  @@ "project import" :> Once(projectImportCommand)
  @@ "member list" :> Reads(memberListCommand)
  @@ "member add" :> Once(memberAddCommand)
  @@ "member edit" :> Once(memberEditCommand)
  @@ "member remove" :> Repeatable(memberRemoveCommand)
  @@ "role list" :> Reads(roleListCommand)
  @@ "role create" :> Once(roleCreateCommand)
  @@ "role edit" :> Once(roleEditCommand)
  @@ "role delete" :> Repeatable(roleDeleteCommand)
  @@ "webhook list" :> Reads(webhookListCommand)
  @@ "webhook view" :> Reads(webhookViewCommand)
  @@ "webhook create" :> Once(webhookCreateCommand)
  @@ "webhook edit" :> Once(webhookEditCommand)
  @@ "webhook delete" :> Repeatable(webhookDeleteCommand)
  @@ "metadata list" :> Reads(metadataListCommand)
  @@ "metadata view" :> Reads(metadataViewCommand)
  @@ "metadata create" :> Once(metadataCreateCommand)
  @@ "metadata edit" :> Once(metadataEditCommand)
  @@ "metadata delete" :> Repeatable(metadataDeleteCommand)
  @@ "sprint list" :> Reads(sprintListCommand)
  @@ "sprint view" :> Reads(sprintViewCommand)
  @@ "sprint create" :> Once(sprintCreateCommand)
  @@ "sprint edit" :> Once(sprintEditCommand)
  @@ "sprint delete" :> Repeatable(sprintDeleteCommand)
  @@ "wiki-link list" :> Reads(wikiLinkListCommand)
  @@ "wiki-link view" :> Reads(wikiLinkViewCommand)
  @@ "wiki-link create" :> Once(wikiLinkCreateCommand)
  @@ "wiki-link edit" :> Once(wikiLinkEditCommand)
  @@ "wiki-link delete" :> Repeatable(wikiLinkDeleteCommand)
  @@ "custom-field list" :> Reads(customFieldListCommand)
  @@ "custom-field create" :> Once(customFieldCreateCommand)
  @@ "custom-field edit" :> Once(customFieldEditCommand)
  @@ "custom-field delete" :> Repeatable(customFieldDeleteCommand)
  @@ "webhook test" :> Once(webhookTestCommand)
  @@ "sprint close" :> Repeatable(sprintStateCommand)
  @@ "due-date list" :> Reads(dueDateListCommand)
  @@ "due-date create" :> Once(dueDateCreateCommand)
  @@ "due-date edit" :> Once(dueDateEditCommand)
  @@ "due-date delete" :> Repeatable(dueDateDeleteCommand)
  @@ "swimlane list" :> Reads(swimlaneListCommand)
  @@ "swimlane create" :> Once(swimlaneCreateCommand)
  @@ "swimlane edit" :> Once(swimlaneEditCommand)
  @@ "swimlane delete" :> Repeatable(swimlaneDeleteCommand)
  @@ "tag list" :> Reads(tagListCommand)
  @@ "tag create" :> Once(tagCreateCommand)
  @@ "tag edit" :> Once(tagEditCommand)
  @@ "tag delete" :> Repeatable(tagDeleteCommand)
  @@ "swimlane wip" :> Repeatable(swimlaneWIPCommand)
  @@ "tag mix" :> Once(tagMixCommand)
  @@ "notification policy list" :> Reads(notificationPolicyListCommand)
  @@ "notification policy create" :> Repeatable(notificationPolicyCreateCommand)
  @@ "notification policy edit" :> Repeatable(notificationPolicyEditCommand)
  @@ "notification policy delete" :> Repeatable(notificationPolicyDeleteCommand)
  @@ "notification web list" :> Reads(webNotificationListCommand)
  @@ "notification web read" :> Repeatable(webNotificationReadCommand)
  @@ "application list" :> Reads(applicationListCommand)
  @@ "application tokens" :> Reads(applicationTokenListCommand)
  @@ "application revoke" :> Repeatable(applicationTokenRevokeCommand)
  @@ "storage list" :> Reads(storageListCommand)
  @@ "storage get" :> Reads(storageGetCommand)
  @@ "storage set" :> Repeatable(storageSetCommand)
  @@ "storage delete" :> Repeatable(storageDeleteCommand)
  @@ "integration call" :> Once(integrationCallCommand)
  @@ "search" :> Reads(searchCommand)
  @@ "timeline" :> Reads(timelineCommand)
  @@ "stats project" :> Reads(projectStatsCommand)
  @@ "stats issues" :> Reads(issueStatsCommand)
  @@ "stats members" :> Reads(memberStatsCommand)
  @@ "stats sprint" :> Reads(sprintStatsCommand)
  @@ "stats system" :> Reads(systemStatsCommand)
  @@ "stats discover" :> Reads(discoverStatsCommand)

AllPrograms == WorkItemPrograms @@ ProjectPrograms
MisledByNumbers ==
  {"metadata delete", "wiki-link delete", "due-date delete", "swimlane delete"}
NotMisled == {}

\* What RunAgainChangesNothing rests on holds of all but those.
ASSUME AllButThoseMeanTheSame == RepeatablesMeanTheSame(DOMAIN Programs \ MisledByNumbers)
=============================================================================
