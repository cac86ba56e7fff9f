--------------------------------- MODULE Api ---------------------------------
(* The functions of src/frontend/src/api, each with the call of the server   *)
(* that it is, and the controllers of the server, each with what its guard   *)
(* or its service demands of the caller: "open" nothing, "any" a session,    *)
(* "managers" and "platform" a role, and "read", "write" and "manage" a      *)
(* standing at the library that the call is about.  Their answers for the    *)
(* mock of the server are left out.                                          *)

-----------------------------------------------------------------------------
(* The controllers                                                          *)

AuthCalls == [login |-> "open", register |-> "open", captcha |-> "open", emailCode |-> "open",
              resetPassword |-> "open", logout |-> "any"]
ProfileCalls == [profile |-> "any", updateProfile |-> "any", password |-> "any"]
\* Mutant of UsersCalls: the list of accounts for the platform only.
UsersCallsPlatform == [users |-> "platform", createUser |-> "managers", updateUser |-> "managers",
                       removeUser |-> "managers"]
UsersCalls == [users |-> "managers", createUser |-> "managers", updateUser |-> "managers",
               removeUser |-> "managers"]
KnowledgeCalls == [kbs |-> "any", options |-> "any", kb |-> "read", createKb |-> "platform",
                   updateKb |-> "write", removeKb |-> "write", reindex |-> "write"]
RetrievalTest == [retrievalTest |-> "read"]
CaseCalls == [cases |-> "read", createCase |-> "write", importCases |-> "write",
              updateCase |-> "write", removeCase |-> "write"]
MemberCalls == [members |-> "manage", candidates |-> "manage", addMember |-> "manage",
                updateMember |-> "manage", removeMember |-> "manage"]
DocumentCalls == [documents |-> "read", upload |-> "write", removeDoc |-> "write", reparse |-> "write"]
FileCalls == [image |-> "read", chunks |-> "read", file |-> "read"]
DepartmentCalls == [tree |-> "any", editTree |-> "platform", deptMembers |-> "platform"]
SettingsCalls == [settings |-> "platform", saveSettings |-> "platform", embedding |-> "platform",
                  summary |-> "any", probe |-> "platform", reembed |-> "platform", verifyKey |-> "platform"]
StatsCalls == [usage |-> "any", usersUsage |-> "platform", cost |-> "platform", feedbackStats |-> "platform"]
LogCalls == [logs |-> "platform"]
ApiKeyCalls == [apiKeys |-> "platform", createKey |-> "platform", removeKey |-> "platform"]
FavoriteCalls == [favoriteIds |-> "any", favorites |-> "any", addFavorite |-> "any", removeFavorite |-> "any"]
ConversationCalls == [conversations |-> "any", conversation |-> "any", editConversation |-> "any",
                      feedback |-> "any"]
ChatCalls == [attachments |-> "any", completions |-> "any", model |-> "any", suggestions |-> "any",
              quickPrompts |-> "any"]
SearchCalls == [search |-> "any"]

Controllers ==
  {AuthCalls, ProfileCalls, UsersCalls, KnowledgeCalls, RetrievalTest, CaseCalls, MemberCalls,
   DocumentCalls, FileCalls, DepartmentCalls, SettingsCalls, StatsCalls, LogCalls, ApiKeyCalls,
   FavoriteCalls, ConversationCalls, ChatCalls, SearchCalls}

-----------------------------------------------------------------------------
(* The functions of the browser: user.js                                    *)

AuthApi == [login |-> "login", register |-> "register", getCaptcha |-> "captcha",
            sendEmailCode |-> "emailCode", resetPassword |-> "resetPassword", logout |-> "logout"]
ProfileApi == [getProfile |-> "profile", updateProfile |-> "updateProfile", changePassword |-> "password"]
UsersApi == [getUsers |-> "users", createUser |-> "createUser", updateUser |-> "updateUser",
             deleteUser |-> "removeUser"]
SettingsApi == [getSystemSettings |-> "settings", updateSystemSettings |-> "saveSettings",
                verifyApiKey |-> "verifyKey", getEmbeddingState |-> "embedding",
                getEmbeddingSummary |-> "summary", probeEmbedding |-> "probe", triggerReembed |-> "reembed"]
KeyApi == [getApiKeys |-> "apiKeys", createApiKey |-> "createKey", deleteApiKey |-> "removeKey"]
StatsApi == [getUsageStats |-> "usage", getCostAnalytics |-> "cost", getFeedbackAnalytics |-> "feedbackStats"]
LogApi == [getOperationLogs |-> "logs"]

(* knowledge.js                                                             *)

KbApi == [getKnowledgeList |-> "kbs", getKnowledgeOptions |-> "options", getKnowledgeDetail |-> "kb",
          createKnowledge |-> "createKb", updateKnowledge |-> "updateKb", deleteKnowledge |-> "removeKb",
          rebuildIndex |-> "reindex"]
DocumentApi == [getDocuments |-> "documents", uploadDocuments |-> "upload", deleteDocument |-> "removeDoc",
                reparseDocument |-> "reparse", getDocumentChunks |-> "chunks"]
TestApi == [retrievalTest |-> "retrievalTest"]
CaseApi == [getEvalCases |-> "cases", createEvalCase |-> "createCase", updateEvalCase |-> "updateCase",
            deleteEvalCase |-> "removeCase", importEvalCases |-> "importCases"]
MemberApi == [getKbMembers |-> "members", getKbMemberCandidates |-> "candidates", addKbMember |-> "addMember",
              updateKbMember |-> "updateMember", removeKbMember |-> "removeMember"]
FileApi == [fetchDocumentImage |-> "image", fetchDocumentFile |-> "file", downloadDocument |-> "file"]

(* chat.js, favorite.js and department.js                                   *)

ConversationApi == [getConversations |-> "conversations", getConversation |-> "conversation",
                    createConversation |-> "editConversation", updateConversation |-> "editConversation",
                    uploadAttachments |-> "attachments", deleteConversation |-> "editConversation",
                    batchDeleteConversations |-> "editConversation"]
StreamApi == [streamAnswer |-> "completions"]
PromptApi == [submitFeedback |-> "feedback", getSuggestedQuestions |-> "suggestions",
              getFollowupSuggestions |-> "suggestions", getQuickPrompts |-> "quickPrompts",
              getRuntimeModel |-> "model"]
SearchApi == [searchAll |-> "search"]
FavoriteApi == [addFavorite |-> "addFavorite", getFavorites |-> "favorites", getFavoriteIds |-> "favoriteIds",
                removeFavorite |-> "removeFavorite"]
DepartmentApi == [getDeptTree |-> "tree", createDepartment |-> "editTree", updateDepartment |-> "editTree",
                  moveDepartment |-> "editTree", deleteDepartment |-> "editTree", getDeptMembers |-> "deptMembers",
                  addDeptMember |-> "deptMembers", removeDeptMember |-> "deptMembers"]

Apis ==
  {AuthApi, ProfileApi, UsersApi, SettingsApi, KeyApi, StatsApi, LogApi, KbApi, DocumentApi, TestApi,
   CaseApi, MemberApi, FileApi, ConversationApi, StreamApi, PromptApi, SearchApi, FavoriteApi, DepartmentApi}
=============================================================================
