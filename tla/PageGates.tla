------------------------------ MODULE PageGates ------------------------------
(* What the pages of the browser offer and load, by the role and the        *)
(* standing they have been told of, against what the controllers of the     *)
(* server let through for the role and the standing the user really has.    *)
EXTENDS KbAccess, Api

VARIABLES
  profile, \* store/user.js: the role the tab knows, "none" before it is fetched
  cached,  \* localStorage kb_user: the role as it was when the user signed in
  page,    \* where the tab is
  shown    \* the library that is open, or that a list offers, with the myRole its answer carried

gateVars == <<accessVars, profile, cached, page, shown>>

Page == {"login", "chat", "knowledge", "detail", "favorites", "analytics", "settings"}
Closed == [kb |-> "none", myRole |-> "none"]
GatesType ==
  /\ profile \in Role \union {"none"} /\ cached \in Role \union {"none"}
  /\ page \in Page
  /\ shown \in [kb : Shelf, myRole : {"admin", "owner", "editor", "viewer", "none"}] \union {Closed}

-----------------------------------------------------------------------------
(* The server                                                               *)

\* The session, the roles guard, and the services of the library that is shown.
Granted(demand) ==
  \/ demand = "open"
  \/ /\ page # "login"
     /\ CASE demand = "any" -> TRUE
          [] demand = "platform" -> me \in Platform
          [] demand = "managers" -> me \in UserManagers
          [] demand = "read" -> shown.kb \in KbAsserted("read")
          [] demand = "write" -> shown.kb \in KbAsserted("write")
          [] demand = "manage" -> shown.kb \in Manageable
          [] OTHER -> FALSE

Served(f) ==
  \E api \in Apis :
    f \in DOMAIN api /\ \E calls \in Controllers : api[f] \in DOMAIN calls /\ Granted(calls[api[f]])

-----------------------------------------------------------------------------
(* The pages: what they call by themselves and what they offer.             *)

\* utils/rbac.js and utils/kb-access.js, and the getters of the user's store.
RankOf(role) == CASE role = "owner" -> 4 [] role = "super_admin" -> 3 [] role = "admin" -> 2
                  [] role = "viewer" -> 1 [] role = "none" -> 0
IsPlatform == RankOf(profile) >= 3
CanManageUsers == RankOf(profile) >= 2
\* A library without a role of mine is one that nobody created, or not mine.
PageCanWrite == shown.kb \in Shelf /\ (RankOf(profile) >= 3 \/ shown.myRole \in {"owner", "admin", "editor"})
PageCanManage == shown.kb \in Shelf /\ (RankOf(profile) >= 3 \/ shown.myRole = "owner")
CanCreate == RankOf(profile) >= 3

When(condition, calls) == IF condition THEN calls ELSE {}

\* The logout is left out: the tab forgets its tokens before it asks the server.
LoginPage == {"login", "register", "getCaptcha", "sendEmailCode", "resetPassword"}

SidebarCalls == {"getConversations", "getSuggestedQuestions", "getQuickPrompts", "updateConversation",
                 "deleteConversation"}
LayoutCalls == {"getProfile", "searchAll"} \union SidebarCalls

\* The chat.  What is behind the citations of an old answer is no offer of the
\* page: their library may have been closed to the user since.
ChatLoads == {"getEmbeddingSummary", "getKnowledgeOptions", "getConversation", "getSuggestedQuestions",
              "getQuickPrompts", "getFavoriteIds"}
ChatMessages == {"streamAnswer", "getFollowupSuggestions", "submitFeedback", "addFavorite"}
ChatBox == {"uploadAttachments", "createConversation", "streamAnswer", "updateConversation"}
ChatTitle == {"updateConversation", "deleteConversation"}
CanUploadDocs == RankOf(profile) >= 3 /\ shown.kb \in Shelf
ChatDrop == When(CanUploadDocs, {"uploadDocuments", "getDocuments"})
ChatPage == ChatLoads \union ChatMessages \union ChatBox \union ChatTitle \union ChatDrop

\* The libraries: a folder goes into one that the list has, or into a new one.
ListToolbar == {"getKnowledgeList"} \union When(CanCreate, {"createKnowledge", "getKnowledgeOptions"})
ListImport == When(CanCreate /\ shown.kb \in Shelf, {"getKnowledgeList", "uploadDocuments", "getDocuments"})
ListRows == When(PageCanWrite, {"rebuildIndex", "deleteKnowledge", "getKnowledgeOptions"})
ListPage == ListToolbar \union ListImport \union ListRows

FavoritesPage == {"getFavorites", "getKnowledgeOptions", "removeFavorite"}

\* A rejected answer becomes a case of the library that is chosen in the dialog.
AnalyticsReflow == When(shown.kb \in Shelf, {"createEvalCase"})
AnalyticsPage == {"getCostAnalytics", "getFeedbackAnalytics", "getKnowledgeOptions"} \union AnalyticsReflow

\* One library.  Its form is a matter of SaveAccepted.
DetailLoads == {"getEmbeddingSummary", "getKnowledgeDetail", "getDeptTree", "getDocuments", "getUsageStats"}
DetailHead == When(PageCanWrite, {"rebuildIndex", "getKnowledgeDetail"})
DetailRows == {"getDocumentChunks", "fetchDocumentFile", "downloadDocument"}
              \union When(PageCanWrite, {"reparseDocument", "deleteDocument"})
DetailUpload == When(PageCanWrite, {"uploadDocuments", "deleteDocument"})
DetailSearch == {"retrievalTest"}
DetailEvaluation == {"getEvalCases", "retrievalTest"} \union When(PageCanWrite, {"updateEvalCase"})
CaseDrawer == {"getEvalCases"}
              \union When(PageCanWrite, {"createEvalCase", "updateEvalCase", "deleteEvalCase", "importEvalCases"})
MemberPanel == When(PageCanManage, {"getKbMembers", "getKbMemberCandidates", "addKbMember", "updateKbMember",
                                    "removeKbMember"})
DetailPage == DetailLoads \union DetailHead \union DetailRows \union DetailUpload \union DetailSearch
              \union DetailEvaluation \union CaseDrawer \union MemberPanel

\* The settings: what is loaded, the tabs, and what the handlers of each call.
SettingsLoads ==
  {"getRuntimeModel", "getKnowledgeOptions"} \union When(CanManageUsers, {"getUsers"})
  \union When(IsPlatform, {"getSystemSettings", "getApiKeys", "getDeptTree", "getOperationLogs",
                           "getEmbeddingState", "getUsers"})
\* The tabs of the platform, and the card of the platform in the tab of the
\* security, hang on a name that the page does not define: isAdmin.
SettingsTabs == {"security"} \union When(CanManageUsers, {"users"})

SettingsForm == {"updateSystemSettings"}
KeyForm == {"updateSystemSettings", "getSystemSettings", "getRuntimeModel", "verifyApiKey"}
EmbeddingForm == {"getEmbeddingState", "probeEmbedding", "triggerReembed"}
AccountForm == {"updateProfile", "changePassword"}
KeyTable == {"getApiKeys", "createApiKey", "deleteApiKey"}
UserTable == {"getUsers", "createUser", "updateUser", "deleteUser"}
DepartmentTable == {"getDeptTree", "createDepartment", "updateDepartment", "moveDepartment", "deleteDepartment"}
DepartmentMembers == {"getUsers", "getDeptMembers", "addDeptMember", "removeDeptMember", "getDeptTree"}

ModelTab == When("model" \in SettingsTabs, SettingsForm \union KeyForm)
RetrievalTab == When("retrieval" \in SettingsTabs, SettingsForm \union EmbeddingForm)
SecurityTab == AccountForm \union When("policy" \in SettingsTabs, SettingsForm)
KeysTab == When("keys" \in SettingsTabs, KeyTable)
UsersTab == When("users" \in SettingsTabs, UserTable)
DepartmentsTab == When("departments" \in SettingsTabs, DepartmentTable \union DepartmentMembers)
SettingsPage == SettingsLoads \union ModelTab \union RetrievalTab \union SecurityTab \union KeysTab
                \union UsersTab \union DepartmentsTab

Calls ==
  CASE page = "login" -> LoginPage
    [] page = "chat" -> LayoutCalls \union ChatPage
    [] page = "knowledge" -> LayoutCalls \union ListPage
    [] page = "detail" -> LayoutCalls \union DetailPage
    [] page = "favorites" -> LayoutCalls \union FavoritesPage
    [] page = "analytics" -> LayoutCalls \union AnalyticsPage
    [] page = "settings" -> LayoutCalls \union SettingsPage

-----------------------------------------------------------------------------

GatesInit ==
  /\ AccessInit
  /\ profile = "none" /\ cached = "none" /\ page = "login" /\ shown = Closed

\* The tab is loaded anew: the store is empty until the layout has fetched it.
Reload ==
  /\ page \notin {"detail", "login"} /\ profile' = "none" /\ UNCHANGED <<accessVars, cached, page, shown>>
FetchProfile ==
  /\ page # "login" /\ profile = "none" /\ profile' = me /\ UNCHANGED <<accessVars, cached, page, shown>>

\* The sidebar's way out; and the login: the account as the server has it, in
\* the store and in localStorage.
SignOut ==
  /\ page # "login"
  /\ page' = "login" /\ profile' = "none" /\ cached' = "none" /\ shown' = Closed
  /\ UNCHANGED accessVars
SignIn ==
  /\ page = "login"
  /\ page' = "chat" /\ profile' = me /\ cached' = me
  /\ UNCHANGED <<accessVars, shown>>

\* beforeEach: the analytics by what was stored at the login, the rest for all
\* who are signed in.
Route(p) ==
  /\ profile # "none" /\ p \notin {"detail", "login"}
  /\ page' = IF p = "analytics" /\ cached \notin Platform THEN "chat" ELSE p
  /\ shown' = Closed
  /\ UNCHANGED <<accessVars, profile, cached>>

\* A library that the server refuses leaves the page empty.
OpenKb(k) ==
  /\ profile # "none"
  /\ page' = "detail"
  /\ shown' = IF k \in Detailed THEN [kb |-> k, myRole |-> MyRole(k)] ELSE Closed
  /\ UNCHANGED <<accessVars, profile, cached>>

\* A row of the list, or a library of the options, which carry no standing.
Choose(k) ==
  /\ profile # "none"
  /\ \/ page = "knowledge" /\ k \in ListedKbs /\ shown' = [kb |-> k, myRole |-> MyRole(k)]
     \/ page \in {"chat", "analytics"} /\ k \in Options /\ shown' = [kb |-> k, myRole |-> "none"]
  /\ UNCHANGED <<accessVars, profile, cached, page>>

GatesNext ==
  \/ Reload \/ FetchProfile \/ SignOut \/ SignIn
  \/ \E p \in Page : Route(p)
  \/ \E k \in Shelf : OpenKb(k) \/ Choose(k)
  \/ (Rerole \/ \E k \in Shelf : Regrant(k)) /\ UNCHANGED <<profile, cached, page, shown>>

GatesSpec == GatesInit /\ [][GatesNext]_gateVars

-----------------------------------------------------------------------------
(* Properties                                                               *)

\* The tab knows its user's role and the standing of the library it shows; the
\* chat and the analytics ask for none.
Told ==
  \/ page = "login"
  \/ /\ profile = me
     /\ page = "detail" \/ shown.kb \in Shelf =>
          shown.kb \in Detailed /\ (shown.myRole = MyRole(shown.kb) \/ page \in {"chat", "analytics"})

\* "避免点击后 403", "权限外接口一律不调": a page that knows the user's role and
\* standing as they are calls and offers nothing that the server refuses.  The
\* analytics are left to whoever was of the platform when he signed in.
PagesServed ==
  Told /\ (page = "analytics" => cached = me) => \A f \in Calls : Served(f)

\* "非 owner/editor 隐藏写操作入口，避免点击后 403": the form of a library that the
\* page offers to save is one that the server takes.  It always carries the
\* scope, which the server takes from the creator and the platform only.
SaveAccepted ==
  Told /\ page = "detail" /\ PageCanWrite =>
    shown.kb \in KbAsserted("write") /\ (library[shown.kb].mine \/ HasAllScope(me))
=============================================================================
