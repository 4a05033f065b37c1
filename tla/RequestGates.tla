---------------------------- MODULE RequestGates ----------------------------
(***************************************************************************)
(* What stands between a request and the code that serves it: the checks   *)
(* every request passes (backend/__init__.py), the decorators of the web   *)
(* and of the mobile surface (api_common/auth_decorators.py), api_route    *)
(* (api_common/parse_request.py), and the table of all routes with the     *)
(* decorators they carry. A handler is not modelled beyond "reached", but  *)
(* for those that redirect to a page of the site by themselves; the ones   *)
(* of OAuth, which go by way of the provider, are SignInMethods'.          *)
(*                                                                         *)
(* A decorator is the sequence of its tests, outermost first; a test that  *)
(* fails answers, and nothing after it is looked at.                       *)
(*                                                                         *)
(* One account uses one browser and one mobile client, for a UTub, a URL   *)
(* and a tag that are its own, another's or nobody's. A client that sends  *)
(* the session cookie and a bearer token sends both.                       *)
(***************************************************************************)
EXTENDS Naturals, Sequences, FiniteSets

VARIABLES
    session,    \* the account and what identifies it: cookie and token
    request,    \* the request under way, or the last one
    answer      \* what it was answered

gatesVars == <<session, request, answer>>

-----------------------------------------------------------------------------
(* Answers.                                                                *)

Redirect(page) == [status |-> 302, form |-> page]
Json(code)     == [status |-> code, form |-> "json"]
Html(code)     == [status |-> code, form |-> "html"]
Reached        == [status |-> 200, form |-> "handler"]
Pending        == [status |-> 0, form |-> "none"]

Pages == {"/", "/home", "/home?UTubID", "/confirm-email"}
Leads(a) == a.form \in Pages          \* the browser goes on to a page

-----------------------------------------------------------------------------
(* Routes: the decorator, the method, whether api_route wants the header   *)
(* of an XMLHttpRequest, whether there is a body or a query to validate.   *)

Route(op, gate, method, input) ==
    [op |-> op, gate |-> gate, method |-> method, input |-> input,
     api |-> FALSE, ajax |-> FALSE, exempt |-> FALSE]

Page(op, gate)                == Route(op, gate, "GET", FALSE)
Form(op, gate, input)         == Route(op, gate, "POST", input)
WebOp(op, gate, method, input) == [Route(op, gate, method, input) EXCEPT !.ajax = TRUE]
ApiOp(op, gate, method, input) ==
    [Route(op, gate, method, input) EXCEPT !.api = TRUE, !.exempt = TRUE]

UtubReads == {
    Page("home", "email_validation_required"),
    WebOp("create_utub", "email_validation_required", "POST", TRUE),
    WebOp("get_single_utub", "utub_membership_required", "GET", FALSE),
    WebOp("get_utubs", "email_validation_required", "GET", FALSE) }
UtubChanges == {
    WebOp("update_utub_name", "utub_creator_required", "PATCH", TRUE),
    WebOp("update_utub_desc", "utub_creator_required", "PATCH", TRUE),
    WebOp("delete_utub", "utub_creator_required", "DELETE", FALSE) }

UrlRoutes == {
    WebOp("create_url", "utub_membership_required", "POST", TRUE),
    WebOp("get_url", "url_in_utub_required", "GET", FALSE),
    WebOp("update_url", "url_adder_or_creator_required", "PATCH", TRUE) }
UrlTitleRoutes == {
    WebOp("update_url_title", "url_adder_or_creator_required", "PATCH", TRUE),
    WebOp("delete_url", "url_adder_or_creator_required", "DELETE", FALSE) }

UrlTagRoutes == {
    WebOp("create_utub_url_tag", "url_in_utub_required", "POST", TRUE),
    WebOp("create_utub_url_tags", "url_in_utub_required", "POST", TRUE),
    WebOp("delete_utub_url_tag", "valid_url_tag", "DELETE", FALSE) }

UtubTagRoutes == {
    WebOp("create_utub_tag", "utub_membership_required", "POST", TRUE),
    WebOp("delete_utub_tag", "valid_utub_tag", "DELETE", FALSE) }

MemberRoutes == {
    WebOp("remove_member", "utub_membership_required", "DELETE", FALSE),
    WebOp("create_member", "utub_creator_required", "POST", TRUE) }

SearchRoutes == { WebOp("search_across_utubs", "email_validation_required", "GET", TRUE) }

SplashRoutes == {
    Page("error_page", "none"), Page("splash_page", "none"),
    Form("register_user", "no_authenticated_users_allowed", TRUE),
    Form("login", "no_authenticated_users_allowed", TRUE),
    Page("confirm_email", "none"),
    Form("send_validation_email", "none", FALSE),
    Page("validate_email_expired", "none"), Page("validate_email", "none"),
    Form("forgot_password", "no_authenticated_users_allowed", TRUE) }
SplashOauthRoutes == {
    Page("google_login", "no_authenticated_users_allowed"),
    [Page("google_callback", "none") EXCEPT !.exempt = TRUE],
    Page("github_login", "no_authenticated_users_allowed"),
    [Page("github_callback", "none") EXCEPT !.exempt = TRUE],
    Page("oauth_link", "email_validation_required"),
    Page("oauth_confirm_link_page", "no_authenticated_users_allowed"),
    Form("oauth_confirm_link", "no_authenticated_users_allowed", TRUE) }
ResetRoutes == { Page("reset_password_page", "none"), Form("reset_password", "none", TRUE) }

UserRoutes == {
    Page("logout", "none"), Page("privacy_policy", "none"),
    Page("terms_and_conditions", "none"),
    Page("settings", "email_validation_required"),
    WebOp("link_oauth_provider", "email_validation_required", "POST", TRUE),
    WebOp("unlink_oauth_provider", "email_validation_required", "DELETE", FALSE) }

ContactRoutes == { Page("contact_us", "none"), Form("submit_contact_us", "none", TRUE) }
SystemRoutes  == { Page("health", "none") }

AdminPage(op) == Page(op, "admin_login_required")
AdminPages == {
    AdminPage("admin_portal"), AdminPage("admin_health"),
    AdminPage("admin_health_snapshot"), AdminPage("admin_users"),
    AdminPage("admin_users_search"), AdminPage("admin_user_detail") }
AdminUtubPages == {
    AdminPage("admin_system_operations"), AdminPage("admin_utubs"),
    AdminPage("admin_utub_detail") }
AdminBrowserPages == {
    AdminPage("admin_db"), AdminPage("admin_db_table"), AdminPage("admin_db_row"),
    AdminPage("admin_audit_log"), AdminPage("admin_audit_log_rows"),
    AdminPage("admin_metrics") }

AdminPost(op) == WebOp(op, "admin_required", "POST", TRUE)
AdminOps == {
    AdminPost("admin_ops_metrics_flush"), AdminPost("admin_ops_gauge_sample"),
    AdminPost("admin_ops_audit_purge"), AdminPost("admin_ops_verify_tables"),
    AdminPost("admin_ops_backup_trigger"), AdminPost("admin_ops_short_urls_sync") }
AdminUtubActions == {
    AdminPost("admin_utub_lock"), AdminPost("admin_utub_unlock"),
    AdminPost("admin_utub_delete"), AdminPost("admin_member_remove"),
    AdminPost("admin_url_delete") }
AdminUrlActions == { AdminPost("admin_url_purge"), AdminPost("admin_utub_tag_delete") }
AdminUserActions == {
    AdminPost("admin_user_suspend"), AdminPost("admin_user_unsuspend"),
    AdminPost("admin_user_force_reset"), AdminPost("admin_user_kill_sessions"),
    AdminPost("admin_user_erase") }
AdminUserRepairs == {
    AdminPost("admin_user_oauth_unlink"), AdminPost("admin_user_email_verify"),
    AdminPost("admin_user_email_resend") }

MetricsIngest == { [Form("ingest", "none", TRUE) EXCEPT !.exempt = TRUE] }
MetricsQuery(op) == WebOp(op, "admin_required", "GET", TRUE)
MetricsQueries == {
    MetricsQuery("query_top"), MetricsQuery("query_timeseries"),
    MetricsQuery("query_summary"), MetricsQuery("query_grouped_timeseries"),
    MetricsQuery("query_flow"), MetricsQuery("query_gauges_timeseries"),
    MetricsQuery("query_latency"), MetricsQuery("query_latency_timeseries") }

ApiAuthRoutes == {
    ApiOp("get_me", "api_authentication_required", "GET", FALSE),
    ApiOp("auth_login", "none", "POST", TRUE),
    ApiOp("auth_refresh", "none", "POST", TRUE),
    ApiOp("auth_logout", "none", "POST", TRUE),
    ApiOp("auth_logout_all", "api_authentication_required", "POST", FALSE),
    ApiOp("auth_resend_validation", "api_authentication_required", "POST", FALSE),
    ApiOp("auth_google", "none", "POST", TRUE) }

ApiUtubRoutesLoose == {                   \* mutant: any member renames a UTub
    ApiOp("create_utub", "api_email_validation_required", "POST", TRUE),
    ApiOp("get_utubs", "api_email_validation_required", "GET", FALSE),
    ApiOp("get_single_utub", "api_utub_membership_required", "GET", FALSE),
    ApiOp("update_utub_name", "api_utub_membership_required", "PATCH", TRUE),
    ApiOp("update_utub_desc", "api_utub_creator_required", "PATCH", TRUE),
    ApiOp("delete_utub", "api_utub_creator_required", "DELETE", FALSE) }

ApiUtubRoutes == {
    ApiOp("create_utub", "api_email_validation_required", "POST", TRUE),
    ApiOp("get_utubs", "api_email_validation_required", "GET", FALSE),
    ApiOp("get_single_utub", "api_utub_membership_required", "GET", FALSE),
    ApiOp("update_utub_name", "api_utub_creator_required", "PATCH", TRUE),
    ApiOp("update_utub_desc", "api_utub_creator_required", "PATCH", TRUE),
    ApiOp("delete_utub", "api_utub_creator_required", "DELETE", FALSE) }

ApiMemberRoutes == {
    ApiOp("create_member", "api_utub_creator_required", "POST", TRUE),
    ApiOp("remove_member", "api_utub_membership_required", "DELETE", FALSE) }

ApiUrlRoutes == {
    ApiOp("create_url", "api_utub_membership_required", "POST", TRUE),
    ApiOp("get_url", "api_url_in_utub_required", "GET", FALSE),
    ApiOp("update_url", "api_url_adder_or_creator_required", "PATCH", TRUE),
    ApiOp("update_url_title", "api_url_adder_or_creator_required", "PATCH", TRUE),
    ApiOp("delete_url", "api_url_adder_or_creator_required", "DELETE", FALSE) }
ApiSearchRoutes == { ApiOp("search_across_utubs", "api_email_validation_required", "GET", TRUE) }

ApiTagRoutes == {
    ApiOp("create_utub_url_tag", "api_url_in_utub_required", "POST", TRUE),
    ApiOp("create_utub_url_tags", "api_url_in_utub_required", "POST", TRUE),
    ApiOp("delete_utub_url_tag", "api_valid_url_tag", "DELETE", FALSE) }
ApiUtubTagRoutes == {
    ApiOp("create_utub_tag", "api_utub_membership_required", "POST", TRUE),
    ApiOp("delete_utub_tag", "api_valid_utub_tag", "DELETE", FALSE) }

WebRoutes == UNION {UtubReads, UtubChanges, UrlRoutes, UrlTitleRoutes, UrlTagRoutes,
                    UtubTagRoutes, MemberRoutes, SearchRoutes, SplashRoutes,
                    SplashOauthRoutes, ResetRoutes, UserRoutes, ContactRoutes,
                    SystemRoutes, AdminPages, AdminUtubPages, AdminBrowserPages,
                    AdminOps, AdminUtubActions, AdminUrlActions, AdminUserActions,
                    AdminUserRepairs, MetricsIngest, MetricsQueries}
ApiRoutes == UNION {ApiAuthRoutes, ApiUtubRoutes, ApiMemberRoutes, ApiUrlRoutes,
                    ApiSearchRoutes, ApiTagRoutes, ApiUtubTagRoutes}

-----------------------------------------------------------------------------
(* Who the request is from. The session is asked first, and the token only *)
(* when the session names nobody, and only under /api/v1.                  *)

Session == [cookie : {"none", "killed", "live"}, bearer : BOOLEAN, validated : BOOLEAN,
            admin : BOOLEAN, cached : {"unset", "yes", "no"}]

SessionUser(s)   == s.cookie = "live"                         \* load_user
BearerUser(s, q) == q.route.api /\ ~SessionUser(s) /\ s.bearer \* load_user_from_request
LoggedIn(s, q)   == SessionUser(s) \/ BearerUser(s, q)

-----------------------------------------------------------------------------
(* The decorators.                                                         *)

Test(ok, otherwise) == [ok |-> ok, otherwise |-> otherwise]

NotFound(q) == IF q.route.api \/ q.xhr THEN Json(404) ELSE Html(404)

IsMember(q)  == q.utub \in {"member", "creator"}
IsCreator(q) == q.utub = "creator"
UrlHere(q)   == q.url \in {"others", "own"}
MayEdit(q)   == q.url = "own" \/ IsCreator(q)
TagHere(q)   == q.tag \in {"here", "applied"}

NoAuthenticatedUsersAllowed(s, q) == <<
    Test(~(LoggedIn(s, q) /\ ~s.validated), Redirect("/confirm-email")),
    Test(~LoggedIn(s, q), Redirect("/home")) >>

\* The session key, filled from the account when it is unset.
CachedAnswer(s) ==
    IF s.cached # "unset" THEN s.cached ELSE IF s.validated THEN "yes" ELSE "no"

EmailValidationRequired(s, q) == <<
    Test(LoggedIn(s, q), Redirect("/")),
    Test(CachedAnswer(s) = "yes", Redirect("/")) >>

UtubMembershipRequired(s, q) ==
    EmailValidationRequired(s, q) \o << Test(IsMember(q), NotFound(q)) >>

UtubCreatorRequired(s, q) ==
    UtubMembershipRequired(s, q) \o << Test(IsCreator(q), Json(403)) >>

UrlInUtubForbidding(s, q) ==          \* mutant: a URL of another UTub is forbidden
    UtubMembershipRequired(s, q) \o << Test(q.url # "missing", NotFound(q)),
                                       Test(UrlHere(q), Json(403)) >>
UrlInUtubRequired(s, q) ==
    UtubMembershipRequired(s, q) \o << Test(q.url # "missing", NotFound(q)),
                                       Test(UrlHere(q), NotFound(q)) >>

UrlAdderOrCreatorRequired(s, q) ==
    UrlInUtubRequired(s, q) \o << Test(MayEdit(q), Json(403)) >>

VerifyUtubTag(q) == << Test(q.tag # "missing", NotFound(q)), Test(TagHere(q), NotFound(q)) >>

ValidUtubTag(s, q) == UtubMembershipRequired(s, q) \o VerifyUtubTag(q)

ValidUrlTag(s, q) ==
    UrlInUtubRequired(s, q) \o VerifyUtubTag(q) \o << Test(q.tag = "applied", NotFound(q)) >>

AdminRequired(s, q) == << Test(LoggedIn(s, q), Json(401)), Test(s.admin, Json(404)) >>

AdminLoginRequired(s, q) == << Test(LoggedIn(s, q), Redirect("/")), Test(s.admin, Html(403)) >>

ApiAuthenticationRequired(s, q) ==
    << Test(LoggedIn(s, q) /\ BearerUser(s, q), Json(401)) >>

ApiEmailValidationRequired(s, q) ==
    ApiAuthenticationRequired(s, q) \o << Test(s.validated, Json(403)) >>

ApiUtubMembershipRequired(s, q) ==
    ApiEmailValidationRequired(s, q) \o << Test(IsMember(q), NotFound(q)) >>

ApiUtubCreatorRequired(s, q) ==
    ApiUtubMembershipRequired(s, q) \o << Test(IsCreator(q), Json(403)) >>

ApiUrlInUtubRequired(s, q) ==
    ApiUtubMembershipRequired(s, q) \o << Test(q.url # "missing", NotFound(q)),
                                          Test(UrlHere(q), NotFound(q)) >>

ApiUrlAdderOrCreatorRequired(s, q) ==
    ApiUrlInUtubRequired(s, q) \o << Test(MayEdit(q), Json(403)) >>

ApiValidUtubTag(s, q) == ApiUtubMembershipRequired(s, q) \o VerifyUtubTag(q)

ApiValidUrlTag(s, q) ==
    ApiUrlInUtubRequired(s, q) \o VerifyUtubTag(q) \o << Test(q.tag = "applied", NotFound(q)) >>

Gate(s, q) ==
    CASE q.route.gate = "none" -> << >>
      [] q.route.gate = "no_authenticated_users_allowed" -> NoAuthenticatedUsersAllowed(s, q)
      [] q.route.gate = "email_validation_required" -> EmailValidationRequired(s, q)
      [] q.route.gate = "utub_membership_required" -> UtubMembershipRequired(s, q)
      [] q.route.gate = "utub_creator_required" -> UtubCreatorRequired(s, q)
      [] q.route.gate = "url_in_utub_required" -> UrlInUtubRequired(s, q)
      [] q.route.gate = "url_adder_or_creator_required" -> UrlAdderOrCreatorRequired(s, q)
      [] q.route.gate = "valid_utub_tag" -> ValidUtubTag(s, q)
      [] q.route.gate = "valid_url_tag" -> ValidUrlTag(s, q)
      [] q.route.gate = "admin_required" -> AdminRequired(s, q)
      [] q.route.gate = "admin_login_required" -> AdminLoginRequired(s, q)
      [] q.route.gate = "api_authentication_required" -> ApiAuthenticationRequired(s, q)
      [] q.route.gate = "api_email_validation_required" -> ApiEmailValidationRequired(s, q)
      [] q.route.gate = "api_utub_membership_required" -> ApiUtubMembershipRequired(s, q)
      [] q.route.gate = "api_utub_creator_required" -> ApiUtubCreatorRequired(s, q)
      [] q.route.gate = "api_url_in_utub_required" -> ApiUrlInUtubRequired(s, q)
      [] q.route.gate = "api_url_adder_or_creator_required" -> ApiUrlAdderOrCreatorRequired(s, q)
      [] q.route.gate = "api_valid_utub_tag" -> ApiValidUtubTag(s, q)
      [] q.route.gate = "api_valid_url_tag" -> ApiValidUrlTag(s, q)

-----------------------------------------------------------------------------
(* A request from end to end.                                              *)

Csrf(q) == << Test(q.route.exempt \/ q.route.method = "GET" \/ q.csrf, Html(403)) >>

\* The limiter; its windows are not modelled, only that one may be used up:
\* the limits of all requests and those of a route are looked at as one.
Limits(q) == << Test(~q.spent \/ q.route.op = "health",
                     IF q.route.api THEN Json(429) ELSE Html(429)) >>

ApiRoute(q) == << Test(~q.route.ajax \/ q.xhr, Redirect("/home")),
                  Test(q.input, Json(400)) >>

\* The handlers that answer with a redirect of their own.
SplashPageEager(s) ==                 \* mutant: whoever is logged in goes home
    IF SessionUser(s) THEN Redirect("/home") ELSE Reached
SplashPage(s) == IF SessionUser(s) /\ s.validated THEN Redirect("/home") ELSE Reached

ConfirmEmail(s) ==
    IF SessionUser(s) /\ s.validated THEN Redirect("/home") ELSE Redirect("/")

HomeHandler(q) ==                     \* with UTubID in the query, or without
    CASE q.utub \in {"missing", "malformed"} -> Html(404)
      [] q.utub = "stranger" -> Redirect("/home")
      [] OTHER               -> Reached

\* verify_and_provide_next_page: utub is the UTub that "next" names.
NextPage(q) == IF IsMember(q) THEN "/home?UTubID" ELSE "/home"

Login(s, q) == IF s.validated THEN [status |-> 200, form |-> NextPage(q)] ELSE Json(401)

\* A current link from an e-mail, and an expired one: either is good until the
\* address is validated, when its row is deleted. Then the first finds no row
\* to look at and fails, and the second answers that it is not there.
ValidationLink(s) == IF s.validated THEN Html(500) ELSE Redirect("/home")
ExpiredLink(s)    == IF s.validated THEN Html(404) ELSE Reached

Handler(s, q) ==
    CASE q.route.op = "splash_page"   -> SplashPage(s)
      [] q.route.op = "validate_email" -> ValidationLink(s)
      [] q.route.op = "validate_email_expired" -> ExpiredLink(s)
      [] q.route.op = "login"         -> Login(s, q)
      [] q.route.op = "confirm_email" -> ConfirmEmail(s)
      [] q.route.op = "home"          -> HomeHandler(q)
      [] q.route.op = "logout"        -> Redirect("/")
      [] q.route.op = "error_page"    -> Html(404)
      [] OTHER                        -> Reached

Tests(s, q)  == Csrf(q) \o Limits(q) \o Gate(s, q) \o ApiRoute(q)
Failed(s, q) == LET t == Tests(s, q) IN {i \in DOMAIN t : ~t[i].ok}

Answer(s, q) ==
    LET failed == Failed(s, q)
    IN  IF failed = {} THEN Handler(s, q)
        ELSE Tests(s, q)[CHOOSE i \in failed : \A j \in failed : i <= j].otherwise

-----------------------------------------------------------------------------
(* The requests worth telling apart, for each route.                       *)

UtubGates == {"utub_membership_required", "utub_creator_required", "url_in_utub_required",
              "url_adder_or_creator_required", "valid_utub_tag", "valid_url_tag",
              "api_utub_membership_required", "api_utub_creator_required",
              "api_url_in_utub_required", "api_url_adder_or_creator_required",
              "api_valid_utub_tag", "api_valid_url_tag"}
UrlGates  == {"url_in_utub_required", "url_adder_or_creator_required", "valid_url_tag",
              "api_url_in_utub_required", "api_url_adder_or_creator_required",
              "api_valid_url_tag"}
TagGates  == {"valid_utub_tag", "valid_url_tag", "api_valid_utub_tag", "api_valid_url_tag"}

Roles == {"missing", "stranger", "member", "creator"}
When(used, values) == IF used THEN values ELSE {"none"}
Varies(used) == IF used THEN BOOLEAN ELSE {TRUE}

Requests(r) == {q \in [route : {r},
        utub  : When(r.gate \in UtubGates, Roles)
                  \union When(r.op \in {"home", "login"}, Roles \union {"malformed"}),
        url   : When(r.gate \in UrlGates, {"missing", "elsewhere", "others", "own"}),
        tag   : When(r.gate \in TagGates, {"missing", "elsewhere", "here", "applied"}),
        xhr   : BOOLEAN, csrf : Varies(~r.exempt /\ r.method # "GET"),
        input : Varies(r.input), spent : BOOLEAN] :
    /\ r.gate \in UtubGates => q.utub # "none"
    /\ q.tag = "applied" /\ r.gate \in UrlGates => UrlHere(q)
    /\ ~IsMember(q) => q.url \in {"none", "missing", "elsewhere"} /\ q.tag # "applied"}

AllRequests == UNION {Requests(r) : r \in WebRoutes \union ApiRoutes}

Target(page) ==
    CASE page = "/"              -> Page("splash_page", "none")
      [] page = "/confirm-email" -> Page("confirm_email", "none")
      [] OTHER                   -> Page("home", "email_validation_required")

\* Following a redirect keeps the UTub in the query.
Visit(page, utub) ==
    [route |-> Target(page), utub |-> IF page = "/home?UTubID" THEN utub ELSE "none",
     url |-> "none", tag |-> "none", xhr |-> FALSE, csrf |-> TRUE, input |-> TRUE,
     spent |-> FALSE]

GatesTypeOK ==
    /\ session \in Session
    /\ session.cookie = "none" => session.cached = "unset"
    /\ request.route \in WebRoutes \union ApiRoutes
    /\ answer.status \in {0, 200, 302, 400, 401, 403, 404, 429, 500}
    /\ answer.status = 302 => Leads(answer)

GatesInit ==
    /\ session \in [cookie : {"none"}, bearer : BOOLEAN, validated : BOOLEAN,
                    admin : BOOLEAN, cached : {"unset"}]
    /\ request = Visit("/", "none")
    /\ answer = Pending

-----------------------------------------------------------------------------
(* Steps.                                                                  *)

\* The gate stores its answer; logout drops it and the user; login and a
\* link from an e-mail sign in (what they do besides is AccountSessions').
EmailGates == {"email_validation_required", "utub_membership_required",
               "utub_creator_required", "url_in_utub_required",
               "url_adder_or_creator_required", "valid_utub_tag", "valid_url_tag"}

Cache(s, q) ==
    IF SessionUser(s) /\ q.route.gate \in EmailGates /\ {1, 2} \cap Failed(s, q) = {}
    THEN [s EXCEPT !.cached = CachedAnswer(s)] ELSE s

Signed(s, q) ==
    CASE Failed(s, q) # {}       -> s
      [] q.route.op = "login"    -> [s EXCEPT !.cookie = "live"]
      [] q.route.op = "logout"   -> [s EXCEPT !.cookie = "none", !.cached = "unset"]
      [] q.route.op = "validate_email" /\ ~s.validated ->
            [s EXCEPT !.cookie = "live", !.validated = TRUE, !.cached = "yes"]
      [] q.route.op = "validate_email_expired" /\ ~s.validated ->
            [s EXCEPT !.cookie = "live"]
      [] OTHER -> s

Serve(q) ==
    /\ request' = q
    /\ answer' = Answer(session, q)
    /\ session' = Signed(Cache(session, q), q)

Waits == request' = Visit("/", "none") /\ answer' = Pending

Ask == answer = Pending /\ \E q \in AllRequests : Serve(q)

Follow == Leads(answer) /\ Serve(Visit(answer.form, request.utub))

Read == answer # Pending /\ ~Leads(answer) /\ Waits /\ UNCHANGED session

\* In another browser, or by an admin: the address is validated, the
\* sessions are killed.
ValidateElsewhere ==
    /\ ~session.validated
    /\ session' = [session EXCEPT !.validated = TRUE]
    /\ Waits

KillSessions ==
    /\ session.cookie = "live"
    /\ session' = [session EXCEPT !.cookie = "killed"]
    /\ Waits

GatesNext == Ask \/ Follow \/ Read \/ ValidateElsewhere \/ KillSessions

GatesSpec == GatesInit /\ [][GatesNext]_gatesVars

-----------------------------------------------------------------------------
Answered == answer # Pending
Stale(s) == s.cookie = "live" /\ s.cached = "no" /\ s.validated

\* The request as the mobile twin of a web route gets it.
Mirror(q) == {[q EXCEPT !.route = r] : r \in {r \in ApiRoutes : r.op = q.route.op}}
OnPhone(s) == [s EXCEPT !.cookie = "none", !.bearer = TRUE]

(* The two surfaces are decorated one by one, yet they agree: a validated  *)
(* user's request in a browser and its twin under /api/v1 are let through, *)
(* or refused with the same status, for every UTub, URL, tag and input     *)
(* (urls/routes.py and api_v1/url_routes.py, and so on).                   *)
MirrorsAgree ==
    \A q \in {request} : \A t \in Mirror(q) :
        (Answered /\ ~request.route.api /\ request.xhr /\ request.csrf /\ answer.status # 302)
            => Answer(OnPhone(session), t).status = answer.status

(* What is not the user's cannot be told from what is not there: a UTub of *)
(* others, a URL or a tag of another UTub, asked for by any route that has *)
(* it in its path, answers what a missing one answers, whatever the body   *)
(* is.  Home, which has the UTub in its query, does tell them apart:       *)
(* it sends a stranger to /home without the UTub and answers 404 for a     *)
(* missing one (home_page.py:78), where its docstring has both rerouted    *)
(* (utubs/routes.py:69-70); and nothing else does.  ("next" of the login   *)
(* is looked at only once the password was right.)                         *)
HidesTheRest ==
    LET gated == Answered /\ request.route.gate \in UtubGates
        home  == Answered /\ request.route.op = "home"
    IN  /\ gated /\ request.utub = "stranger" =>
                answer = Answer(session, [request EXCEPT !.utub = "missing", !.input = ~@])
        /\ gated /\ request.url = "elsewhere" =>
                answer = Answer(session, [request EXCEPT !.url = "missing"])
        /\ gated /\ request.tag = "elsewhere" =>
                answer = Answer(session, [request EXCEPT !.tag = "missing"])
        /\ home /\ request.utub = "stranger" =>
                LET missing == Answer(session, [request EXCEPT !.utub = "missing"])
                IN  answer = missing \/ (answer = Redirect("/home") /\ missing = Html(404))

(* Redirects come to an end: home, splash and confirm-email send the       *)
(* browser to each other, and agree on who belongs where, but when the     *)
(* address was validated elsewhere after the gate had stored "no".         *)
RedirectsEnd ==
    (Leads(answer) /\ ~Stale(session)) ~> (~Leads(answer) \/ Stale(session))
=============================================================================
