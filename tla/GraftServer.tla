----------------------------- MODULE GraftServer -----------------------------
(***************************************************************************)
(* class GraftServer (src/supernode/server.cpp) and the loops around it in *)
(* Supernode::run and WalletServer::run: start, service, signals, restart. *)
(*                                                                         *)
(* The main thread goes through init step by step; each step may fail and  *)
(* end the process.  A signal comes between any two steps.  The build is   *)
(* the default one, without assertions.  Whether the loop of the looper    *)
(* can stop is up to the task manager.                                     *)
(***************************************************************************)
EXTENDS Graftlets

CONSTANTS
    Paths, Methods,  \* of the routes
    SupernodeRoutes, \* routes of the supernode, latest first: [path, methods]
    WalletRoutes,    \* routes of the wallet server
    Endpoints,       \* routes of each graftlet, latest first
    MaxSignals

Routes == [path : Paths, methods : SUBSET Methods]
RouteSet(r) == {r[i] : i \in DOMAIN r}

ASSUME RoutesAssumption ==
    /\ "callback" \in Paths /\ "POST" \in Methods
    /\ SupernodeRoutes \in Seq(Routes)
    /\ WalletRoutes \in Seq(Routes)
    /\ Endpoints \in [Names -> Seq(Routes)]
    \* No other route has the path of the callback route: a third route of an endpoint may hide
    \* a conflict of the other two from checkRoutes.
    /\ \A r \in RouteSet(SupernodeRoutes) \cup RouteSet(WalletRoutes)
               \cup UNION {RouteSet(Endpoints[n]) : n \in Names} : r.path # "callback"

VARIABLES
    server,      \* which server this is: "supernode" or "wallet"
    phase,       \* where the main thread is
    ended,       \* why the process ended; "no" while it runs
    loader,      \* m_graftletLoader exists
    routes,      \* routes of the HTTP connection manager, latest first
    baseStop,    \* ConnectionBase::m_stop
    looper,      \* [stop, force] of the looper; none before the first
    handlers,    \* int_handler, term_handler and hup_handler are set
    res,         \* the local variable of run
    signals      \* signals so far

serverVars == <<phase, ended, loader, routes, baseStop, looper, handlers, res, signals>>
vars == <<files, next, libs, graph, color, path, cur, server, phase, ended, loader, routes, baseStop,
          looper, handlers, res, signals>>

NewLooper == [stop |-> FALSE, force |-> FALSE]

Init ==
    /\ GraftletInit
    /\ server \in {"supernode", "wallet"}
    /\ phase = "config"
    /\ ended = "no"
    /\ loader = FALSE
    /\ routes = <<>>
    /\ baseStop = FALSE
    /\ looper = NewLooper
    /\ handlers = FALSE
    /\ res = "UnexpectedOk"
    /\ signals = 0

At(p) == ended = "no" /\ phase = p
Goto(p) == phase' = p /\ UNCHANGED ended
End(why) == ended' = why /\ UNCHANGED <<phase, loader, routes, baseStop, looper, handlers, res, signals>>

----------------------------------------------------------------------------
(* GraftServer::init.                                                      *)

\* initConfigOption and loadBlacklist: the configuration and the rules are read, or refused.
Configure ==
    /\ At("config")
    /\ \/ Goto("looper") /\ UNCHANGED <<loader, routes, baseStop, looper, handlers, res, signals>>
       \/ End("config")
    /\ UNCHANGED graftletVars

\* createLooper; the looper of the run before goes.
CreateLooper ==
    /\ At("looper")
    /\ looper' = NewLooper
    /\ Goto(IF loader THEN "misc" ELSE "find")
    /\ UNCHANGED <<graftletVars, loader, routes, baseStop, handlers, res, signals>>

\* initGraftlets, at the first start only.
InitGraftlets ==
    \/ /\ At("find") /\ FindGraftlet
       /\ UNCHANGED serverVars
    \/ /\ At("find") /\ (Throws \/ InitializeThrows)
       /\ End("graftlet")
       /\ UNCHANGED graftletVars
    \/ /\ At("find") /\ InitializeGraph
       /\ Goto("remove")
       /\ loader' = TRUE
       /\ UNCHANGED <<routes, baseStop, looper, handlers, res, signals>>

CheckDependencies ==
    \/ /\ At("remove") /\ RemoveFailed
       /\ UNCHANGED serverVars
    \/ /\ At("remove") /\ Paint
       /\ Goto("cycles")
       /\ UNCHANGED <<loader, routes, baseStop, looper, handlers, res, signals>>
    \/ /\ At("cycles") /\ ~CycleFound
       /\ PickWhite \/ StepBack \/ \E child \in DOMAIN graph : Descend(child)
       /\ UNCHANGED serverVars
    \/ /\ At("cycles") /\ CycleFound
       /\ End("cycle")
       /\ UNCHANGED graftletVars
    \/ /\ At("cycles") /\ SearchDone
       /\ Goto("misc")
       /\ UNCHANGED <<graftletVars, loader, routes, baseStop, looper, handlers, res, signals>>

\* initMisc of the supernode: a directory cannot be made or the keys cannot be saved.
SupernodeMisc ==
    /\ At("misc") /\ server = "supernode"
    /\ \/ Goto("routers") /\ UNCHANGED <<loader, routes, baseStop, looper, handlers, res, signals>>
       \/ End("misc")
    /\ UNCHANGED graftletVars

\* initMisc of the wallet server: a wallet manager for the new looper.
WalletMisc ==
    /\ At("misc") /\ server = "wallet"
    /\ Goto("routers")
    /\ UNCHANGED <<graftletVars, loader, routes, baseStop, looper, handlers, res, signals>>

\* initConnectionManagers keeps the managers there are: the routes of a restart are added to
\* those of the run before.  addGenericCallbackRoute, initRouters, initGraftletRouters; the
\* init of a graftlet may throw.
CallbackRoute == <<[path |-> "callback", methods |-> {"POST"}]>>

\* setHttpRouters of the two servers.
OwnRoutes == IF server = "supernode" THEN SupernodeRoutes ELSE WalletRoutes

EndpointsOf(names) ==
    LET added[s \in SUBSET names] ==
            IF s = {} THEN <<>> ELSE added[s \ {Least(s)}] \o Endpoints[Least(s)]
    IN added[names]

GraftletRoutes == EndpointsOf(DOMAIN libs)

InitRouters ==
    /\ At("routers")
    /\ \/ /\ routes' = GraftletRoutes \o OwnRoutes \o CallbackRoute \o routes
          /\ Goto("bind")
          /\ UNCHANGED <<loader, baseStop, looper, handlers, res, signals>>
       \/ DOMAIN libs # {} /\ End("graftlet")
    /\ UNCHANGED graftletVars

\* Faulty: the methods of an endpoint are compared with those of the route before it only if that
\* is of the same router.
ConflictInRouter(r) ==
    \E i \in 2..Len(r) : r[i].path = r[i - 1].path /\ r[i].methods \cap r[i - 1].methods # {}

\* dbgCheckConflictRoutes: the methods that are kept of an endpoint are those all of its
\* routes so far share.
Conflict(r) ==
    \E i \in DOMAIN r :
        LET before == {j \in 1..(i - 1) : r[j].path = r[i].path}
        IN before # {} /\ {m \in r[i].methods : \A j \in before : m \in r[j].methods} # {}

\* The binds of the HTTP and the CoAP manager: an address may be in use.
BindAddresses ==
    \/ Goto("run") /\ UNCHANGED <<loader, routes, baseStop, looper, handlers, res, signals>>
    \/ End("bind")

\* bindConnectionManagers.
Bind ==
    /\ At("bind")
    /\ IF Conflict(routes) THEN End("conflict") ELSE BindAddresses
    /\ UNCHANGED graftletVars

----------------------------------------------------------------------------
(* GraftServer::run and the signals.                                       *)

InitSignals == handlers' = TRUE

StartRun ==
    /\ At("run")
    /\ InitSignals
    /\ res' = "UnexpectedOk"
    /\ Goto("serving")
    /\ UNCHANGED <<graftletVars, loader, routes, baseStop, looper, signals>>

\* Looper::stop
StopLooper(force) == looper' = [stop |-> TRUE, force |-> looper.force \/ force]

\* While no handler is set the process is killed.  A handler stops the looper there is and
\* then sets res, which may be too late: the loop may end first, in another thread than the
\* handler's.  Between two runs the variable res is gone.
Signal(s) ==
    /\ ended = "no" /\ signals < MaxSignals
    /\ IF ~handlers THEN End("killed")
       ELSE /\ signals' = signals + 1
            /\ baseStop' = TRUE
            /\ StopLooper(s = "SignalTerminate")
            /\ res' \in IF phase = "serving" THEN {s, res} ELSE {res}
            /\ UNCHANGED <<phase, ended, loader, routes, handlers>>
    /\ UNCHANGED graftletVars

\* The loop ends, once it is told to and can.
Served ==
    /\ At("serving")
    /\ looper.stop
    /\ IF res = "SignalRestart"
       THEN Goto("config") /\ UNCHANGED <<loader, routes, baseStop, looper, handlers, res, signals>>
       ELSE End("done")
    /\ UNCHANGED graftletVars

\* GraftServer::init, and the loop around it and run.
Start ==
    \/ Configure \/ CreateLooper \/ InitGraftlets \/ CheckDependencies
    \/ SupernodeMisc \/ WalletMisc \/ InitRouters \/ Bind

Run == Start \/ StartRun \/ Served

Next ==
    /\ \/ Run
       \/ \E s \in {"SignalShutdown", "SignalTerminate", "SignalRestart"} : Signal(s)
    /\ UNCHANGED server

Spec == Init /\ [][Next]_vars

----------------------------------------------------------------------------

\* What is loaded once the start is past the dependencies is the largest set of graftlets
\* whose dependencies are met among themselves, in whatever order the files came and the
\* libraries were unloaded, without a cycle; the start ends for a cycle only if there is one
\* (findGraftletsInDirectory, removeFailedDependants, findCycles).
GraftletsExact ==
    LET largest == {files[i].name : i \in LargestSupported}
    IN /\ phase \in {"misc", "routers", "bind", "run", "serving"} =>
             DOMAIN libs = largest /\ ~Cyclic(LargestSupported)
       /\ ended = "cycle" => Cyclic(LargestSupported)

\* A server serves with the routes of one start, which are those of the graftlets it loaded, its
\* own and the callback route: never with those a restart adds on top of the ones that the
\* connection managers, which outlive it, still have.  As the callback route is among both, a
\* server that was restarted does not serve (initConnectionManagers, checkRoutes).
ServesOneStart ==
    phase = "serving" => routes = GraftletRoutes \o OwnRoutes \o CallbackRoute
=============================================================================
