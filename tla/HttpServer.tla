------------------------------- MODULE HttpServer ------------------------------
(***************************************************************************)
(* The HTTP server of network/http_net/server.go as a record, and what its *)
(* methods, its serve goroutine, its clients and RegisterRoute do to it.   *)
(* Service says when each of them runs.                                    *)
(*                                                                         *)
(* Of net/http's Server the model keeps what these methods rely on: once   *)
(* inShutdown is set Serve returns, a response is the last of its          *)
(* connection, and nothing new is accepted; Server.Close drops every       *)
(* connection but leaves a handler that runs to itself.                    *)
(*                                                                         *)
(* Definitions that the model does not use and that stand before one it    *)
(* does are mutants: slips a property is shown to notice.                  *)
(***************************************************************************)
EXTENDS Naturals

CONSTANTS
    Clients,      \* connections that clients may open to an HTTP server
    MaxAdding     \* bound: RegisterRoute calls at a time

ASSUME MaxAddingAssumption == MaxAdding \in Nat

HTTPServer ==
    [isRunning  : BOOLEAN,
     serve      : {"none", "born", "serving", "ended", "gone"},  \* its goroutine
     listener   : BOOLEAN,      \* Listen found a port
     inShutdown : BOOLEAN,
     gaveUp     : BOOLEAN,      \* history: Serve returned before any Close
     closed     : BOOLEAN,      \* history: Close has returned
     conns      : [Clients -> {"none", "idle", "busy", "cut"}],
     routed     : BOOLEAN,      \* the path is in routes
     muxed      : BOOLEAN,      \* and in mux
     adding     : 0 .. MaxAdding] \* RegisterRoute calls between the two

NewHTTPServer ==
    [isRunning |-> FALSE, serve |-> "none", listener |-> FALSE,
     inShutdown |-> FALSE, gaveUp |-> FALSE, closed |-> FALSE,
     conns |-> [k \in Clients |-> "none"],
     routed |-> FALSE, muxed |-> FALSE, adding |-> 0]

(* Listen starts serve with the listener it found; over an empty range of    *)
(* ports no Listen fails, and it starts serve with none.                     *)
ListenOn(found) ==
    [NewHTTPServer EXCEPT !.isRunning = TRUE, !.serve = "born", !.listener = found]

(* The listener is open: until serve has run, or Shutdown has closed it. *)
Listens(h) ==
    h.listener /\ (h.serve = "born" \/ (h.serve = "serving" /\ ~h.inShutdown))

-------------------------------------------------------------------------------
(* serve: Serve returns at once when Shutdown came first, ...                *)
CanServe(h) == h.serve = "born" /\ h.listener
ServeBegins(h) ==
    [h EXCEPT !.serve = IF h.inShutdown THEN "ended" ELSE "serving"]

(* ... later when it comes, or by itself, as with a bad certificate; ...     *)
CanEnd(h) == h.serve = "serving" /\ h.inShutdown
ServeEnds(h) == [h EXCEPT !.serve = "ended"]

CanFail(h) == h.serve \in {"born", "serving"} /\ h.listener /\ ~h.inShutdown
ServeFails(h) == [h EXCEPT !.serve = "ended", !.gaveUp = TRUE]

(* ... and the deferred function takes the flag back.                        *)
ServeReturns(h) == [h EXCEPT !.serve = "gone", !.isRunning = FALSE]

-------------------------------------------------------------------------------
(* Close, when the server is running, ...                                    *)
CloseFlag(h) == [h EXCEPT !.isRunning = FALSE]

CloseShutdown(h) == [h EXCEPT !.inShutdown = TRUE]

DropIdle(h) ==
    [h EXCEPT !.conns = [k \in Clients |-> IF @[k] = "idle" THEN "none" ELSE @[k]]]

(* ... once Serve has returned drops the idle connections, and the others    *)
(* too: the context it waits for them under is done.                         *)
DropAll(h) ==
    [h EXCEPT !.conns = [k \in Clients |->
        CASE @[k] = "idle" -> "none" [] @[k] = "busy" -> "cut" [] OTHER -> @[k]]]

(* Nothing reads the routes of a closed server: it never listens again. *)
CloseReturned(h) ==
    [h EXCEPT !.closed = TRUE, !.routed = FALSE, !.muxed = FALSE, !.adding = 0]

-------------------------------------------------------------------------------
(* Clients; activeConns counts the requests in the handler.                  *)
activeConns(h) == {k \in Clients : h.conns[k] \in {"busy", "cut"}}

(* A client connects, sends a request, and gets its answer. *)
Client(h) ==
    {[h EXCEPT !.conns[k] = "idle"] :
        k \in {k \in Clients : h.serve = "serving" /\ ~h.inShutdown /\ h.conns[k] = "none"}}
      \cup {[h EXCEPT !.conns[k] = "busy"] : k \in {k \in Clients : h.conns[k] = "idle"}}
      \cup {[h EXCEPT !.conns[k] =
                IF h.inShutdown \/ h.conns[k] = "cut" THEN "none" ELSE "idle"] :
            k \in activeConns(h)}

(* RegisterRoute of one path: into routes, under routeMutex, ...             *)
CanAdd(h) == h.adding < MaxAdding
RouteFirst(h) == [h EXCEPT !.routed = TRUE, !.adding = @ + 1]

(* ... then into mux, under the server's lock, if the server is running.     *)
(* mux panics on a path that it has.                                         *)
Repeats(h) == h.isRunning /\ h.muxed
RouteSecond(h) == [h EXCEPT !.adding = @ - 1, !.muxed = h.muxed \/ h.isRunning]
===============================================================================
