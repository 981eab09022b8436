---------------------------- MODULE MCRpcSession ----------------------------
EXTENDS RpcSession

(* One v2 session with one Run at a time, and what each scope adds to it.  *)
Plain == [proto |-> 2, methods |-> {}, runs |-> 1, confirm |-> {}, mid |-> 0, reqs |-> 4,
          cancels |-> 0, flight |-> 1, dies |-> FALSE]

MCScopes ==
  { [Plain EXCEPT !.mid = 2, !.reqs = 3],                  \* full queues, another thread
    [Plain EXCEPT !.confirm = {1}, !.reqs = 5],            \* the confirmation loop
    [Plain EXCEPT !.methods = {"abort"}, !.runs = 2],      \* Run after Run, old handles
    [Plain EXCEPT !.methods = {"abort", "close"}],         \* the end of the session
    [Plain EXCEPT !.dies = TRUE],                          \* the server process dies
    [Plain EXCEPT !.methods = {"badinit", "steer"}, !.cancels = 1, !.reqs = 3],
    [Plain EXCEPT !.proto = 1, !.methods = {"abort"}, !.runs = 2, !.reqs = 3, !.flight = 2] }
=============================================================================
