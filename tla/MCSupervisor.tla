---------------------------- MODULE MCSupervisor ----------------------------
EXTENDS Supervisor

Line(t, c, d, b, n, k) ==
  [tool |-> t, cmd |-> c, display |-> d, boot |-> b, noreboot |-> n, cards |-> k]

(* Whole sessions on one card, and short ones side by side on two. *)
MCJobs ==
  {Line("micflash", "update", d, b, FALSE, 1) : d \in {"default", "v"}, b \in BOOLEAN}
  \cup {Line("micflash", "file", "default", FALSE, FALSE, 1)}
  \cup {Line("micflash", "update", "default", FALSE, TRUE, 1)}
  \cup {Line("mpssflash", "update", "default", TRUE, FALSE, 1)}
  \cup {Line("micflash", "smc", "v", FALSE, FALSE, 2)}
  \cup {Line("micflash", "read", "default", FALSE, FALSE, 2)}
  \cup {Line("mpssflash", "read", "default", FALSE, FALSE, 2)}

(* One update, watched by micflash. *)
OneUpdate == {Line("micflash", "update", "default", FALSE, FALSE, 1)}

MCMaxErrors == <<3, 1>>
=============================================================================
