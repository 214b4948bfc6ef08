--------------------------- MODULE MCLoaderAttachment ---------------------------
(* The ways to run an analyzer that LoaderAttachment is checked for.               *)
EXTENDS LoaderAttachment

\* A channel's loader has one backend, the receive loader two in the mode "auto".
AllSetups == {s \in Setup : s.kind = "channel" => s.attempts = 1}

\* A root analyzer and the receive loader: sudo is in between, and may be signalled.
RootReceive == {s \in Setup : s.kind = "receive" /\ s.root /\ s.attempts = 2}
=================================================================================
