----------------------------- MODULE MCPatchRun -----------------------------
EXTENDS PatchRun, TLC

CONSTANTS j1, j2, u1, u2, own

AllBackends == {"apt", "dnf", "pacman", "softwareupdate", "wua"}

\* Both jobs want u1; one also the agent's own package, or nothing at all.
AllBodies == (j1 :> {{u1, u2}}) @@ (j2 :> {{u1, own}, {}})
=============================================================================
