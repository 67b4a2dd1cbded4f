----------------------------- MODULE MCPykiLoader -----------------------------
\* One injection, and the target's threads.
EXTENDS PykiLoader
===============================================================================
