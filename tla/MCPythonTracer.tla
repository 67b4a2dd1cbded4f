---------------------------- MODULE MCPythonTracer ----------------------------
\* One session, and a thread that may start at any time of it.
EXTENDS PythonTracer
===============================================================================
