------------------------------- MODULE MCPipe -------------------------------
EXTENDS Pipe
====
