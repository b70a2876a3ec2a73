-------------------------- MODULE MCWebSocketClient --------------------------
EXTENDS WebSocketClient
=============================================================================
