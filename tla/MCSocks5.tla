------------------------------ MODULE MCSocks5 ------------------------------
(* Small instances of Socks5 for TLC. *)
EXTENDS Socks5

BothPumps  == {"bufferpump", "splicepump"}
SpliceOnly == {"splicepump"}

AllMethodReplies == {"noauth", "bad_version", "bad_method", "long"}
AllConnectReplies ==
  {"ipv4", "ipv6", "bad_version", "refused", "domain", "short_domain"}
Conforming == {"noauth"}
Ipv6Only   == {"ipv6"}
Ipv4Only   == {"ipv4"}
=============================================================================
