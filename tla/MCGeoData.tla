----------------------------- MODULE MCGeoData -----------------------------
(* Small instances of GeoData for TLC.                                     *)
EXTENDS GeoData
=============================================================================
