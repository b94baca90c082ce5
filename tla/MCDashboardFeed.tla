---- MODULE MCDashboardFeed ----
EXTENDS DashboardFeed
CONSTANTS a, b
====
